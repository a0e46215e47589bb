CONSTANTS
  Convs <- MCConvs
  Chats <- MCChats
  Matches <- MCMatches
  Limits = {0, 1, 2}
  MaxTime = 2
  MaxMessages = 4
  NoCursor = NoCursor
SPECIFICATION FairSpec
INVARIANTS TypeOK PagingMissesOnlyTies PagesJoinUp TopicMeansTopOfList NewestAgrees
PROPERTIES PagingEnds
