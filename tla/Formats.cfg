SPECIFICATION FormatsSpec
CONSTANTS
  WordBits = 22
  FooterSize = 48
  RestartInterval = 2
  Replies = {"<reply 1>", "<reply 2>"}
  SharedImages = {"<img 1>", "<img 2>"}
  OtherTags = {"<p>", "<img emoji>"}
  EntityLimit = 2
  Names <- MCNames
  Ids <- MCIds
  Indexes <- MCIndexes
  Items <- MCItems
  Payloads <- MCPayloads
  Tables <- MCTables
  Values <- MCValues
  Contents <- MCContents
  LastDay = 60000
INVARIANTS KeysExact TablesExact ValuesExact ContentExact DatesExact
CHECK_DEADLOCK FALSE
