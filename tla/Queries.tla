------------------------------ MODULE Queries -------------------------------
(***************************************************************************)
(* list_chats, read_messages, search and resolve_conversation of           *)
(* crates/teams-core/src/teams.rs, and a client that pages backwards       *)
(* through a chat with before_ms while new messages reach the cache.       *)
(*                                                                         *)
(* The cache maps each conversation that has messages to them, in time     *)
(* order.  An entry is [copy, conv, time]; two of them may be versions of  *)
(* one message, of equal or of different times, for the cache holds every  *)
(* version that is on disk and nothing here tells them from two messages:  *)
(* `copy' numbers the entries, not the messages.  Rebuilds only add.  Text *)
(* is abstracted: Matches says which topics contain a chat argument, and   *)
(* every message matches the searched word.  before_ms is the time of the  *)
(* oldest message received.                                                *)
(***************************************************************************)
EXTENDS Naturals, FiniteSets, SequencesExt, Slices

CONSTANTS
  Convs,        \* conversation ids
  Chats,        \* chat arguments: conversation ids and parts of topics
  Matches,      \* per chat argument, the conversations whose topic contains it
  Limits,       \* limit arguments
  MaxTime,      \* bound: time stamps
  MaxMessages,  \* bound: entries of the cache
  NoCursor      \* before_ms not given

ASSUME QueriesAssumption ==
  /\ IsFiniteSet(Convs)
  /\ Matches \in [Chats -> SUBSET Convs] /\ Limits \subseteq Nat
  /\ MaxTime \in Nat /\ MaxMessages \in Nat /\ NoCursor \notin Nat

VARIABLES
  messages,  \* messages_by_conv of the current cache
  pc,        \* the client: "idle", "paging", "done"
  chat,      \* its chat argument
  limit,     \* its limit argument
  cursor,    \* its before_ms
  got,       \* the messages it received, page by page
  goal,      \* what the chat held when it began (history)
  edges      \* the values before_ms has had (history)

vars == <<messages, pc, chat, limit, cursor, got, goal, edges>>

All == UNION {ToSet(messages[c]) : c \in DOMAIN messages}

Init ==
  /\ messages = [c \in {} |-> <<>>]
  /\ pc = "idle" /\ chat \in Chats /\ limit \in Limits
  /\ cursor = NoCursor /\ got = <<>> /\ goal = {} /\ edges = {}

-----------------------------------------------------------------------------
LastTime(c) == Last(messages[c]).time

\* Those of S that a sort by last message, newest first, may put in front.
Newest(S) == {c \in S : \A d \in S : LastTime(d) <= LastTime(c)}

\* Two wrong resolve_conversations: the topic is tried before the id, and the
\* candidates are sorted without the minus sign.
ResolveTopicFirst(arg) ==
  LET byTopic == Matches[arg] \cap DOMAIN messages
  IN IF byTopic # {} THEN Newest(byTopic) ELSE {arg} \cap DOMAIN messages

ResolveOldest(arg) ==
  LET byTopic == Matches[arg] \cap DOMAIN messages
  IN IF arg \in DOMAIN messages THEN {arg}
     ELSE {c \in byTopic : \A d \in byTopic : LastTime(c) <= LastTime(d)}

\* resolve_conversation, as the set of conversations it may return: the id
\* itself, else the newest of the conversations whose topic matches.  Equal
\* times keep the order of the HashMap.
Resolve(arg) ==
  IF arg \in DOMAIN messages THEN {arg} ELSE Newest(Matches[arg] \cap DOMAIN messages)

\* A wrong LastN: the first n.
FirstN(s, n) == SubSeq(s, 1, IF Len(s) < n THEN Len(s) ELSE n)

LastN(s, n) == SubSeq(s, IF Len(s) > n THEN Len(s) - n + 1 ELSE 1, Len(s))

\* A wrong Before: the message at before_ms itself is included.
UpTo(c, before) ==
  LET s == messages[c]
  IN Kept(s, {p \in DOMAIN s : before = NoCursor \/ s[p].time <= before})

Before(c, before) ==
  LET s == messages[c]
  IN Kept(s, {p \in DOMAIN s : before = NoCursor \/ s[p].time < before})

\* read_messages once the chat is resolved.
Read(c, n, before) == LastN(Before(c, before), n)

\* The answers read_messages may give: none if the chat is not found.
ReadMessages(arg, n, before) ==
  IF Resolve(arg) = {} THEN {<<>>} ELSE {Read(c, n, before) : c \in Resolve(arg)}

\* list_chats, as the set of orders it may return.
ListChats ==
  {l \in SetToSeqs(DOMAIN messages) :
     \A i, j \in DOMAIN l : i < j => LastTime(l[i]) >= LastTime(l[j])}

\* A wrong Sorted: build_cache does not sort.
Unsorted(S) == SetToSeqs(S)

\* The orders a sort by time may give: messages with equal times stay in the
\* order they were collected in, which is the HashMap's.
Sorted(S) ==
  {s \in SetToSeqs(S) : \A i, j \in DOMAIN s : i < j => s[i].time <= s[j].time}

\* search's sorted hits, for a word every message contains.
Hits ==
  {StableSort(FlattenSeq([i \in DOMAIN o |-> messages[o[i]]])) :
     o \in SetToSeqs(DOMAIN messages)}

\* A wrong Search: the first n hits instead of the last n.
SearchOldest(n) == {FirstN(s, n) : s \in Hits}

Search(n) == {LastN(s, n) : s \in Hits}

-----------------------------------------------------------------------------
\* The cache is rebuilt with one more entry, new or late, at its place; those with
\* equal times may change places.  It is a new message or another version of one:
\* collect_messages pushes the messages of every version of a record it is given.
Arrive(c, time) ==
  /\ Cardinality(All) < MaxMessages
  /\ LET m == [copy |-> Cardinality(All) + 1, conv |-> c, time |-> time]
         now == All \cup {m}
         held(d) == {x \in now : x.conv = d}
     IN messages' \in {f \in [{x.conv : x \in now} -> UNION {Sorted(held(d)) : d \in Convs}] :
                         \A d \in DOMAIN f : f[d] \in Sorted(held(d))}
  /\ UNCHANGED <<pc, chat, limit, cursor, got, goal, edges>>

\* The client asks for the newest page, then for the page before what it has,
\* until a page is empty.  (The bound on got is never reached: before_ms falls
\* with every page, so no more than the messages there are is received.)
Page ==
  /\ pc # "done" /\ Len(got) <= MaxMessages
  /\ \E page \in ReadMessages(chat, limit, cursor) :
       /\ got' = page \o got
       /\ IF page = <<>> THEN pc' = "done" /\ UNCHANGED <<cursor, edges>>
          ELSE /\ pc' = "paging" /\ cursor' = Head(page).time
               /\ edges' = edges \cup {cursor'}
       /\ goal' = IF pc # "idle" THEN goal
                  ELSE IF page = <<>> THEN {} ELSE ToSet(messages[Head(page).conv])
  /\ UNCHANGED <<messages, chat, limit>>

Done == pc = "done" /\ UNCHANGED vars

Next == Page \/ Done \/ \E c \in Convs, time \in 0..MaxTime : Arrive(c, time)

Spec == Init /\ [][Next]_vars

\* The client keeps asking.
FairSpec == Spec /\ WF_vars(Page)

-----------------------------------------------------------------------------
(* Properties *)

TypeOK ==
  /\ DOMAIN messages \subseteq Convs
  /\ \A c \in DOMAIN messages :
       /\ messages[c] \in Seq([copy : 1..MaxMessages, conv : {c}, time : 0..MaxTime])
       /\ messages[c] # <<>>
       /\ \A i, j \in DOMAIN messages[c] : i < j => messages[c][i].time <= messages[c][j].time
  /\ pc \in {"idle", "paging", "done"} /\ chat \in Chats /\ limit \in Limits
  /\ cursor \in (0..MaxTime) \cup {NoCursor}
  /\ ToSet(got) \subseteq All /\ goal \subseteq All /\ edges \subseteq 0..MaxTime

\* The argument means one conversation for as long as the client pages: it is
\* the id of one that had messages at the start, or a part of only one topic.
\* (An argument may stop meaning what it meant: an id without messages falls
\* back to topics, and of several topics the one with the newest message wins.)
Steady ==
  chat \in {m.conv : m \in goal} \/ (chat \notin Convs /\ Cardinality(Matches[chat]) <= 1)

\* before_ms is "for paging into the past" (lib.rs, ReadMessagesArgs): who pages
\* until a page is empty has seen what the chat held at the start, every version of
\* it, though messages keep arriving and equal times change places, except for those
\* that share the time of some page's first message: before_ms excludes the ones that
\* did not fit on that page.
PagingMissesOnlyTies ==
  pc = "done" /\ limit > 0 /\ Steady =>
    \A m \in goal \ ToSet(got) :
      m.time \in edges /\ \E i \in DOMAIN got : got[i].time = m.time /\ got[i].conv = m.conv

\* Pages do not overlap, they join up in time order, and all come from one
\* conversation, whatever arrives between two pages, even when a newer message in
\* another conversation, or a topic that contains the id, would attract the argument.
\* (No entry of the cache is received twice.  A message is, when the cache holds two
\* versions of it: nothing in build_cache or read_messages removes one.)
PagesJoinUp ==
  Steady => \A i, j \in DOMAIN got :
              i < j => /\ got[i].copy # got[j].copy /\ got[i].time <= got[j].time
                       /\ got[i].conv = got[j].conv

\* A part of a topic means the first chat of list_chats that has it.
TopicMeansTopOfList ==
  chat \notin DOMAIN messages =>
    \A c \in Resolve(chat) : \E l \in ListChats :
      /\ \E i \in DOMAIN l :
           l[i] = c /\ \A j \in 1..(i - 1) : l[j] \notin Matches[chat]

\* The three tools agree on the newest message: the top of list_chats, the last
\* message of that chat and the one hit of a search for the newest.
NewestAgrees ==
  LET hits == Search(1)
  IN \A l \in ListChats : l # <<>> =>
       /\ <<Last(Read(l[1], 1, NoCursor))>> \in hits
       /\ \A m \in All : m.time <= LastTime(l[1])

\* Paging comes to an end.
PagingEnds == <>(pc = "done")
=============================================================================
