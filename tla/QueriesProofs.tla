---------------------------- MODULE QueriesProofs -----------------------------
(***************************************************************************)
(* Proofs about Queries, for every set of conversations and topics, every  *)
(* limit and every number of messages: what a client that pages backwards  *)
(* may miss, and where list_chats, read_messages and search agree.         *)
(***************************************************************************)
EXTENDS Queries, SequenceLemmas

Message == [copy : 1..MaxMessages, conv : Convs, time : 0..MaxTime]

Ordered(s) == \A i, j \in DOMAIN s : i < j => s[i].time <= s[j].time

\* Each conversation holds its own entries, in time order and each once; the
\* copies number all entries.
StoreInv ==
  /\ DOMAIN messages \subseteq Convs
  /\ \A c \in DOMAIN messages :
       /\ messages[c] \in Seq([copy : 1..MaxMessages, conv : {c}, time : 0..MaxTime])
       /\ messages[c] # <<>> /\ Ordered(messages[c])
       /\ \A i, j \in DOMAIN messages[c] : i # j => messages[c][i] # messages[c][j]
  /\ IsFiniteSet(All)
  /\ \A m \in All : m.copy <= Cardinality(All)
  /\ \A m, n \in All : m.copy = n.copy => m = n

\* before_ms is the time of the oldest message received, if there is one.
ClientInv ==
  /\ pc \in {"idle", "paging", "done"} /\ chat \in Chats /\ limit \in Limits
  /\ got \in Seq(Message) /\ ToSet(got) \subseteq All /\ goal \subseteq All
  /\ edges \subseteq 0..MaxTime
  /\ pc = "idle" => got = <<>>
  /\ pc = "paging" => got # <<>>
  /\ got = <<>> => cursor = NoCursor /\ goal = {} /\ edges = {}
  /\ got # <<>> => cursor = got[1].time /\ cursor \in edges

\* All the argument can mean for a steady client that has a page.
Means(c) ==
  /\ c \in DOMAIN messages
  /\ chat = c \/ (chat \notin Convs /\ Matches[chat] = {c})
  /\ \A m \in goal : m.conv = c
  /\ \A i \in DOMAIN got : got[i].conv = c

\* Excluded by before_ms though older pages do not hold it.
Tie(m) == m.time \in edges /\ \E i \in DOMAIN got : got[i].time = m.time

\* What a steady client has not yet received is older than all it has, or is
\* a tie; once a page was empty, it is a tie.
SteadyInv ==
  Steady /\ got # <<>> =>
    /\ \E c \in Convs : Means(c)
    /\ Ordered(got)
    /\ \A i, j \in DOMAIN got : i # j => got[i].copy # got[j].copy
    /\ limit > 0 => \A m \in goal \ ToSet(got) :
                      Tie(m) \/ (pc = "paging" /\ m.time < cursor)

QInv == StoreInv /\ ClientInv /\ SteadyInv

-----------------------------------------------------------------------------
\* filter keeps a beginning of the sequence if it keeps the positions up to k.
LEMMA KeptPrefix ==
  ASSUME NEW S, NEW s \in Seq(S), NEW k \in 0..Len(s)
  PROVE  /\ Kept(s, 1..k) \in Seq(S) /\ Len(Kept(s, 1..k)) = k
         /\ \A n \in 1..k : Kept(s, 1..k)[n] = s[n]
<1>1. Len(s) \in Nat /\ k \in Nat
  BY LenProperties
<1>2. \A p \in 0..k : IsFiniteSet(1..p) /\ Cardinality(1..p) = p
  <2>1. ASSUME NEW p \in 0..k PROVE IsFiniteSet(1..p) /\ Cardinality(1..p) = p
    <3>1. p \in Int /\ 1 \in Int
      BY <1>1
    <3>2. IsFiniteSet(1..p) /\ Cardinality(1..p) = IF 1 > p THEN 0 ELSE p - 1 + 1
      BY <3>1, FS_Interval
    <3> QED
      BY <1>1, <3>2
  <2> QED
    BY <2>1
<1>3. ASSUME NEW n \in 1..k
      PROVE  (CHOOSE p \in 1..k : Cardinality({q \in 1..k : q <= p}) = n) = n
  <2>1. \A p \in 1..k : {q \in 1..k : q <= p} = 1..p
    BY <1>1
  <2>2. \A p \in 1..k : Cardinality({q \in 1..k : q <= p}) = p
    <3>1. ASSUME NEW p \in 1..k PROVE Cardinality({q \in 1..k : q <= p}) = p
      <4>1. p \in 0..k
        BY <1>1
      <4> QED
        BY <1>2, <2>1, <4>1
    <3> QED
      BY <3>1
  <2> QED
    BY <2>2
<1>4. Kept(s, 1..k) = [n \in 1..k |-> s[n]]
  <2>1. Cardinality(1..k) = k
    BY <1>1, <1>2
  <2>2. Kept(s, 1..k) =
          [n \in 1..k |-> s[CHOOSE p \in 1..k : Cardinality({q \in 1..k : q <= p}) = n]]
    BY <2>1 DEF Kept
  <2> QED
    BY <1>3, <2>2
<1>5. \A n \in 1..k : s[n] \in S
  BY <1>1, ElementOfSeq
<1>6. Kept(s, 1..k) \in [1..k -> S]
  BY <1>4, <1>5
<1>7. Kept(s, 1..k) \in Seq(S)
  BY <1>1, <1>6, SeqDef
<1>8. Len(Kept(s, 1..k)) = k
  BY <1>1, <1>6, <1>7, LenProperties
<1> QED
  BY <1>4, <1>7, <1>8

\* The last n of a sequence.
LEMMA LastNSuffix ==
  ASSUME NEW S, NEW s \in Seq(S), NEW n \in Nat
  PROVE  \E lo \in 1..(Len(s) + 1) :
           /\ LastN(s, n) \in Seq(S) /\ Len(LastN(s, n)) = Len(s) + 1 - lo
           /\ \A i \in 1..(Len(s) + 1 - lo) : LastN(s, n)[i] = s[lo + i - 1]
           /\ n > 0 /\ Len(s) > 0 => lo <= Len(s)
<1> DEFINE lo == IF Len(s) > n THEN Len(s) - n + 1 ELSE 1
<1>1. Len(s) \in Nat
  BY LenProperties
<1>2. lo \in 1..(Len(s) + 1) /\ (n > 0 /\ Len(s) > 0 => lo <= Len(s))
  BY <1>1
<1>3. LastN(s, n) = SubSeq(s, lo, Len(s))
  BY DEF LastN
<1> HIDE DEF lo
<1>4. \A i \in lo..Len(s) : s[i] \in S
  BY <1>1, <1>2, ElementOfSeq
<1>5. /\ SubSeq(s, lo, Len(s)) \in Seq(S)
      /\ Len(SubSeq(s, lo, Len(s))) = IF lo <= Len(s) THEN Len(s) - lo + 1 ELSE 0
      /\ \A i \in 1..(Len(s) - lo + 1) : SubSeq(s, lo, Len(s))[i] = s[lo + i - 1]
  BY <1>1, <1>2, <1>4, SubSeqProperties
<1>6. Len(s) + 1 - lo = Len(s) - lo + 1
  BY <1>1, <1>2
<1>7. Len(SubSeq(s, lo, Len(s))) = Len(s) + 1 - lo
  BY <1>1, <1>2, <1>5
<1> QED
  BY <1>2, <1>3, <1>5, <1>6, <1>7

-----------------------------------------------------------------------------
\* What a conversation holds.
LEMMA Conversation ==
  ASSUME StoreInv, NEW c \in DOMAIN messages
  PROVE  /\ c \in Convs /\ messages[c] \in Seq(Message)
         /\ Len(messages[c]) \in Nat /\ Len(messages[c]) # 0
         /\ DOMAIN messages[c] = 1..Len(messages[c])
         /\ \A i \in 1..Len(messages[c]) :
              messages[c][i] \in Message /\ messages[c][i].conv = c /\ messages[c][i] \in All
         /\ \A m \in All : m.conv = c => m \in ToSet(messages[c])
<1> DEFINE Own(d) == [copy : 1..MaxMessages, conv : {d}, time : 0..MaxTime]
<1>1. \A d \in DOMAIN messages : d \in Convs /\ messages[d] \in Seq(Own(d)) /\ messages[d] # <<>>
  BY DEF StoreInv
<1>2. Len(messages[c]) \in Nat /\ Len(messages[c]) # 0 /\ DOMAIN messages[c] = 1..Len(messages[c])
  <2> HIDE DEF Own
  <2> QED
    BY <1>1, EmptySeq, LenProperties
<1>3. \A d \in DOMAIN messages : \A i \in DOMAIN messages[d] : messages[d][i] \in Own(d)
  <2> HIDE DEF Own
  <2> QED
    BY <1>1, ElementOfSeq, LenProperties
<1>4. \A d \in DOMAIN messages : Own(d) \subseteq Message /\ \A m \in Own(d) : m.conv = d
  BY <1>1 DEF Message
<1>5. messages[c] \in Seq(Message)
  <2> HIDE DEF Own
  <2>1. messages[c] \in [1..Len(messages[c]) -> Message]
    <3>1. messages[c] \in [1..Len(messages[c]) -> Own(c)]
      BY <1>1, LenProperties
    <3> QED
      BY <1>4, <3>1
  <2> QED
    BY <1>2, <2>1, SeqDef
<1> HIDE DEF Own
<1>6. \A i \in 1..Len(messages[c]) : messages[c][i] \in All
  BY <1>2 DEF All, ToSet
<1>7. ASSUME NEW m \in All, m.conv = c PROVE m \in ToSet(messages[c])
  <2>1. PICK d \in DOMAIN messages : m \in ToSet(messages[d])
    BY DEF All
  <2>2. PICK i \in DOMAIN messages[d] : m = messages[d][i]
    BY <2>1 DEF ToSet
  <2>3. m.conv = d
    BY <1>3, <1>4, <2>2
  <2> QED
    BY <1>7, <2>1, <2>3
<1> QED
  BY <1>1, <1>2, <1>3, <1>4, <1>5, <1>6, <1>7

\* A page is the part from lo to k of a conversation, where k is the last
\* message before before_ms.
PageFrom(page, c, n, before, k, lo) ==
  /\ k \in 0..Len(messages[c]) /\ lo \in 1..(k + 1)
  /\ \A p \in 1..Len(messages[c]) :
       p <= k <=> (before = NoCursor \/ messages[c][p].time < before)
  /\ page \in Seq(Message) /\ Len(page) = k + 1 - lo
  /\ \A i \in 1..(k + 1 - lo) : page[i] = messages[c][lo + i - 1]
  /\ n > 0 /\ k > 0 => lo <= k

LEMMA ReadPage ==
  ASSUME StoreInv, NEW c \in DOMAIN messages, NEW n \in Nat, NEW before \in Nat \cup {NoCursor}
  PROVE  \E k, lo \in Nat : PageFrom(Read(c, n, before), c, n, before, k, lo)
<1> DEFINE s == messages[c]
           keep == {p \in DOMAIN s : before = NoCursor \/ s[p].time < before}
<1>1. /\ s \in Seq(Message) /\ Len(s) \in Nat /\ DOMAIN s = 1..Len(s)
      /\ \A i \in 1..Len(s) : s[i].time \in Nat
  <2>1. \A m \in Message : m.time \in Nat
    BY QueriesAssumption DEF Message
  <2> QED
    BY <2>1, Conversation
<1>2. \A i, j \in DOMAIN s : i < j => s[i].time <= s[j].time
  BY DEF StoreInv, Ordered
<1>3. PICK k \in 0..Len(s) : keep = 1..k
  <2>1. CASE keep = {}
    BY <1>1, <2>1
  <2>2. CASE keep # {}
    <3>1. keep \in SUBSET (0..Len(s))
      BY <1>1
    <3>2. PICK k \in keep : \A p \in keep : p <= k
      <4> HIDE DEF keep
      <4> QED
        BY <1>1, <2>2, <3>1, GreatestNat
    <3>3. ASSUME NEW p \in 1..k PROVE p \in keep
      <4>1. p \in DOMAIN s /\ k \in DOMAIN s /\ (p = k \/ p < k)
        BY <1>1, <3>2
      <4>2. CASE before = NoCursor
        BY <4>1, <4>2
      <4>3. CASE before # NoCursor
        <5>1. s[k].time < before /\ before \in Nat
          BY <3>2, <4>3
        <5>2. s[p].time <= s[k].time
          BY <1>1, <1>2, <4>1
        <5>3. s[p].time \in Nat /\ s[k].time \in Nat
          BY <1>1, <4>1
        <5> QED
          BY <4>1, <5>1, <5>2, <5>3
      <4> QED
        BY <4>2, <4>3
    <3>4. keep = 1..k /\ k \in 0..Len(s)
      BY <1>1, <3>1, <3>2, <3>3
    <3> QED
      BY <3>4
  <2> QED
    BY <2>1, <2>2
<1>4. \A p \in 1..Len(s) : p <= k <=> (before = NoCursor \/ s[p].time < before)
  BY <1>1, <1>3
<1> DEFINE b == Before(c, before)
<1>5. b = Kept(s, 1..k)
  BY <1>3 DEF Before
<1> HIDE DEF s, keep, b
<1>6. b \in Seq(Message) /\ Len(b) = k /\ \A i \in 1..k : b[i] = s[i]
  BY <1>1, <1>5, KeptPrefix
<1>7. PICK lo \in 1..(k + 1) :
         /\ LastN(b, n) \in Seq(Message) /\ Len(LastN(b, n)) = k + 1 - lo
         /\ \A i \in 1..(k + 1 - lo) : LastN(b, n)[i] = b[lo + i - 1]
         /\ n > 0 /\ k > 0 => lo <= k
  BY <1>6, LastNSuffix
<1>8. \A i \in 1..(k + 1 - lo) : lo + i - 1 \in 1..k
  BY <1>1
<1>9. Read(c, n, before) = LastN(b, n)
  BY DEF Read, b
<1>10. k \in Nat /\ lo \in Nat
  BY <1>1
<1>11. PageFrom(Read(c, n, before), c, n, before, k, lo)
  BY <1>4, <1>6, <1>7, <1>8, <1>9 DEF s, PageFrom
<1> QED
  BY <1>10, <1>11

-----------------------------------------------------------------------------
\* The conversation an argument finds is there; it is the argument or one of
\* those whose topic matches.
LEMMA ResolveFinds ==
  ASSUME NEW c \in Resolve(chat)
  PROVE  /\ c \in DOMAIN messages
         /\ chat = c \/ (chat \notin DOMAIN messages /\ c \in Matches[chat])
BY DEF Resolve, Newest

\* While it means one conversation, the argument finds that one.
LEMMA MeaningIsFound ==
  ASSUME StoreInv, NEW c, Means(c)
  PROVE  Resolve(chat) = {c}
<1>1. c \in DOMAIN messages /\ (chat = c \/ (chat \notin Convs /\ Matches[chat] = {c}))
  BY DEF Means
<1>2. CASE chat \in DOMAIN messages
  <2>1. chat \in Convs
    BY <1>2 DEF StoreInv
  <2> QED
    BY <1>1, <1>2, <2>1 DEF Resolve
<1>3. CASE chat \notin DOMAIN messages
  <2>1. Matches[chat] \cap DOMAIN messages = {c}
    BY <1>1, <1>3
  <2>2. LastTime(c) <= LastTime(c)
    <3>1. messages[c][Len(messages[c])].time \in Nat
      <4>1. Len(messages[c]) \in 1..Len(messages[c])
        <5>1. Len(messages[c]) \in Nat /\ Len(messages[c]) # 0
          BY <1>1, Conversation
        <5> QED
          BY <5>1
      <4>2. messages[c][Len(messages[c])] \in Message
        BY <1>1, <4>1, Conversation
      <4> QED
        BY <4>2, QueriesAssumption DEF Message
    <3> QED
      BY <3>1 DEF LastTime, Last
  <2> QED
    BY <1>3, <2>1, <2>2 DEF Resolve, Newest
<1> QED
  BY <1>2, <1>3

\* What one question to read_messages does to the client.
LEMMA PageEffect ==
  ASSUME StoreInv, ClientInv, Page
  PROVE  /\ UNCHANGED <<messages, chat, limit>>
         /\ \/ /\ pc' = "done" /\ UNCHANGED <<cursor, got, goal, edges>>
               /\ limit > 0 => \A c \in DOMAIN messages : Resolve(chat) = {c} =>
                    \A p \in 1..Len(messages[c]) :
                      ~(cursor = NoCursor \/ messages[c][p].time < cursor)
            \/ \E page \in Seq(Message), c \in DOMAIN messages, k \in Nat, lo \in Nat :
                 /\ c \in Resolve(chat) /\ PageFrom(page, c, limit, cursor, k, lo) /\ lo <= k
                 /\ pc' = "paging" /\ got' = page \o got
                 /\ cursor' = messages[c][lo].time /\ edges' = edges \cup {cursor'}
                 /\ goal' = IF pc = "idle" THEN ToSet(messages[c]) ELSE goal
<1>1. PICK page \in ReadMessages(chat, limit, cursor) :
        /\ got' = page \o got
        /\ IF page = <<>> THEN pc' = "done" /\ UNCHANGED <<cursor, edges>>
           ELSE /\ pc' = "paging" /\ cursor' = Head(page).time
                /\ edges' = edges \cup {cursor'}
        /\ goal' = IF pc # "idle" THEN goal
                   ELSE IF page = <<>> THEN {} ELSE ToSet(messages[Head(page).conv])
  BY DEF Page
<1>2. UNCHANGED <<messages, chat, limit>>
  BY DEF Page
<1>3. limit \in Nat /\ cursor \in Nat \cup {NoCursor} /\ got \in Seq(Message)
  <2>1. got # <<>> => got[1].time \in Nat
    <3>1. \A m \in Message : m.time \in Nat
      BY QueriesAssumption DEF Message
    <3>2. got # <<>> => got[1] \in Message
      <4>1. got \in Seq(Message)
        BY DEF ClientInv
      <4>2. got # <<>> => 1 \in 1..Len(got)
        <5>1. Len(got) \in Nat /\ (got # <<>> => Len(got) # 0)
          BY <4>1, EmptySeq, LenProperties
        <5> QED
          BY <5>1
      <4> QED
        BY <4>1, <4>2, ElementOfSeq
    <3> QED
      BY <3>1, <3>2
  <2> QED
    BY <2>1, QueriesAssumption DEF ClientInv
<1>4. CASE page = <<>>
  <2>1. got' = got
    BY <1>1, <1>3, <1>4, ConcatEmptySeq
  <2>2. goal' = goal
    BY <1>1, <1>4 DEF ClientInv
  <2>3. ASSUME limit > 0, NEW c \in DOMAIN messages, Resolve(chat) = {c},
               NEW p \in 1..Len(messages[c]),
               cursor = NoCursor \/ messages[c][p].time < cursor
        PROVE  FALSE
    <3>1. page = Read(c, limit, cursor)
      BY <1>1, <2>3 DEF ReadMessages
    <3>2. PICK k \in Nat, lo \in Nat : PageFrom(page, c, limit, cursor, k, lo)
      BY <1>3, <3>1, ReadPage
    <3>3. Len(page) = 0
      BY <1>4
    <3>4. Len(messages[c]) \in Nat
      BY Conversation
    <3> QED
      BY <2>3, <3>2, <3>3, <3>4 DEF PageFrom
  <2> QED
    BY <1>1, <1>2, <1>4, <2>1, <2>2, <2>3
<1>5. CASE page # <<>>
  <2>1. PICK c \in Resolve(chat) : page = Read(c, limit, cursor)
    BY <1>1, <1>5 DEF ReadMessages
  <2>2. c \in DOMAIN messages
    BY <2>1, ResolveFinds
  <2>3. PICK k \in Nat, lo \in Nat : PageFrom(page, c, limit, cursor, k, lo)
    BY <1>3, <2>1, <2>2, ReadPage
  <2>4. /\ Len(messages[c]) \in Nat
        /\ \A i \in 1..Len(messages[c]) : messages[c][i].conv = c
    BY <2>2, Conversation
  <2>5. page \in Seq(Message) /\ Len(page) # 0
    BY <1>5, <2>3, EmptySeq DEF PageFrom
  <2>6. k \in 1..Len(messages[c]) /\ lo \in 1..k
    BY <2>3, <2>4, <2>5 DEF PageFrom
  <2>8. Head(page) = messages[c][lo]
    <3>1. 1 \in 1..(k + 1 - lo) /\ lo + 1 - 1 = lo
      BY <2>6
    <3>2. page[1] = messages[c][lo]
      BY <2>3, <3>1 DEF PageFrom
    <3> QED
      BY <3>2
  <2>9. Head(page).conv = c
    BY <2>4, <2>6, <2>8
  <2>10. /\ pc' = "paging" /\ got' = page \o got
         /\ cursor' = messages[c][lo].time /\ edges' = edges \cup {cursor'}
         /\ goal' = IF pc = "idle" THEN ToSet(messages[c]) ELSE goal
    BY <1>1, <1>5, <2>8, <2>9
  <2>11. lo <= k
    BY <2>6
  <2> QED
    BY <1>2, <2>1, <2>2, <2>3, <2>5, <2>10, <2>11
<1> QED
  BY <1>4, <1>5

-----------------------------------------------------------------------------
\* What a page holds: messages of one conversation in their order, each once,
\* and of those before before_ms no others than older ones are left out.
LEMMA PageHolds ==
  ASSUME StoreInv, NEW c \in DOMAIN messages, NEW n \in Nat, NEW before \in Nat \cup {NoCursor},
         NEW page \in Seq(Message), NEW k \in Nat, NEW lo \in Nat,
         PageFrom(page, c, n, before, k, lo), lo <= k
  PROVE  /\ Len(page) \in Nat /\ Len(page) # 0 /\ DOMAIN page = 1..Len(page)
         /\ \A i \in 1..Len(page) : /\ page[i] \in ToSet(messages[c]) /\ page[i] \in Message
                                    /\ page[i] \in All /\ page[i].conv = c
                                    /\ before # NoCursor => page[i].time < before
         /\ Ordered(page) /\ \A i, j \in 1..Len(page) : i # j => page[i].copy # page[j].copy
         /\ page[1] = messages[c][lo]
         /\ \A m \in ToSet(messages[c]) \ ToSet(page) :
              (before = NoCursor \/ m.time < before) => m.time <= page[1].time
<1> DEFINE s == messages[c]
<1>1. /\ Len(s) \in Nat /\ DOMAIN s = 1..Len(s)
      /\ \A i \in 1..Len(s) : s[i] \in Message /\ s[i].conv = c /\ s[i] \in All
  BY Conversation
<1>2. /\ Ordered(s) /\ \A i, j \in DOMAIN s : i # j => s[i] # s[j]
      /\ \A m, d \in All : m.copy = d.copy => m = d
  BY DEF StoreInv
<1>3. \A m \in Message : m.time \in Nat
  BY QueriesAssumption DEF Message
<1>4. /\ k \in 1..Len(s) /\ lo \in 1..k
      /\ \A p \in 1..Len(s) : p <= k <=> (before = NoCursor \/ s[p].time < before)
      /\ Len(page) = k + 1 - lo
      /\ \A i \in 1..(k + 1 - lo) : page[i] = s[lo + i - 1]
  BY <1>1 DEF PageFrom
<1>5. Len(page) \in Nat /\ Len(page) # 0 /\ DOMAIN page = 1..Len(page)
  <2>1. Len(page) \in Nat /\ DOMAIN page = 1..Len(page)
    BY LenProperties
  <2> QED
    BY <1>4, <2>1
<1> HIDE DEF s
<1>6. \A i \in 1..Len(page) : /\ lo + i - 1 \in 1..Len(s) /\ lo + i - 1 <= k
                              /\ lo + i - 1 \in DOMAIN s /\ page[i] = s[lo + i - 1]
  BY <1>1, <1>4
<1>7. \A i \in 1..Len(page) : /\ page[i] \in ToSet(s) /\ page[i] \in Message
                              /\ page[i] \in All /\ page[i].conv = c
                              /\ before # NoCursor => page[i].time < before
  BY <1>1, <1>4, <1>6 DEF ToSet
<1>8. ASSUME NEW i \in 1..Len(page), NEW j \in 1..Len(page), i < j
      PROVE  page[i].time <= page[j].time
  <2>1. lo + i - 1 < lo + j - 1
    BY <1>8
  <2> QED
    BY <1>2, <1>6, <2>1 DEF Ordered
<1>9. ASSUME NEW i \in 1..Len(page), NEW j \in 1..Len(page), i # j
      PROVE  page[i].copy # page[j].copy
  <2>1. lo + i - 1 # lo + j - 1
    BY <1>9
  <2>2. page[i] # page[j]
    BY <1>2, <1>6, <2>1
  <2> QED
    BY <1>2, <1>7, <2>2
<1>10. page[1] = s[lo] /\ lo \in DOMAIN s
  <2>1. 1 \in 1..Len(page) /\ lo + 1 - 1 = lo
    BY <1>5
  <2> QED
    BY <1>6, <2>1
<1>11. ASSUME NEW m \in ToSet(s) \ ToSet(page), before = NoCursor \/ m.time < before
       PROVE  m.time <= page[1].time
  <2>1. PICK p \in DOMAIN s : m = s[p]
    BY DEF ToSet
  <2>2. p <= k /\ p \in 1..Len(s)
    BY <1>1, <1>4, <1>11, <2>1
  <2>3. p < lo
    <3>1. SUFFICES ASSUME ~(p < lo) PROVE FALSE
      OBVIOUS
    <3>2. p - lo + 1 \in 1..Len(page) /\ lo + (p - lo + 1) - 1 = p
      BY <1>4, <2>2, <3>1
    <3>3. page[p - lo + 1] = m
      BY <1>6, <2>1, <3>2
    <3>4. m \in ToSet(page)
      BY <1>5, <3>2, <3>3 DEF ToSet
    <3> QED
      BY <3>4
  <2> QED
    BY <1>2, <1>10, <2>1, <2>3 DEF Ordered
<1>12. Ordered(page)
  BY <1>5, <1>8 DEF Ordered
<1> QED
  BY <1>5, <1>7, <1>9, <1>10, <1>11, <1>12 DEF s

\* One of a few topics' conversations is the only one.
LEMMA OnlyMatch ==
  ASSUME NEW arg \in Chats, NEW c \in Matches[arg], Cardinality(Matches[arg]) <= 1
  PROVE  Matches[arg] = {c}
<1>1. IsFiniteSet(Matches[arg])
  <2>1. Matches[arg] \subseteq Convs /\ IsFiniteSet(Convs)
    BY QueriesAssumption
  <2> QED
    BY <2>1, FS_Subset
<1>2. /\ IsFiniteSet(Matches[arg] \ {c})
      /\ Cardinality(Matches[arg] \ {c}) = Cardinality(Matches[arg]) - 1
  BY <1>1, FS_RemoveElement
<1>3. Cardinality(Matches[arg]) \in Nat /\ Cardinality(Matches[arg] \ {c}) \in Nat
  BY <1>1, <1>2, FS_CardinalityType
<1>4. Cardinality(Matches[arg] \ {c}) = 0
  BY <1>2, <1>3
<1>5. Matches[arg] \ {c} = {}
  BY <1>2, <1>4, FS_EmptySet
<1> QED
  BY <1>5

\* The messages are the same after a question.
LEMMA StoreUnchanged ==
  ASSUME StoreInv, messages' = messages
  PROVE  StoreInv' /\ All' = All
<1>1. All' = All
  BY DEF All
<1>2. IsFiniteSet(All') /\ (\A m \in All' : m.copy <= Cardinality(All'))
      /\ \A m, n \in All' : m.copy = n.copy => m = n
  BY <1>1 DEF StoreInv
<1>3. DOMAIN messages' \subseteq Convs
  BY DEF StoreInv
<1>4. ASSUME NEW c \in DOMAIN messages'
      PROVE  /\ messages'[c] \in Seq([copy : 1..MaxMessages, conv : {c}, time : 0..MaxTime])
             /\ messages'[c] # <<>> /\ Ordered(messages'[c])
             /\ \A i, j \in DOMAIN messages'[c] : i # j => messages'[c][i] # messages'[c][j]
  <2>1. c \in DOMAIN messages
    OBVIOUS
  <2>2. /\ messages[c] \in Seq([copy : 1..MaxMessages, conv : {c}, time : 0..MaxTime])
        /\ messages[c] # <<>> /\ Ordered(messages[c])
        /\ \A i, j \in DOMAIN messages[c] : i # j => messages[c][i] # messages[c][j]
    BY ONLY StoreInv, <2>1 DEF StoreInv
  <2> QED
    BY <2>2, Zenon
<1> QED
  BY <1>1, <1>2, <1>3, <1>4 DEF StoreInv

\* An empty page keeps the invariant.
LEMMA EmptyPageKeeps ==
  ASSUME QInv, UNCHANGED <<messages, chat, limit, cursor, got, goal, edges>>, pc' = "done",
         limit > 0 => \A c \in DOMAIN messages : Resolve(chat) = {c} =>
            \A p \in 1..Len(messages[c]) :
              ~(cursor = NoCursor \/ messages[c][p].time < cursor)
  PROVE  QInv'
<1>1. StoreInv' /\ All' = All
  BY StoreUnchanged DEF QInv
<1>2. ClientInv'
  BY <1>1 DEF QInv, ClientInv
<1>3. SteadyInv'
  <2>1. SUFFICES ASSUME Steady, got # <<>>
                 PROVE  /\ \E c \in Convs : Means(c)
                        /\ Ordered(got)
                        /\ \A i, j \in DOMAIN got : i # j => got[i].copy # got[j].copy
                        /\ limit > 0 => \A m \in goal \ ToSet(got) : Tie(m)
    BY DEF SteadyInv, Steady, Means, Ordered, Tie
  <2>2. /\ \E c \in Convs : Means(c)
        /\ Ordered(got)
        /\ \A i, j \in DOMAIN got : i # j => got[i].copy # got[j].copy
        /\ limit > 0 => \A m \in goal \ ToSet(got) : Tie(m) \/ (pc = "paging" /\ m.time < cursor)
    BY <2>1 DEF QInv, SteadyInv
  <2>3. ASSUME limit > 0, NEW m \in goal \ ToSet(got) PROVE ~(m.time < cursor)
    <3>1. PICK c \in Convs : Means(c)
      BY <2>2
    <3>2. c \in DOMAIN messages /\ m.conv = c /\ m \in All
      BY <3>1 DEF Means, QInv, ClientInv
    <3>3. Resolve(chat) = {c}
      BY <3>1, MeaningIsFound DEF QInv
    <3>4. m \in ToSet(messages[c]) /\ DOMAIN messages[c] = 1..Len(messages[c])
      BY <3>2, Conversation DEF QInv
    <3>5. PICK p \in 1..Len(messages[c]) : m = messages[c][p]
      BY <3>4 DEF ToSet
    <3> QED
      BY <2>3, <3>2, <3>3, <3>5
  <2> QED
    BY <2>2, <2>3
<1> QED
  BY <1>1, <1>2, <1>3 DEF QInv

\* A page put before the others.
LEMMA PagesJoined ==
  ASSUME NEW page \in Seq(Message), NEW rest \in Seq(Message), Len(page) # 0
  PROVE  /\ page \o rest \in Seq(Message) /\ page \o rest # <<>>
         /\ DOMAIN (page \o rest) = 1..(Len(page) + Len(rest))
         /\ (page \o rest)[1] = page[1]
         /\ \A i \in 1..(Len(page) + Len(rest)) :
              \/ i \in 1..Len(page) /\ (page \o rest)[i] = page[i]
              \/ /\ Len(page) < i /\ i - Len(page) \in 1..Len(rest)
                 /\ (page \o rest)[i] = rest[i - Len(page)]
         /\ ToSet(page \o rest) = ToSet(page) \cup ToSet(rest)
<1>1. Len(page) \in Nat /\ Len(rest) \in Nat
  BY LenProperties
<1>2. /\ page \o rest \in Seq(Message) /\ Len(page \o rest) = Len(page) + Len(rest)
      /\ \A i \in 1..(Len(page) + Len(rest)) :
           (page \o rest)[i] = IF i <= Len(page) THEN page[i] ELSE rest[i - Len(page)]
  BY ConcatProperties
<1>3. DOMAIN (page \o rest) = 1..(Len(page) + Len(rest))
  BY <1>2, LenProperties
<1>4. page \o rest # <<>>
  BY <1>1, <1>2, EmptySeq
<1>5. (page \o rest)[1] = page[1]
  <2>1. 1 \in 1..(Len(page) + Len(rest)) /\ 1 <= Len(page)
    BY <1>1
  <2> QED
    BY <1>2, <2>1
<1>6. \A i \in 1..(Len(page) + Len(rest)) :
         \/ i \in 1..Len(page) /\ (page \o rest)[i] = page[i]
         \/ /\ Len(page) < i /\ i - Len(page) \in 1..Len(rest)
            /\ (page \o rest)[i] = rest[i - Len(page)]
  BY <1>1, <1>2
<1>7. ToSet(page \o rest) = ToSet(page) \cup ToSet(rest)
  <2>1. Range(page \o rest) = Range(page) \cup Range(rest)
    BY RangeConcatenation
  <2> QED
    BY <2>1 DEF ToSet, Range
<1> QED
  BY <1>2, <1>3, <1>4, <1>5, <1>6, <1>7

\* A page that is not empty keeps the invariant.
LEMMA FullPageKeeps ==
  ASSUME QInv, UNCHANGED <<messages, chat, limit>>, pc # "done",
         NEW page \in Seq(Message), NEW c \in DOMAIN messages, NEW k \in Nat, NEW lo \in Nat,
         c \in Resolve(chat), PageFrom(page, c, limit, cursor, k, lo), lo <= k,
         pc' = "paging", got' = page \o got,
         cursor' = messages[c][lo].time, edges' = edges \cup {cursor'},
         goal' = IF pc = "idle" THEN ToSet(messages[c]) ELSE goal
  PROVE  QInv'
<1>1. StoreInv /\ StoreInv' /\ All' = All
  BY StoreUnchanged DEF QInv
<1>2. \A m \in Message : m.time \in 0..MaxTime /\ m.time \in Nat
  BY QueriesAssumption DEF Message
<1>3. /\ pc \in {"idle", "paging"} /\ chat \in Chats /\ limit \in Limits /\ limit \in Nat
      /\ got \in Seq(Message) /\ ToSet(got) \subseteq All /\ goal \subseteq All
      /\ edges \subseteq 0..MaxTime
      /\ pc = "idle" <=> got = <<>>
      /\ got = <<>> => cursor = NoCursor /\ goal = {}
      /\ got # <<>> => cursor = got[1].time /\ cursor \in edges
  BY QueriesAssumption DEF QInv, ClientInv
<1>4. /\ Len(got) \in Nat /\ DOMAIN got = 1..Len(got) /\ (got # <<>> => 1 \in 1..Len(got))
      /\ \A i \in 1..Len(got) : got[i] \in Message
  <2>1. Len(got) \in Nat /\ DOMAIN got = 1..Len(got) /\ (got # <<>> => Len(got) # 0)
    BY <1>3, LenProperties, EmptySeq
  <2>2. \A i \in 1..Len(got) : got[i] \in Message
    BY <1>3, ElementOfSeq
  <2> QED
    BY <2>1, <2>2
<1>5. cursor \in Nat \cup {NoCursor} /\ (got # <<>> => cursor \in Nat /\ cursor # NoCursor)
  BY <1>2, <1>3, <1>4, QueriesAssumption
<1>6. /\ Len(page) \in Nat /\ Len(page) # 0 /\ DOMAIN page = 1..Len(page)
      /\ \A i \in 1..Len(page) : /\ page[i] \in ToSet(messages[c]) /\ page[i] \in Message
                                 /\ page[i] \in All /\ page[i].conv = c
                                 /\ cursor # NoCursor => page[i].time < cursor
      /\ Ordered(page) /\ \A i, j \in 1..Len(page) : i # j => page[i].copy # page[j].copy
      /\ page[1] = messages[c][lo]
      /\ \A m \in ToSet(messages[c]) \ ToSet(page) :
           (cursor = NoCursor \/ m.time < cursor) => m.time <= page[1].time
  BY <1>1, <1>3, <1>5, PageHolds
<1>7. /\ got' \in Seq(Message) /\ got' # <<>> /\ DOMAIN got' = 1..(Len(page) + Len(got))
      /\ got'[1] = page[1] /\ ToSet(got') = ToSet(page) \cup ToSet(got)
      /\ \A i \in 1..(Len(page) + Len(got)) :
           \/ i \in 1..Len(page) /\ got'[i] = page[i]
           \/ Len(page) < i /\ i - Len(page) \in 1..Len(got) /\ got'[i] = got[i - Len(page)]
  BY <1>3, <1>6, PagesJoined
<1>8. 1 \in 1..Len(page) /\ cursor' = page[1].time /\ cursor' \in 0..MaxTime
  BY <1>2, <1>6
<1>9. c \in Convs /\ ToSet(messages[c]) \subseteq All /\ \A m \in ToSet(messages[c]) : m.conv = c
  BY <1>1, Conversation DEF ToSet
<1>10. ClientInv'
  <2>1. ToSet(page) \subseteq All
    BY <1>6 DEF ToSet
  <2>2. goal' \subseteq All
    BY <1>3, <1>9
  <2>3. ToSet(got)' \subseteq All'
    BY <1>1, <1>3, <1>7, <2>1
  <2>4. edges' \subseteq 0..MaxTime /\ cursor' \in edges'
    BY <1>3, <1>8
  <2> QED
    BY <1>1, <1>3, <1>7, <1>8, <2>2, <2>3, <2>4 DEF ClientInv
<1>11. SteadyInv'
  <2>1. SUFFICES ASSUME Steady' PROVE SteadyInv'
    BY DEF SteadyInv
  <2>2. got # <<>> =>
          /\ Means(c) /\ Ordered(got)
          /\ \A i, j \in DOMAIN got : i # j => got[i].copy # got[j].copy
          /\ limit > 0 => \A m \in goal \ ToSet(got) : Tie(m) \/ m.time < cursor
    <3>1. SUFFICES ASSUME got # <<>>
                   PROVE  /\ Means(c) /\ Ordered(got)
                          /\ \A i, j \in DOMAIN got : i # j => got[i].copy # got[j].copy
                          /\ limit > 0 => \A m \in goal \ ToSet(got) : Tie(m) \/ m.time < cursor
      OBVIOUS
    <3>2. Steady
      BY <1>3, <2>1, <3>1 DEF Steady
    <3>3. /\ \E d \in Convs : Means(d)
          /\ Ordered(got)
          /\ \A i, j \in DOMAIN got : i # j => got[i].copy # got[j].copy
          /\ limit > 0 => \A m \in goal \ ToSet(got) : Tie(m) \/ m.time < cursor
      BY <3>1, <3>2 DEF QInv, SteadyInv
    <3>4. PICK d \in Convs : Means(d)
      BY <3>3
    <3>5. d = c
      BY <1>1, <3>4, MeaningIsFound
    <3> QED
      BY <3>3, <3>4, <3>5
  <2>3. Means(c)'
    <3>1. chat = c \/ (chat \notin Convs /\ Matches[chat] = {c})
      <4>1. CASE got # <<>>
        BY <2>2, <4>1 DEF Means
      <4>2. CASE got = <<>>
        <5>1. goal' = ToSet(messages[c])
          BY <1>3, <4>2
        <5>2. chat = c \/ (chat \notin Convs /\ Cardinality(Matches[chat]) <= 1)
          BY <1>9, <2>1, <5>1 DEF Steady
        <5>3. chat = c \/ c \in Matches[chat]
          BY ResolveFinds
        <5> QED
          BY <1>3, <5>2, <5>3, OnlyMatch
      <4> QED
        BY <4>1, <4>2
    <3>2. \A m \in goal' : m.conv = c
      BY <1>3, <1>9, <2>2 DEF Means
    <3>3. \A i \in DOMAIN got' : got'[i].conv = c
      <4>1. got # <<>> => \A i \in 1..Len(got) : got[i].conv = c
        BY <1>4, <2>2 DEF Means
      <4>2. \A i \in 1..Len(got) : got # <<>>
        BY <1>4, EmptySeq
      <4> QED
        BY <1>6, <1>7, <4>1, <4>2
    <3> QED
      BY <3>1, <3>2, <3>3 DEF Means
  <2>4. \A i \in 1..Len(page), j \in 1..Len(got) :
          page[i].time < got[j].time /\ page[i] # got[j]
    <3>1. SUFFICES ASSUME NEW i \in 1..Len(page), NEW j \in 1..Len(got)
                   PROVE  page[i].time < got[j].time /\ page[i].time # got[j].time
      OBVIOUS
    <3>2. got # <<>>
      BY <1>4, EmptySeq
    <3>3. page[i].time < got[1].time
      BY <1>3, <1>5, <1>6, <3>2
    <3>4. got[1].time <= got[j].time
      <4>1. j = 1 \/ 1 < j
        BY <1>4
      <4>2. got[1].time \in Nat
        BY <1>2, <1>4, <3>2
      <4>3. 1 < j => got[1].time <= got[j].time
        <5>1. 1 \in DOMAIN got /\ j \in DOMAIN got
          BY <1>4, <3>2
        <5>2. Ordered(got)
          BY <2>2, <3>2
        <5> QED
          BY <5>1, <5>2 DEF Ordered
      <4> QED
        BY <4>1, <4>2, <4>3
    <3>5. page[i].time \in Nat /\ got[1].time \in Nat /\ got[j].time \in Nat
      BY <1>2, <1>4, <1>6, <3>2
    <3>6. \A a, b, d \in Nat : a < b /\ b <= d => a < d /\ a # d
      OBVIOUS
    <3>7. page[i].time < got[j].time /\ page[i].time # got[j].time
      BY <3>3, <3>4, <3>5, <3>6
    <3> QED
      BY <3>7
  <2>5. Ordered(got')
    <3>1. SUFFICES ASSUME NEW i \in 1..(Len(page) + Len(got)),
                          NEW j \in 1..(Len(page) + Len(got)), i < j
                   PROVE  got'[i].time <= got'[j].time
      <4>1. DOMAIN got' = 1..(Len(page) + Len(got))
        BY <1>7
      <4> QED
        BY <4>1 DEF Ordered
    <3>2. CASE i \in 1..Len(page) /\ j \in 1..Len(page)
      <4>1. got'[i] = page[i] /\ got'[j] = page[j]
        BY <1>7, <3>1, <3>2
      <4>2. page[i].time <= page[j].time
        BY <1>6, <3>1, <3>2 DEF Ordered
      <4> QED
        BY <4>1, <4>2
    <3>3. CASE i \in 1..Len(page) /\ ~(j \in 1..Len(page))
      <4>1. got'[i] = page[i] /\ j - Len(page) \in 1..Len(got) /\ got'[j] = got[j - Len(page)]
        BY <1>6, <1>7, <3>3
      <4>2. page[i].time < got[j - Len(page)].time
        BY <2>4, <3>3, <4>1
      <4>3. page[i].time \in Nat /\ got[j - Len(page)].time \in Nat
        BY <1>2, <1>4, <1>6, <3>3, <4>1
      <4>4. got'[i].time < got'[j].time /\ got'[i].time \in Nat /\ got'[j].time \in Nat
        BY <4>1, <4>2, <4>3, Zenon
      <4>5. \A a, b \in Nat : a < b => a <= b
        OBVIOUS
      <4> QED
        BY <4>4, <4>5, Zenon
    <3>4. CASE ~(i \in 1..Len(page))
      <4>1. /\ got'[i] = got[i - Len(page)] /\ i - Len(page) \in 1..Len(got)
            /\ got'[j] = got[j - Len(page)] /\ j - Len(page) \in 1..Len(got)
            /\ i - Len(page) < j - Len(page)
        BY <1>4, <1>6, <1>7, <3>1, <3>4
      <4>2. got # <<>>
        BY <1>4, <4>1, EmptySeq
      <4> QED
        BY <1>4, <2>2, <4>1, <4>2 DEF Ordered
    <3> QED
      BY <3>2, <3>3, <3>4
  <2>6. \A i, j \in DOMAIN got' : i # j => got'[i].copy # got'[j].copy
    <3>1. \A m, d \in All : m.copy = d.copy => m = d
      BY <1>1 DEF StoreInv
    <3>2. \A i \in 1..Len(page), j \in 1..Len(got) : page[i].copy # got[j].copy
      <4>1. \A j \in 1..Len(got) : got[j] \in All
        BY <1>3, <1>4 DEF ToSet
      <4> QED
        BY <1>6, <2>4, <3>1, <4>1
    <3>3. ASSUME NEW i \in 1..(Len(page) + Len(got)),
                 NEW j \in 1..(Len(page) + Len(got)), i # j
          PROVE  got'[i].copy # got'[j].copy
      <4>1. CASE i \in 1..Len(page) /\ j \in 1..Len(page)
        BY <1>6, <1>7, <3>3, <4>1
      <4>2. CASE i \in 1..Len(page) /\ ~(j \in 1..Len(page))
        BY <1>6, <1>7, <3>2, <4>2
      <4>3. CASE ~(i \in 1..Len(page)) /\ j \in 1..Len(page)
        BY <1>6, <1>7, <3>2, <4>3
      <4>4. CASE ~(i \in 1..Len(page)) /\ ~(j \in 1..Len(page))
        <5>1. /\ got'[i] = got[i - Len(page)] /\ i - Len(page) \in 1..Len(got)
              /\ got'[j] = got[j - Len(page)] /\ j - Len(page) \in 1..Len(got)
              /\ i - Len(page) # j - Len(page)
          BY <1>4, <1>6, <1>7, <3>3, <4>4
        <5>2. got # <<>>
          BY <1>4, <5>1, EmptySeq
        <5> QED
          BY <1>4, <2>2, <5>1, <5>2
      <4> QED
        BY <4>1, <4>2, <4>3, <4>4
    <3> QED
      BY <1>7, <3>3
  <2>7. ASSUME limit > 0, NEW m \in goal' \ ToSet(got')
        PROVE  Tie(m)' \/ m.time < cursor'
    <3>1. m \notin ToSet(page) /\ m \notin ToSet(got)
      BY <1>7, <2>7
    <3>2. CASE m \in ToSet(messages[c]) /\ (cursor = NoCursor \/ m.time < cursor)
      <4>1. m.time <= page[1].time
        BY <1>6, <3>1, <3>2
      <4>2. m.time \in Nat /\ cursor' \in Nat
        <5>1. PICK i \in DOMAIN messages[c] : m = messages[c][i]
          BY <3>2 DEF ToSet
        <5>2. m \in Message
          BY <1>1, <5>1, Conversation
        <5> QED
          BY <1>2, <1>6, <1>8, <5>2
      <4>3. CASE m.time = cursor'
        <5>1. 1 \in DOMAIN got' /\ got'[1].time = m.time
          BY <1>4, <1>6, <1>7, <1>8, <4>3
        <5> QED
          BY <4>3, <5>1 DEF Tie
      <4>4. CASE m.time # cursor'
        BY <1>8, <4>1, <4>2, <4>4
      <4> QED
        BY <4>3, <4>4
    <3>3. CASE got = <<>>
      BY <1>3, <3>2, <3>3
    <3>4. CASE got # <<>>
      <4>1. Tie(m) \/ m.time < cursor
        BY <1>3, <2>2, <2>7, <3>1, <3>4
      <4>2. CASE Tie(m)
        <5>1. PICK i \in DOMAIN got : got[i].time = m.time
          BY <4>2 DEF Tie
        <5>2. m.time \in edges'
          BY <4>2 DEF Tie
        <5>3. got[i] \in ToSet(got')
          BY <1>7, <5>1 DEF ToSet
        <5>4. PICK j \in DOMAIN got' : got'[j] = got[i]
          BY <5>3 DEF ToSet
        <5> QED
          BY <5>1, <5>2, <5>4 DEF Tie
      <4>3. CASE m.time < cursor
        <5>1. m \in All /\ m.conv = c
          BY <1>3, <2>2, <2>7, <3>4 DEF Means
        <5>2. m \in ToSet(messages[c])
          BY <1>1, <5>1, Conversation
        <5> QED
          BY <3>2, <4>3, <5>2
      <4> QED
        BY <4>1, <4>2, <4>3
    <3> QED
      BY <3>3, <3>4
  <2> QED
    BY <1>9, <2>3, <2>5, <2>6, <2>7 DEF SteadyInv, Ordered
<1> QED
  BY <1>1, <1>10, <1>11 DEF QInv

-----------------------------------------------------------------------------
\* What the cache holds after one more message, in an order a sort by time
\* may give.
LEMMA ArriveEffect ==
  ASSUME StoreInv, NEW c \in Convs, NEW time \in 0..MaxTime, Arrive(c, time)
  PROVE  \E m \in Message :
           /\ m.copy = Cardinality(All) + 1 /\ m.conv = c
           /\ DOMAIN messages' = DOMAIN messages \cup {c}
           /\ \A d \in DOMAIN messages' : messages'[d] \in Sorted({x \in All \cup {m} : x.conv = d})
           /\ UNCHANGED <<pc, chat, limit, cursor, got, goal, edges>>
<1> DEFINE m == [copy |-> Cardinality(All) + 1, conv |-> c, time |-> time]
           now == All \cup {m}
           held(d) == {x \in now : x.conv = d}
<1>1. Cardinality(All) \in Nat /\ Cardinality(All) < MaxMessages
  BY FS_CardinalityType DEF StoreInv, Arrive
<1>2. m \in Message /\ m.copy = Cardinality(All) + 1 /\ m.conv = c
  BY <1>1, QueriesAssumption DEF Message
<1>3. messages' \in {f \in [{x.conv : x \in now} -> UNION {Sorted(held(d)) : d \in Convs}] :
                       \A d \in DOMAIN f : f[d] \in Sorted(held(d))}
  BY DEF Arrive
<1>4. UNCHANGED <<pc, chat, limit, cursor, got, goal, edges>>
  BY DEF Arrive
<1>5. {x.conv : x \in now} = DOMAIN messages \cup {c}
  <2>1. ASSUME NEW x \in All PROVE x.conv \in DOMAIN messages
    <3>1. PICK d \in DOMAIN messages : x \in ToSet(messages[d])
      BY DEF All
    <3>2. PICK i \in DOMAIN messages[d] : x = messages[d][i]
      BY <3>1 DEF ToSet
    <3> QED
      BY <3>1, <3>2, Conversation
  <2>2. ASSUME NEW d \in DOMAIN messages PROVE \E x \in All : x.conv = d
    <3>1. Len(messages[d]) \in Nat /\ Len(messages[d]) # 0
      BY Conversation
    <3>2. 1 \in 1..Len(messages[d])
      BY <3>1
    <3> QED
      BY <3>2, Conversation
  <2> QED
    BY <1>2, <2>1, <2>2
<1>6. /\ DOMAIN messages' = DOMAIN messages \cup {c}
      /\ \A d \in DOMAIN messages' : messages'[d] \in Sorted(held(d))
  BY <1>3, <1>5
<1> QED
  BY <1>2, <1>4, <1>6

\* A message that arrives keeps the invariant.
LEMMA ArriveKeeps ==
  ASSUME QInv, NEW c \in Convs, NEW time \in 0..MaxTime, Arrive(c, time)
  PROVE  QInv'
<1>1. PICK m \in Message :
        /\ m.copy = Cardinality(All) + 1 /\ m.conv = c
        /\ DOMAIN messages' = DOMAIN messages \cup {c}
        /\ \A d \in DOMAIN messages' : messages'[d] \in Sorted({x \in All \cup {m} : x.conv = d})
        /\ UNCHANGED <<pc, chat, limit, cursor, got, goal, edges>>
  BY ArriveEffect DEF QInv
<1> DEFINE held(d) == {x \in All \cup {m} : x.conv = d}
           Own(d) == [copy : 1..MaxMessages, conv : {d}, time : 0..MaxTime]
<1>2. /\ DOMAIN messages \subseteq Convs /\ IsFiniteSet(All) /\ Cardinality(All) \in Nat
      /\ \A x \in All : x.copy <= Cardinality(All)
      /\ \A x, y \in All : x.copy = y.copy => x = y
  BY FS_CardinalityType DEF QInv, StoreInv
<1>3. ASSUME NEW x \in All PROVE x \in Message /\ x.conv \in DOMAIN messages
  <2>1. PICK d \in DOMAIN messages : x \in ToSet(messages[d])
    BY DEF All
  <2>2. PICK i \in DOMAIN messages[d] : x = messages[d][i]
    BY <2>1 DEF ToSet
  <2> QED
    BY <2>2, Conversation DEF QInv
<1>4. \A x \in Message : x.copy \in Nat /\ x \in Own(x.conv)
  BY QueriesAssumption DEF Message
<1>5. m \notin All /\ \A x \in All : x.copy # m.copy
  BY <1>1, <1>2, <1>3, <1>4
<1>6. /\ IsFiniteSet(All \cup {m}) /\ Cardinality(All \cup {m}) = Cardinality(All) + 1
  BY <1>2, <1>5, FS_AddElement
<1>7. ASSUME NEW d \in DOMAIN messages'
      PROVE  /\ messages'[d] \in Seq(Own(d)) /\ messages'[d] # <<>> /\ Ordered(messages'[d])
             /\ \A i, j \in DOMAIN messages'[d] : i # j => messages'[d][i] # messages'[d][j]
             /\ ToSet(messages'[d]) = held(d)
  <2>1. IsFiniteSet(held(d))
    BY <1>6, FS_Subset
  <2>2. messages'[d] \in SetToSeqs(held(d)) /\ Ordered(messages'[d])
    BY <1>1 DEF Sorted, Ordered
  <2>3. held(d) # {}
    <3>1. CASE d = c
      BY <1>1, <3>1
    <3>2. CASE d # c
      <4>1. d \in DOMAIN messages
        BY <1>1, <3>2
      <4>2. 1 \in 1..Len(messages[d])
        <5>1. Len(messages[d]) \in Nat /\ Len(messages[d]) # 0
          BY <4>1, Conversation DEF QInv
        <5> QED
          BY <5>1
      <4>3. messages[d][1] \in All /\ messages[d][1].conv = d
        BY <4>1, <4>2, Conversation DEF QInv
      <4> QED
        BY <4>3
    <3> QED
      BY <3>1, <3>2
  <2>4. held(d) \subseteq Own(d)
    BY <1>3, <1>4
  <2> HIDE DEF held, Own
  <2>5. /\ messages'[d] \in Seq(held(d)) /\ Len(messages'[d]) = Cardinality(held(d))
        /\ Cardinality(held(d)) \in Nat /\ DOMAIN messages'[d] = 1..Cardinality(held(d))
        /\ ToSet(messages'[d]) = held(d)
        /\ \A i, j \in DOMAIN messages'[d] : i # j => messages'[d][i] # messages'[d][j]
    BY <2>1, <2>2, SetSequence
  <2>6. messages'[d] # <<>>
    <3>1. Cardinality(held(d)) # 0
      BY <2>1, <2>3, FS_EmptySet
    <3> QED
      BY <2>5, <3>1, EmptySeq
  <2>7. messages'[d] \in Seq(Own(d))
    <3>1. messages'[d] \in [1..Cardinality(held(d)) -> held(d)]
      BY <2>5, LenProperties
    <3>2. messages'[d] \in [1..Cardinality(held(d)) -> Own(d)]
      BY <2>4, <3>1
    <3> QED
      BY <2>5, <3>2, SeqDef
  <2> QED
    BY <2>2, <2>5, <2>6, <2>7
<1>8. All' = All \cup {m}
  <2>1. \A x \in All \cup {m} : x.conv \in DOMAIN messages'
    BY <1>1, <1>3
  <2>2. UNION {ToSet(messages'[d]) : d \in DOMAIN messages'} = All \cup {m}
    <3>1. \A d \in DOMAIN messages' : ToSet(messages'[d]) = held(d)
      BY <1>7
    <3> QED
      BY <2>1, <3>1
  <2> QED
    BY <2>2 DEF All
<1> HIDE DEF held
<1>9. StoreInv'
  <2>1. DOMAIN messages' \subseteq Convs
    BY <1>1, <1>2
  <2>2. \A x \in All' : x.copy <= Cardinality(All')
    BY <1>1, <1>2, <1>3, <1>4, <1>6, <1>8
  <2>3. \A x, y \in All' : x.copy = y.copy => x = y
    BY <1>2, <1>5, <1>8
  <2> QED
    BY <1>6, <1>7, <1>8, <2>1, <2>2, <2>3 DEF StoreInv, Ordered
<1>10. ClientInv'
  BY <1>1, <1>8 DEF QInv, ClientInv
<1>11. SteadyInv'
  BY <1>1 DEF QInv, SteadyInv, Steady, Means, Ordered, Tie
<1> QED
  BY <1>9, <1>10, <1>11 DEF QInv

-----------------------------------------------------------------------------
LEMMA InitInv == Init => QInv
<1> SUFFICES ASSUME Init PROVE QInv
  OBVIOUS
<1>1. DOMAIN messages = {} /\ All = {}
  BY DEF Init, All
<1>2. StoreInv
  BY <1>1, FS_EmptySet DEF StoreInv
<1>3. got = <<>> /\ got \in Seq(Message) /\ ToSet(got) = {}
  BY NoElements DEF Init
<1>4. ClientInv
  BY <1>1, <1>3 DEF ClientInv, Init
<1>5. SteadyInv
  BY <1>3 DEF SteadyInv
<1> QED
  BY <1>2, <1>4, <1>5 DEF QInv

\* The inductive invariant of the cache and the client.
THEOREM Invariance == Spec => []QInv
<1>1. QInv /\ [Next]_vars => QInv'
  <2> SUFFICES ASSUME QInv, [Next]_vars PROVE QInv'
    OBVIOUS
  <2>1. ASSUME NEW c \in Convs, NEW time \in 0..MaxTime, Arrive(c, time) PROVE QInv'
    BY <2>1, ArriveKeeps
  <2>2. CASE Page
    <3>1. StoreInv /\ ClientInv /\ pc # "done"
      BY <2>2 DEF QInv, Page
    <3>2. UNCHANGED <<messages, chat, limit>>
      BY <2>2 DEF Page
    <3>3. CASE /\ pc' = "done" /\ UNCHANGED <<cursor, got, goal, edges>>
               /\ limit > 0 => \A c \in DOMAIN messages : Resolve(chat) = {c} =>
                    \A p \in 1..Len(messages[c]) :
                      ~(cursor = NoCursor \/ messages[c][p].time < cursor)
      BY <3>2, <3>3, EmptyPageKeeps
    <3>4. CASE \E page \in Seq(Message), c \in DOMAIN messages, k \in Nat, lo \in Nat :
                 /\ c \in Resolve(chat) /\ PageFrom(page, c, limit, cursor, k, lo) /\ lo <= k
                 /\ pc' = "paging" /\ got' = page \o got
                 /\ cursor' = messages[c][lo].time /\ edges' = edges \cup {cursor'}
                 /\ goal' = IF pc = "idle" THEN ToSet(messages[c]) ELSE goal
      BY <3>1, <3>2, <3>4, FullPageKeeps
    <3> QED
      BY <2>2, <3>1, <3>3, <3>4, PageEffect
  <2>3. CASE Done \/ UNCHANGED vars
    <3>1. UNCHANGED vars
      BY <2>3 DEF Done
    <3>2. UNCHANGED <<messages, pc, chat, limit, cursor, got, goal, edges>>
      BY <3>1 DEF vars
    <3>3. StoreInv' /\ All' = All
      BY <3>2, StoreUnchanged DEF QInv
    <3>4. ClientInv'
      BY <3>2, <3>3 DEF QInv, ClientInv
    <3>5. SteadyInv'
      BY <3>2 DEF QInv, SteadyInv, Steady, Means, Ordered, Tie
    <3> QED
      BY <3>3, <3>4, <3>5 DEF QInv
  <2> QED
    BY <2>1, <2>2, <2>3 DEF Next
<1> QED
  BY InitInv, <1>1, PTL DEF Spec

\* The state has its type in every state: list_chats, read_messages and the
\* client work on conversations that are in time order and not empty.
THEOREM QueriesType == Spec => []TypeOK
<1>1. QInv => TypeOK
  <2> SUFFICES ASSUME QInv PROVE TypeOK
    OBVIOUS
  <2>1. edges \subseteq 0..MaxTime /\ cursor \in (0..MaxTime) \cup {NoCursor}
    BY DEF QInv, ClientInv
  <2> QED
    BY <2>1 DEF TypeOK, QInv, StoreInv, ClientInv, Ordered
<1> QED
  BY Invariance, <1>1, PTL

\* The pages of a steady client never overlap, are in time order and come from
\* one conversation, whatever arrives between two of them.  That two pages never
\* share an entry rests on before_ms and the sort, not on the messages: of one with
\* two versions in the cache, read_messages returns both.
THEOREM SteadyPagesJoinUp == Spec => []PagesJoinUp
<1>1. QInv => PagesJoinUp
  <2> SUFFICES ASSUME QInv, Steady, NEW i \in DOMAIN got, NEW j \in DOMAIN got, i < j
               PROVE  /\ got[i].copy # got[j].copy /\ got[i].time <= got[j].time
                      /\ got[i].conv = got[j].conv
    BY DEF PagesJoinUp
  <2>1. DOMAIN got = 1..Len(got) /\ Len(got) \in Nat
    BY LenProperties DEF QInv, ClientInv
  <2>2. got # <<>> /\ i # j
    BY <2>1, EmptySeq
  <2>3. /\ \E c \in Convs : Means(c)
        /\ Ordered(got)
        /\ \A p, q \in DOMAIN got : p # q => got[p].copy # got[q].copy
    BY <2>2 DEF QInv, SteadyInv
  <2> QED
    BY <2>2, <2>3 DEF Means, Ordered
<1> QED
  BY Invariance, <1>1, PTL

\* A steady client that pages until a page is empty has missed nothing the chat
\* held at the start, except messages with the time of some page's first one.
THEOREM MissesOnlyTies == Spec => []PagingMissesOnlyTies
<1>1. QInv => PagingMissesOnlyTies
  <2> SUFFICES ASSUME QInv, pc = "done", limit > 0, Steady, NEW m \in goal \ ToSet(got)
               PROVE  m.time \in edges /\
                      \E i \in DOMAIN got : got[i].time = m.time /\ got[i].conv = m.conv
    BY DEF PagingMissesOnlyTies
  <2>1. got # <<>>
    BY DEF QInv, ClientInv
  <2>2. (\E c \in Convs : Means(c)) /\ Tie(m)
    BY <2>1 DEF QInv, SteadyInv
  <2> QED
    BY <2>2 DEF Means, Tie
<1> QED
  BY Invariance, <1>1, PTL

-----------------------------------------------------------------------------
\* The last message of a conversation is one of it, and none of it is newer.
LEMMA LastOfConversation ==
  ASSUME StoreInv, NEW c \in DOMAIN messages
  PROVE  /\ LastTime(c) \in Nat /\ Last(messages[c]) = messages[c][Len(messages[c])]
         /\ LastTime(c) = messages[c][Len(messages[c])].time
         /\ Len(messages[c]) \in 1..Len(messages[c])
         /\ \A i \in 1..Len(messages[c]) : messages[c][i].time <= LastTime(c)
<1> DEFINE s == messages[c]
<1>1. /\ Len(s) \in Nat /\ Len(s) # 0 /\ DOMAIN s = 1..Len(s)
      /\ \A i \in 1..Len(s) : s[i] \in Message
  BY Conversation
<1>2. \A m \in Message : m.time \in Nat
  BY QueriesAssumption DEF Message
<1>3. \A i, j \in DOMAIN s : i < j => s[i].time <= s[j].time
  BY DEF StoreInv, Ordered
<1>4. LastTime(c) = s[Len(s)].time /\ Last(s) = s[Len(s)]
  BY DEF LastTime, Last
<1>5. Len(s) \in 1..Len(s)
  BY <1>1
<1>6. ASSUME NEW i \in 1..Len(s) PROVE s[i].time <= s[Len(s)].time
  <2>1. s[i].time \in Nat
    BY <1>1, <1>2
  <2>2. i < Len(s) \/ i = Len(s)
    <3>1. \A n \in Nat : \A k \in 1..n : k < n \/ k = n
      OBVIOUS
    <3> QED
      BY <1>1, <3>1
  <2>3. i \in DOMAIN s /\ Len(s) \in DOMAIN s
    BY <1>1, <1>5
  <2> QED
    BY <1>3, <2>1, <2>2, <2>3
<1>7. s[Len(s)].time \in Nat
  BY <1>1, <1>2, <1>5
<1> QED
  BY <1>4, <1>5, <1>6, <1>7

\* An argument that is a part of topics means, whatever the order of equal
\* chats, one that list_chats may put before all others with such a topic.
THEOREM TopicIsTopOfList == Spec => []TopicMeansTopOfList
<1>1. QInv => TopicMeansTopOfList
  <2> SUFFICES ASSUME QInv, chat \notin DOMAIN messages, NEW c \in Resolve(chat)
               PROVE  \E l \in ListChats : \E i \in DOMAIN l :
                         l[i] = c /\ \A j \in 1..(i - 1) : l[j] \notin Matches[chat]
    BY DEF TopicMeansTopOfList
  <2>1. /\ StoreInv /\ IsFiniteSet(DOMAIN messages)
        /\ \A d \in DOMAIN messages : LastTime(d) \in Nat
    <3>1. DOMAIN messages \subseteq Convs /\ IsFiniteSet(Convs)
      BY QueriesAssumption DEF QInv, StoreInv
    <3>2. IsFiniteSet(DOMAIN messages)
      BY <3>1, FS_Subset
    <3> QED
      BY <3>2, LastOfConversation DEF QInv
  <2>2. /\ c \in DOMAIN messages
        /\ \A d \in Matches[chat] \cap DOMAIN messages : LastTime(d) <= LastTime(c)
    BY DEF Resolve, Newest
  <2> DEFINE key == [d \in DOMAIN messages |-> 2 * LastTime(d) + (IF d = c THEN 1 ELSE 0)]
  <2>3. key \in [DOMAIN messages -> Nat]
    BY <2>1
  <2>4. PICK l \in SetToSeqs(DOMAIN messages) :
           \A i, j \in DOMAIN l : i < j => key[l[i]] >= key[l[j]]
    <3> HIDE DEF key
    <3> QED
      BY <2>1, <2>3, SortExists
  <2>5. /\ DOMAIN l = 1..Cardinality(DOMAIN messages) /\ Cardinality(DOMAIN messages) \in Nat
        /\ ToSet(l) = DOMAIN messages
        /\ \A i, j \in DOMAIN l : i # j => l[i] # l[j]
    BY <2>1, SetSequence
  <2>6. \A i \in DOMAIN l : l[i] \in DOMAIN messages
    BY <2>5 DEF ToSet
  <2>7. PICK i \in DOMAIN l : l[i] = c
    BY <2>2, <2>5 DEF ToSet
  <2>8. ASSUME NEW p \in DOMAIN l, NEW q \in DOMAIN l, p < q
        PROVE  LastTime(l[p]) >= LastTime(l[q])
    <3>1. key[l[p]] >= key[l[q]]
      BY <2>4, <2>8
    <3>2. /\ key[l[p]] = 2 * LastTime(l[p]) + (IF l[p] = c THEN 1 ELSE 0)
          /\ key[l[q]] = 2 * LastTime(l[q]) + (IF l[q] = c THEN 1 ELSE 0)
          /\ LastTime(l[p]) \in Nat /\ LastTime(l[q]) \in Nat
      BY <2>1, <2>6
    <3> QED
      BY <3>1, <3>2
  <2>9. ASSUME NEW j \in 1..(i - 1) PROVE l[j] \notin Matches[chat]
    <3>1. j \in DOMAIN l /\ j < i /\ j # i
      BY <2>5
    <3>2. key[l[j]] >= key[c] /\ l[j] # c /\ l[j] \in DOMAIN messages
      BY <2>4, <2>5, <2>6, <2>7, <3>1
    <3>3. /\ key[l[j]] = 2 * LastTime(l[j]) /\ key[c] = 2 * LastTime(c) + 1
          /\ LastTime(l[j]) \in Nat /\ LastTime(c) \in Nat
      BY <2>1, <2>2, <3>2
    <3>4. ~(LastTime(l[j]) <= LastTime(c))
      BY <3>2, <3>3
    <3> QED
      BY <2>2, <3>2, <3>4
  <2>10. l \in ListChats
    BY <2>8 DEF ListChats
  <2> QED
    BY <2>7, <2>9, <2>10
<1> QED
  BY Invariance, <1>1, PTL

-----------------------------------------------------------------------------
\* The last one of a sequence is its only last one.
LEMMA LastOne ==
  ASSUME NEW S, NEW s \in Seq(S), Len(s) # 0
  PROVE  LastN(s, 1) = <<s[Len(s)]>>
<1>1. Len(s) \in Nat
  BY LenProperties
<1>2. PICK lo \in 1..(Len(s) + 1) :
         /\ LastN(s, 1) \in Seq(S) /\ Len(LastN(s, 1)) = Len(s) + 1 - lo
         /\ \A i \in 1..(Len(s) + 1 - lo) : LastN(s, 1)[i] = s[lo + i - 1]
         /\ 1 > 0 /\ Len(s) > 0 => lo <= Len(s)
  BY LastNSuffix
<1>3. Len(LastN(s, 1)) = 1
  <2>1. LastN(s, 1) = SubSeq(s, Len(s), Len(s))
    <3>0. \A n \in Nat : n # 0 => (IF n > 1 THEN n - 1 + 1 ELSE 1) = n
      OBVIOUS
    <3>1. (IF Len(s) > 1 THEN Len(s) - 1 + 1 ELSE 1) = Len(s)
      BY <1>1, <3>0
    <3> QED
      BY <3>1 DEF LastN
  <2>2. \A i \in Len(s)..Len(s) : s[i] \in S
    BY <1>1, ElementOfSeq
  <2>3. Len(SubSeq(s, Len(s), Len(s))) =
          IF Len(s) <= Len(s) THEN Len(s) - Len(s) + 1 ELSE 0
    BY <1>1, <2>2, SubSeqProperties
  <2> QED
    BY <1>1, <2>1, <2>3
<1>4. lo = Len(s)
  BY <1>1, <1>2, <1>3
<1>5. 1 \in 1..(Len(s) + 1 - lo) /\ lo + 1 - 1 = Len(s)
  BY <1>1, <1>4
<1>6. LastN(s, 1)[1] = s[Len(s)]
  BY <1>2, <1>5
<1> QED
  BY <1>2, <1>3, <1>6

\* Sorting keeps a last element that no other is newer than at the end.
LEMMA SortedLast ==
  ASSUME NEW s \in Seq(Message), Len(s) # 0,
         \A i \in 1..Len(s) : s[i].time <= s[Len(s)].time
  PROVE  /\ \E S : StableSort(s) \in Seq(S)
         /\ Len(StableSort(s)) = Len(s) /\ StableSort(s)[Len(s)] = s[Len(s)]
<1> DEFINE upTo(p) == {q \in DOMAIN s : \/ s[q].time < s[p].time
                                        \/ s[q].time = s[p].time /\ q <= p}
           place(n) == CHOOSE p \in DOMAIN s : Cardinality(upTo(p)) = n
           sorted == [n \in DOMAIN s |-> s[place(n)]]
<1>1. Len(s) \in Nat /\ DOMAIN s = 1..Len(s) /\ Len(s) \in DOMAIN s
  BY LenProperties
<1>2. \A i \in DOMAIN s : s[i].time \in Nat
  <2>1. \A m \in Message : m.time \in Nat
    BY QueriesAssumption DEF Message
  <2> QED
    BY <1>1, <2>1, ElementOfSeq
<1>3. IsFiniteSet(DOMAIN s) /\ Cardinality(DOMAIN s) = Len(s)
  <2>1. Len(s) \in Int /\ 1 \in Int
    BY <1>1
  <2>2. IsFiniteSet(1..Len(s)) /\ Cardinality(1..Len(s)) = IF 1 > Len(s) THEN 0 ELSE Len(s) - 1 + 1
    BY <2>1, FS_Interval
  <2> QED
    BY <1>1, <2>2
<1>4. upTo(Len(s)) = DOMAIN s
  <2>1. ASSUME NEW q \in DOMAIN s PROVE q \in upTo(Len(s))
    <3>1. s[q].time <= s[Len(s)].time /\ s[q].time \in Nat /\ s[Len(s)].time \in Nat /\ q <= Len(s)
      BY <1>1, <1>2
    <3> QED
      BY <3>1
  <2> QED
    BY <2>1
<1>5. ASSUME NEW p \in DOMAIN s, Cardinality(upTo(p)) = Len(s) PROVE p = Len(s)
  <2>1. upTo(p) \subseteq DOMAIN s
    OBVIOUS
  <2>2. upTo(p) = DOMAIN s
    <3> HIDE DEF upTo
    <3> QED
      BY <1>3, <1>5, <2>1, FS_Subset
  <2>3. Len(s) \in upTo(p)
    BY <1>1, <2>2
  <2>4. s[Len(s)].time < s[p].time \/ (s[Len(s)].time = s[p].time /\ Len(s) <= p)
    BY <2>3
  <2>5. /\ s[p].time <= s[Len(s)].time /\ s[p].time \in Nat
        /\ s[Len(s)].time \in Nat /\ p \in 1..Len(s)
    BY <1>1, <1>2
  <2> QED
    BY <1>1, <2>4, <2>5
<1>6. Cardinality(upTo(Len(s))) = Len(s)
  BY <1>3, <1>4
<1>7. place(Len(s)) = Len(s)
  <2> HIDE DEF upTo
  <2> QED
    BY <1>1, <1>5, <1>6
<1>8. sorted[Len(s)] = s[Len(s)]
  BY <1>1, <1>7
<1> DEFINE S == {s[place(n)] : n \in DOMAIN s}
<1>9. sorted \in [1..Len(s) -> S]
  <2> HIDE DEF place
  <2> QED
    BY <1>1
<1>10. StableSort(s) = sorted
  BY DEF StableSort
<1> HIDE DEF S, sorted
<1>11. sorted \in Seq(S)
  BY <1>1, <1>9, SeqDef
<1>12. Len(sorted) = Len(s)
  BY <1>1, <1>9, <1>11, LenProperties
<1> QED
  BY <1>8, <1>10, <1>11, <1>12

\* The newest page of one message is the last of the conversation.
LEMMA ReadLast ==
  ASSUME StoreInv, NEW c \in DOMAIN messages
  PROVE  Last(Read(c, 1, NoCursor)) = Last(messages[c])
<1> DEFINE s == messages[c]
           b == Before(c, NoCursor)
<1>1. s \in Seq(Message) /\ Len(s) \in Nat /\ Len(s) # 0 /\ DOMAIN s = 1..Len(s)
  BY Conversation
<1>2. b = Kept(s, 1..Len(s))
  <2>1. {p \in DOMAIN s : NoCursor = NoCursor \/ s[p].time < NoCursor} = 1..Len(s)
    BY <1>1
  <2> QED
    BY <2>1 DEF Before
<1>3. Last(s) = s[Len(s)] /\ Read(c, 1, NoCursor) = LastN(b, 1)
  BY DEF Last, Read
<1> HIDE DEF s, b
<1>4. Len(s) \in 0..Len(s) /\ Len(s) \in 1..Len(s)
  BY <1>1
<1>5. b \in Seq(Message) /\ Len(b) = Len(s) /\ b[Len(s)] = s[Len(s)]
  BY <1>1, <1>2, <1>4, KeptPrefix
<1>6. LastN(b, 1) = <<s[Len(s)]>>
  BY <1>1, <1>5, LastOne
<1>7. Last(<<s[Len(s)]>>) = s[Len(s)]
  BY DEF Last
<1> QED
  BY <1>3, <1>6, <1>7 DEF s

\* The hits of a search for everything, collected in a HashMap order that ends
\* with a conversation whose last message no other is newer than: the last hit
\* is that message.
LEMMA NewestHit ==
  ASSUME StoreInv, NEW c \in DOMAIN messages, \A m \in All : m.time <= LastTime(c)
  PROVE  <<Last(messages[c])>> \in Search(1)
<1>1. IsFiniteSet(DOMAIN messages)
  <2>1. DOMAIN messages \subseteq Convs /\ IsFiniteSet(Convs)
    BY QueriesAssumption DEF StoreInv
  <2> QED
    BY <2>1, FS_Subset
<1> DEFINE key == [d \in DOMAIN messages |-> IF d = c THEN 0 ELSE 1]
           N == Cardinality(DOMAIN messages)
<1>2. key \in [DOMAIN messages -> Nat]
  OBVIOUS
<1>3. PICK o \in SetToSeqs(DOMAIN messages) :
         \A i, j \in DOMAIN o : i < j => key[o[i]] >= key[o[j]]
  <2> HIDE DEF key
  <2> QED
    BY <1>1, <1>2, SortExists
<1>4. /\ o \in Seq(DOMAIN messages) /\ Len(o) = N /\ N \in Nat /\ DOMAIN o = 1..N
      /\ ToSet(o) = DOMAIN messages
      /\ \A i, j \in DOMAIN o : i # j => o[i] # o[j]
  BY <1>1, SetSequence
<1>5. \A i \in DOMAIN o : o[i] \in DOMAIN messages
  BY <1>4 DEF ToSet
<1>6. N \in DOMAIN o /\ o[N] = c
  <2>1. PICK p \in DOMAIN o : o[p] = c
    BY <1>4 DEF ToSet
  <2>2. N \in DOMAIN o /\ (p = N \/ p < N)
    BY <1>4
  <2>3. CASE p < N
    <3> HIDE DEF key, N
    <3>1. key[c] >= key[o[N]]
      BY <1>3, <2>1, <2>2, <2>3
    <3>2. p # N
      BY <1>4, <2>3
    <3>3. o[N] # c
      BY <1>4, <2>1, <2>2, <3>2
    <3>4. key[c] >= key[o[N]] /\ o[N] # c /\ o[N] \in DOMAIN messages
      BY <1>5, <2>2, <3>1, <3>3
    <3> USE DEF key
    <3>5. key[c] = 0 /\ key[o[N]] = 1
      BY <3>4
    <3> QED
      BY <3>4, <3>5
  <2> QED
    BY <2>1, <2>2, <2>3
<1> HIDE DEF N, key
<1> DEFINE seqs == [i \in DOMAIN o |-> messages[o[i]]]
<1>7. \A i \in DOMAIN o : messages[o[i]] \in Seq(Message) /\ messages[o[i]] # <<>>
  BY <1>5, Conversation DEF StoreInv
<1>8. seqs \in Seq(Seq(Message)) /\ Len(seqs) = N /\ DOMAIN seqs = 1..N
  <2>1. seqs \in [1..N -> Seq(Message)]
    BY <1>4, <1>7
  <2> HIDE DEF seqs
  <2>2. seqs \in Seq(Seq(Message))
    BY <1>4, <2>1, SeqDef
  <2> QED
    BY <1>4, <2>1, <2>2, LenProperties
<1>9. /\ seqs[N] = messages[c] /\ messages[c] # <<>>
      /\ \A i \in DOMAIN seqs : seqs[i] = messages[o[i]]
  BY <1>4, <1>6, <1>7
<1>10. seqs # <<>>
  <2>1. Len(seqs) # 0
    BY <1>4, <1>6, <1>8
  <2> HIDE DEF seqs
  <2> QED
    BY <1>8, <2>1, EmptySeq
<1>11. StableSort(FlattenSeq(seqs)) \in Hits
  BY <1>3 DEF Hits
<1> HIDE DEF seqs
<1>12. PICK flat \in Seq(Message) :
         flat = FlattenSeq(seqs) /\ Len(flat) > 0 /\ flat[Len(flat)] = messages[c][Len(messages[c])]
  <2>1. seqs[Len(seqs)] = messages[c]
    BY <1>8, <1>9
  <2>2. \E flat \in Seq(Message), last \in Seq(Message) :
           /\ flat = FlattenSeq(seqs) /\ last = seqs[Len(seqs)]
           /\ Len(flat) > 0 /\ flat[Len(flat)] = last[Len(last)]
    BY <1>8, <1>9, <1>10, <2>1, FlattenLast
  <2> QED
    BY <2>1, <2>2
<1>13. LastTime(c) = flat[Len(flat)].time /\ Last(messages[c]) = flat[Len(flat)]
  BY <1>12, LastOfConversation
<1>14. Len(flat) \in Nat /\ Len(flat) # 0 /\ DOMAIN flat = 1..Len(flat)
  BY <1>12, LenProperties
<1>15. \A i \in 1..Len(flat) : flat[i].time <= flat[Len(flat)].time
  <2>1. ToSet(flat) = UNION {ToSet(seqs[i]) : i \in DOMAIN seqs}
    BY <1>8, <1>12, FlattenElements
  <2>2. ToSet(flat) \subseteq All
    BY <1>4, <1>5, <1>8, <1>9, <2>1 DEF All
  <2>3. \A i \in 1..Len(flat) : flat[i] \in All
    BY <1>14, <2>2 DEF ToSet
  <2> QED
    BY <1>13, <2>3
<1>16. /\ \E S : StableSort(flat) \in Seq(S)
       /\ Len(StableSort(flat)) = Len(flat) /\ StableSort(flat)[Len(flat)] = flat[Len(flat)]
  BY <1>14, <1>15, SortedLast
<1>17. LastN(StableSort(flat), 1) = <<flat[Len(flat)]>>
  BY <1>14, <1>16, LastOne
<1>18. LastN(StableSort(flat), 1) \in Search(1)
  BY <1>11, <1>12 DEF Search
<1> QED
  BY <1>13, <1>17, <1>18

\* The top of list_chats, the last message read of it and the one hit of a
\* search for the newest agree, and nothing in the cache is newer.
THEOREM ToolsAgreeOnNewest == Spec => []NewestAgrees
<1>1. QInv => NewestAgrees
  <2> SUFFICES ASSUME QInv, NEW l \in ListChats, l # <<>>
               PROVE  /\ <<Last(Read(l[1], 1, NoCursor))>> \in Search(1)
                      /\ \A m \in All : m.time <= LastTime(l[1])
    BY DEF NewestAgrees
  <2>1. StoreInv /\ IsFiniteSet(DOMAIN messages)
    <3>1. DOMAIN messages \subseteq Convs /\ IsFiniteSet(Convs)
      BY QueriesAssumption DEF QInv, StoreInv
    <3> QED
      BY <3>1, FS_Subset DEF QInv
  <2>2. l \in SetToSeqs(DOMAIN messages)
        /\ \A i, j \in DOMAIN l : i < j => LastTime(l[i]) >= LastTime(l[j])
    BY DEF ListChats
  <2>3. /\ l \in Seq(DOMAIN messages) /\ Len(l) = Cardinality(DOMAIN messages)
        /\ Cardinality(DOMAIN messages) \in Nat
        /\ DOMAIN l = 1..Cardinality(DOMAIN messages) /\ ToSet(l) = DOMAIN messages
    BY <2>1, <2>2, SetSequence
  <2>4. 1 \in DOMAIN l /\ \A i \in DOMAIN l : i = 1 \/ 1 < i
    <3>1. Len(l) # 0
      BY <2>3, EmptySeq
    <3> QED
      BY <2>3, <3>1
  <2>5. l[1] \in DOMAIN messages
    BY <2>3, <2>4 DEF ToSet
  <2>6. ASSUME NEW d \in DOMAIN messages PROVE LastTime(d) <= LastTime(l[1])
    <3>1. PICK i \in DOMAIN l : l[i] = d
      BY <2>3 DEF ToSet
    <3>2. LastTime(d) \in Nat /\ LastTime(l[1]) \in Nat
      BY <2>1, <2>5, LastOfConversation
    <3> QED
      BY <2>2, <2>4, <3>1, <3>2
  <2>7. ASSUME NEW m \in All PROVE m.time <= LastTime(l[1])
    <3>1. PICK d \in DOMAIN messages : m \in ToSet(messages[d])
      BY DEF All
    <3>2. PICK i \in 1..Len(messages[d]) : m = messages[d][i]
      BY <2>1, <3>1, Conversation DEF ToSet
    <3>3. m.time <= LastTime(d) /\ m \in Message
      BY <2>1, <3>2, Conversation, LastOfConversation
    <3>4. m.time \in Nat /\ LastTime(d) \in Nat /\ LastTime(l[1]) \in Nat
      BY <2>1, <2>5, <3>3, LastOfConversation, QueriesAssumption DEF Message
    <3>5. LastTime(d) <= LastTime(l[1])
      BY <2>6
    <3> QED
      BY <3>3, <3>4, <3>5
  <2>8. <<Last(messages[l[1]])>> \in Search(1)
    BY <2>1, <2>5, <2>7, NewestHit
  <2>9. Last(Read(l[1], 1, NoCursor)) = Last(messages[l[1]])
    BY <2>1, <2>5, ReadLast
  <2> QED
    BY <2>7, <2>8, <2>9
<1> QED
  BY Invariance, <1>1, PTL
=============================================================================
