-------------------------- MODULE BuildCacheProofs ---------------------------
(***************************************************************************)
(* Proofs about BuildCache, for every set of records and every order the   *)
(* map yields them in: which messages, topics and names the cache holds.   *)
(***************************************************************************)
EXTENDS BuildCache, SequenceLemmas

MsgManager == "replychain-manager"
MsgStores == {"replychains", "replychains-2"}
ConvManager == "conversation-manager"
ConvStores == {"conversations"}
ProfileManager == "profiles"
ProfileStores == {"profiles"}

\* The records the second pass has been through.
Seen == {order[i] : i \in 1..(Len(order) - Len(todo))}

\* The first pass meets each record once, the second goes through the same order.
OrderInv ==
  /\ records \in Worlds /\ pc \in {"names", "decode", "done"}
  /\ order \in Seq(records)
  /\ \A i, j \in DOMAIN order : i # j => order[i] # order[j]
  /\ todo \in Seq(records) /\ Len(todo) <= Len(order)
  /\ \A i \in 1..Len(todo) : todo[i] = order[Len(order) - Len(todo) + i]
  /\ pc # "decode" => todo = <<>>
  /\ pc # "names" => ToSet(order) = records

DatabaseOf(r) == [manager |-> r.name, id |-> r.id]
StoreOf(r) == [db |-> r.key[1], store |-> r.id, name |-> r.name]

\* The first pass's tables say what the records met so far say.
NamesInv ==
  /\ databases \in Seq({DatabaseOf(r) : r \in {x \in records : NamesDatabase(x)}})
  /\ \A r \in ToSet(order) : NamesDatabase(r) => DatabaseOf(r) \in ToSet(databases)
  /\ stores \subseteq {StoreOf(r) : r \in {x \in records : NamesStore(x)}}
  /\ Tidy => \A r \in ToSet(order) : NamesStore(r) => StoreOf(r) \in stores

\* The second pass's cells are those the tables give.
CellInv ==
  /\ pc = "names" => cells = [conv |-> {}, profile |-> {}, msg |-> {}]
  /\ pc # "names" =>
       /\ cells.msg = Cells(MsgManager, MsgStores)
       /\ cells.conv \in FoundIn(Cells(ConvManager, ConvStores))
       /\ cells.profile \in FoundIn(Cells(ProfileManager, ProfileStores))

\* The messages in some records, each as its record and its place there.
Entries(S) ==
  UNION {{<<r, i>> : i \in DOMAIN r.body.messages} : r \in {x \in S : Target(x) = "msg"}}

Of(e) == e[1].body.messages[e[2]]
In(e) == Conversation(Of(e), e[1].body.conv)

\* What conversation c has of some records.
Held(S, c) == {Parsed(Of(e)) : e \in {x \in Entries(S) : In(x) = c}}

\* The same, as it is shown.
Shows(S, c) == {Renamed(m) : m \in Held(S, c)}

IdsDiffer(s) == \A i, j \in DOMAIN s : i # j => s[i].id # s[j].id

MessageInv ==
  /\ pc = "names" => messages = EmptyMap
  /\ pc # "names" =>
       /\ DOMAIN messages = {In(e) : e \in Entries(Seen)} \ {None}
       /\ \A c \in DOMAIN messages :
            /\ messages[c] \in Seq(ToSet(messages[c]))
            /\ Tidy => IdsDiffer(messages[c])
  /\ pc = "decode" => \A c \in DOMAIN messages : ToSet(messages[c]) = Held(Seen, c)
  /\ pc = "done" => \A c \in DOMAIN messages :
                      /\ ToSet(messages[c]) = Shows(Seen, c)
                      /\ \A i, j \in DOMAIN messages[c] :
                           i < j => messages[c][i].time <= messages[c][j].time

\* The names u goes by in some records, as a person and as a sender.
ProfiledNames(S, u) ==
  {r.body.name : r \in {x \in S : Target(x) = "profile" /\ x.body.mri = u}} \ {None}
SenderNamesIn(S, u) == {Of(e).name : e \in {x \in Entries(S) : Of(x).creator = u}} \ {None}

PeopleInv ==
  /\ pc = "names" => names = EmptyMap
  /\ pc # "names" => \A u :
       /\ u \in DOMAIN names <=>
            u # None /\ ProfiledNames(Seen, u) \cup SenderNamesIn(Seen, u) # {}
       /\ u \in DOMAIN names =>
            names[u].name \in IF ProfiledNames(Seen, u) # {} THEN ProfiledNames(Seen, u)
                              ELSE SenderNamesIn(Seen, u)

\* The threads among some records.
Threads(S) == {r.body : r \in {x \in S : Target(x) = "conv" /\ Topical(x.body)}}

TopicInv ==
  /\ pc = "names" => topics = EmptyMap
  /\ pc # "names" =>
       /\ DOMAIN topics = {v.id : v \in Threads(Seen)}
       /\ Tidy => \A v \in Threads(Seen) : topics[v.id] = TopicOf(v)

BInv == OrderInv /\ NamesInv /\ CellInv /\ MessageInv /\ PeopleInv /\ TopicInv

-----------------------------------------------------------------------------
\* What the assumption says of the directory at hand.
LEMMA RecordFacts ==
  ASSUME records \in Worlds, NEW r \in records
  PROVE  /\ r.key # None => r.key \in Nat \X Nat \X Nat
         /\ r.item = "database name" => r.name \in STRING \cup {None} /\ r.id \in Nat
BY BuildCacheAssumption

\* What a step does to the order of the records, and that the second pass sees them
\* one by one.
LEMMA OrderStep == OrderInv /\ [Next]_vars => OrderInv'
<1> SUFFICES ASSUME OrderInv, [Next]_vars PROVE OrderInv'
  OBVIOUS
<1>0. /\ Len(order) \in Nat /\ DOMAIN order = 1..Len(order)
      /\ Len(todo) \in Nat /\ DOMAIN todo = 1..Len(todo)
  BY LenProperties DEF OrderInv
<1>1. CASE CollectNames
  <2>1. PICK r \in records \ ToSet(order) : order' = Append(order, r)
    BY <1>1 DEF CollectNames
  <2>2. /\ order' \in Seq(records) /\ Len(order') = Len(order) + 1
        /\ DOMAIN order' = 1..Len(order) + 1
        /\ \A i \in 1..Len(order) : order'[i] = order[i]
        /\ order'[Len(order) + 1] = r
    BY <2>1, AppendProperties DEF OrderInv
  <2>3. \A i \in DOMAIN order : order[i] # r
    BY <2>1 DEF ToSet
  <2>4. todo' = <<>> /\ todo = <<>> /\ pc' = "names" /\ pc = "names" /\ records' = records
    BY <1>1 DEF CollectNames, OrderInv
  <2>5. Len(todo') = 0 /\ todo' \in Seq(records)
    BY <2>4
  <2>6. ASSUME NEW i \in DOMAIN order', NEW j \in DOMAIN order', i # j
        PROVE  order'[i] # order'[j]
    <3>1. /\ i \in 1..Len(order) \/ i = Len(order) + 1
          /\ j \in 1..Len(order) \/ j = Len(order) + 1
      BY <1>0, <2>2
    <3> QED
      BY <1>0, <2>2, <2>3, <2>6, <3>1 DEF OrderInv
  <2> QED
    BY <1>0, <2>2, <2>4, <2>5, <2>6 DEF OrderInv
<1>2. CASE Resolve
  BY <1>0, <1>2 DEF Resolve, OrderInv
<1>3. CASE DecodeChain \/ DecodeTopic \/ DecodeProfile \/ SkipRecord
  <2>1. /\ pc = "decode" /\ pc' = "decode" /\ todo # <<>> /\ todo' = Tail(todo)
        /\ UNCHANGED <<records, order>>
    BY <1>3 DEF DecodeChain, DecodeTopic, DecodeProfile, SkipRecord, NextRecord
  <2>2. /\ todo' \in Seq(records) /\ Len(todo') = Len(todo) - 1
        /\ \A i \in 1..Len(todo') : todo'[i] = todo[i + 1]
    BY <2>1, HeadAndTail, HeadTailProperties DEF OrderInv
  <2>3. Len(todo) # 0
    BY <2>1, EmptySeq DEF OrderInv
  <2>4. ASSUME NEW i \in 1..Len(todo') PROVE todo'[i] = order'[Len(order') - Len(todo') + i]
    BY <1>0, <2>1, <2>2, <2>3 DEF OrderInv
  <2> QED
    BY <1>0, <2>1, <2>2, <2>3, <2>4 DEF OrderInv
<1>4. CASE Finish
  BY <1>4 DEF Finish, OrderInv
<1>5. CASE UNCHANGED vars \/ Done
  BY <1>5 DEF vars, Done, OrderInv
<1> QED
  BY <1>1, <1>2, <1>3, <1>4, <1>5 DEF Next

LEMMA NextSeen ==
  ASSUME OrderInv, NEW target, NextRecord(target)
  PROVE  /\ Head(todo) \in records \ Seen /\ Target(Head(todo)) = target
         /\ Seen' = Seen \cup {Head(todo)}
         /\ \A r : Target(r)' = Target(r)
         /\ pc = "decode" /\ pc' = "decode"
<1>0. /\ Len(order) \in Nat /\ DOMAIN order = 1..Len(order)
      /\ Len(todo) \in Nat /\ Len(todo) <= Len(order)
  BY LenProperties DEF OrderInv
<1>1. /\ todo # <<>> /\ todo' = Tail(todo) /\ order' = order /\ records' = records
      /\ cells' = cells /\ Target(Head(todo)) = target /\ pc = "decode" /\ pc' = "decode"
  BY DEF NextRecord
<1>2. /\ Head(todo) \in records /\ Head(todo) = todo[1] /\ Len(todo') = Len(todo) - 1
      /\ Len(todo) # 0
  BY <1>0, <1>1, HeadTailProperties, EmptySeq DEF OrderInv
<1> DEFINE k == Len(order) - Len(todo)
<1>3. k \in Nat /\ k + 1 \in DOMAIN order /\ Head(todo) = order[k + 1]
  BY <1>0, <1>2 DEF OrderInv
<1>4. Len(order') - Len(todo') = k + 1
  BY <1>0, <1>1, <1>2
<1>5. Head(todo) \notin Seen
  <2>1. \A i \in 1..k : i \in DOMAIN order /\ i # k + 1
    BY <1>0, <1>3
  <2> QED
    BY <1>3, <2>1 DEF Seen, OrderInv
<1>6. Seen' = Seen \cup {Head(todo)}
  <2>1. Seen' = {order[i] : i \in 1..k + 1}
    BY <1>1, <1>4 DEF Seen
  <2>2. 1..k + 1 = (1..k) \cup {k + 1}
    BY <1>3
  <2>3. Seen = {order[i] : i \in 1..k}
    BY DEF Seen
  <2> QED
    BY <1>3, <2>1, <2>2, <2>3
<1>7. \A r : Target(r)' = Target(r)
  BY <1>1 DEF Target, IsObjectStoreData, HasPrefix
<1> QED
  BY <1>1, <1>2, <1>5, <1>6, <1>7

\* Before the second pass nothing is seen, after it everything.
LEMMA SeenBounds ==
  ASSUME OrderInv
  PROVE  /\ Resolve => Seen' = {}
         /\ todo = <<>> /\ pc # "names" => Seen = records
<1>0. Len(order) \in Nat /\ DOMAIN order = 1..Len(order)
  BY LenProperties DEF OrderInv
<1>1. ASSUME Resolve PROVE Seen' = {}
  <2>1. Len(order') - Len(todo') = 0
    BY <1>0, <1>1 DEF Resolve
  <2> QED
    BY <2>1 DEF Seen
<1>2. ASSUME todo = <<>>, pc # "names" PROVE Seen = records
  <2>1. Len(order) - Len(todo) = Len(order)
    BY <1>0, <1>2
  <2> QED
    BY <1>0, <1>2, <2>1 DEF Seen, OrderInv, ToSet
<1> QED
  BY <1>1, <1>2

-----------------------------------------------------------------------------
LEMMA NamesStep == OrderInv /\ NamesInv /\ [Next]_vars => NamesInv'
<1> SUFFICES ASSUME OrderInv, NamesInv, [Next]_vars PROVE NamesInv'
  OBVIOUS
<1>1. CASE CollectNames
  <2> DEFINE D == {DatabaseOf(x) : x \in {y \in records : NamesDatabase(y)}}
             T == {StoreOf(x) : x \in {y \in records : NamesStore(y)}}
  <2>1. records' = records
    BY <1>1 DEF CollectNames
  <2>2. PICK r \in records \ ToSet(order) :
          /\ order' = Append(order, r)
          /\ databases' = IF NamesDatabase(r) THEN Append(databases, DatabaseOf(r)) ELSE databases
          /\ stores' = IF NamesStore(r)
                       THEN {s \in stores : <<s.db, s.store>> # <<r.key[1], r.id>>}
                              \cup {StoreOf(r)}
                       ELSE stores
    BY <1>1 DEF CollectNames, DatabaseOf, StoreOf
  <2>3. order \in Seq(records) /\ ToSet(order') = ToSet(order) \cup {r}
    <3>1. order \in Seq(records) /\ r \in records
      BY DEF OrderInv
    <3>2. /\ Len(order') = Len(order) + 1 /\ Len(order) \in Nat
          /\ DOMAIN order = 1..Len(order) /\ DOMAIN order' = 1..Len(order')
          /\ \A i \in 1..Len(order) : order'[i] = order[i]
          /\ order'[Len(order) + 1] = r
      BY <2>2, <3>1, AppendProperties, LenProperties
    <3> QED
      BY <3>1, <3>2 DEF ToSet
  <2>4. databases \in Seq(D) /\ stores \subseteq T
    BY DEF NamesInv
  <2>5. databases' \in Seq(D) /\ ToSet(databases) \subseteq ToSet(databases')
        /\ (NamesDatabase(r) => DatabaseOf(r) \in ToSet(databases'))
    <3>1. CASE NamesDatabase(r)
      <4>1. DatabaseOf(r) \in D /\ databases' = Append(databases, DatabaseOf(r))
        BY <2>2, <3>1
      <4> HIDE DEF D
      <4>2. /\ databases' \in Seq(D) /\ Len(databases') = Len(databases) + 1
            /\ Len(databases) \in Nat
            /\ DOMAIN databases = 1..Len(databases) /\ DOMAIN databases' = 1..Len(databases')
            /\ \A i \in 1..Len(databases) : databases'[i] = databases[i]
            /\ databases'[Len(databases) + 1] = DatabaseOf(r)
        BY <2>4, <4>1, AppendProperties, LenProperties
      <4> QED
        BY <4>2 DEF ToSet
    <3>2. CASE ~NamesDatabase(r)
      BY <2>2, <2>4, <3>2
    <3> QED
      BY <3>1, <3>2
  <2>6. stores' \subseteq T
    BY <2>2, <2>4
  <2>7. ASSUME Tidy, NEW q \in ToSet(order'), NamesStore(q) PROVE StoreOf(q) \in stores'
    <3>1. CASE q = r
      BY <2>2, <2>7, <3>1
    <3>2. CASE q # r /\ NamesStore(r)
      <4>1. StoreOf(q) \in stores
        BY <2>3, <2>7, <3>2 DEF NamesInv
      <4>2. q \in records /\ r \in records
        <5>1. \A i \in DOMAIN order : order[i] \in records
          BY <2>3, ElementOfSeq, LenProperties
        <5> QED
          BY <2>3, <2>7, <3>2, <5>1 DEF ToSet
      <4>3. SUFFICES ASSUME q.key[1] = r.key[1], q.id = r.id PROVE FALSE
        BY <2>2, <3>2, <4>1 DEF StoreOf
      <4>4. q.key # None /\ r.key # None /\ q.key[2] = 0 /\ r.key[2] = 0 /\ q.key[3] = 0
            /\ r.key[3] = 0
        BY <2>7, <3>2 DEF NamesStore, IsDatabaseMeta, HasPrefix
      <4>5. q.key \in Nat \X Nat \X Nat /\ r.key \in Nat \X Nat \X Nat
        BY <4>2, <4>4, RecordFacts DEF OrderInv
      <4>6. q.key = r.key
        BY <4>3, <4>4, <4>5
      <4> QED
        BY <2>7, <3>2, <4>2, <4>3, <4>6 DEF Tidy
    <3>3. CASE q # r /\ ~NamesStore(r)
      BY <2>2, <2>3, <2>7, <3>3 DEF NamesInv
    <3> QED
      BY <3>1, <3>2, <3>3
  <2>8. Tidy' = Tidy
    BY <2>1 DEF Tidy, ChainRecords, RecordsOf, Profiles, Topics
  <2>9. \A q \in ToSet(order') : NamesDatabase(q) => DatabaseOf(q) \in ToSet(databases')
    BY <2>3, <2>5 DEF NamesInv
  <2> QED
    BY <2>1, <2>5, <2>6, <2>7, <2>8, <2>9 DEF NamesInv
<1>2. CASE Resolve \/ DecodeChain \/ DecodeTopic \/ DecodeProfile \/ SkipRecord \/ Finish
           \/ Done \/ UNCHANGED vars
  <2>1. UNCHANGED <<records, order, databases, stores>>
    BY <1>2 DEF Resolve, DecodeChain, DecodeTopic, DecodeProfile, SkipRecord, NextRecord,
                Finish, Done, vars
  <2> QED
    BY <2>1 DEF NamesInv, Tidy, ChainRecords, RecordsOf, Profiles, Topics
<1> QED
  BY <1>1, <1>2 DEF Next

LEMMA CellStep == OrderInv /\ CellInv /\ [Next]_vars => CellInv'
<1> SUFFICES ASSUME OrderInv, CellInv, [Next]_vars PROVE CellInv'
  OBVIOUS
<1>1. CASE CollectNames
  BY <1>1 DEF CollectNames, CellInv
<1>2. CASE Resolve
  <2>1. /\ pc' = "decode" /\ UNCHANGED <<databases, stores>>
        /\ \E conv \in FoundIn(Cells(ConvManager, ConvStores)),
              profile \in FoundIn(Cells(ProfileManager, ProfileStores)) :
             cells' = [conv |-> conv, profile |-> profile, msg |-> Cells(MsgManager, MsgStores)]
    BY <1>2 DEF Resolve, MessageCells, ConvManager, ConvStores, ProfileManager, ProfileStores,
                MsgManager, MsgStores
  <2>2. /\ cells'.msg = Cells(MsgManager, MsgStores)
        /\ cells'.conv \in FoundIn(Cells(ConvManager, ConvStores))
        /\ cells'.profile \in FoundIn(Cells(ProfileManager, ProfileStores))
    BY <2>1
  <2> QED
    BY <2>1, <2>2 DEF CellInv, Cells, Database
<1>3. CASE DecodeChain \/ DecodeTopic \/ DecodeProfile \/ SkipRecord \/ Finish
           \/ Done \/ UNCHANGED vars
  <2>1. UNCHANGED <<databases, stores, cells>> /\ (pc = "names" <=> pc' = "names")
    BY <1>3 DEF DecodeChain, DecodeTopic, DecodeProfile, SkipRecord, NextRecord,
                Finish, Done, vars
  <2> QED
    BY <2>1 DEF CellInv, Cells, Database
<1> QED
  BY <1>1, <1>2, <1>3 DEF Next

-----------------------------------------------------------------------------
\* A record that names a store is known by its database and the store's number.
LEMMA StoreKeys ==
  ASSUME records \in Worlds, NEW r \in records, NEW s \in records,
         NamesStore(r), NamesStore(s), r.key[1] = s.key[1]
  PROVE  r.key = s.key
<1>1. r.key # None /\ s.key # None /\ r.key[2] = 0 /\ s.key[2] = 0 /\ r.key[3] = 0 /\ s.key[3] = 0
  BY DEF NamesStore, IsDatabaseMeta, HasPrefix
<1>2. r.key \in Nat \X Nat \X Nat /\ s.key \in Nat \X Nat \X Nat
  BY <1>1, RecordFacts
<1> QED
  BY <1>1, <1>2

\* A database number under a manager's name is one a record gives it; in a tidy
\* directory it is the one.
LEMMA DatabaseExact ==
  ASSUME OrderInv, NamesInv, NEW manager
  PROVE  /\ \A k \in Database(manager) :
              \E d \in records : NamesDatabase(d) /\ d.name = manager /\ d.id = k
         /\ Tidy /\ pc # "names" =>
              \A d \in records : NamesDatabase(d) /\ d.name = manager => d.id \in Database(manager)
<1> DEFINE at == {n \in DOMAIN databases : databases[n].manager = manager}
<1>1. /\ DOMAIN databases \subseteq Nat
      /\ \A n \in DOMAIN databases : \E d \in records :
           NamesDatabase(d) /\ databases[n] = DatabaseOf(d)
  <2> DEFINE D == {DatabaseOf(x) : x \in {y \in records : NamesDatabase(y)}}
  <2>1. databases \in Seq(D)
    BY DEF NamesInv
  <2>2. DOMAIN databases \subseteq Nat /\ \A n \in DOMAIN databases : databases[n] \in D
    <3> HIDE DEF D
    <3> QED
      BY <2>1, LenProperties, ElementOfSeq
  <2> QED
    BY <2>2
<1>2. Database(manager) = {databases[n].id : n \in {m \in at : \A k \in at : m <= k}}
  BY DEF Database
<1>3. ASSUME NEW k \in Database(manager)
      PROVE  \E d \in records : NamesDatabase(d) /\ d.name = manager /\ d.id = k
  <2>1. PICK n \in at : databases[n].id = k
    BY <1>2, <1>3
  <2> QED
    BY <1>1, <2>1 DEF DatabaseOf
<1>4. ASSUME Tidy, pc # "names", NEW d \in records, NamesDatabase(d), d.name = manager
      PROVE  d.id \in Database(manager)
  <2>1. DatabaseOf(d) \in ToSet(databases)
    BY <1>4 DEF OrderInv, NamesInv
  <2>2. at # {} /\ at \in SUBSET Nat
    BY <1>1, <1>4, <2>1 DEF ToSet, DatabaseOf
  <2>3. PICK m \in at : \A k \in at : m <= k
    <3> HIDE DEF at
    <3> QED
      BY <2>2, LeastNat
  <2>4. databases[m].id \in Database(manager)
    BY <1>2, <2>3
  <2>5. PICK e \in records : NamesDatabase(e) /\ databases[m] = DatabaseOf(e)
    BY <1>1, <2>3
  <2>6. e = d
    BY <1>4, <2>3, <2>5 DEF Tidy, DatabaseOf
  <2> QED
    BY <2>4, <2>5, <2>6 DEF DatabaseOf
<1> QED
  BY <1>3, <1>4

\* What a pair of numbers among a manager's cells says of the records.
CellOf(k, n, manager, wanted) ==
  \E d, s \in records :
    /\ NamesDatabase(d) /\ d.name = manager /\ d.id = k
    /\ NamesStore(s) /\ s.key[1] = k /\ s.id = n /\ s.name \in wanted

LEMMA CellsExact ==
  ASSUME OrderInv, NamesInv, NEW manager, NEW wanted, NEW k, NEW n
  PROVE  /\ <<k, n>> \in Cells(manager, wanted) => CellOf(k, n, manager, wanted)
         /\ Tidy /\ pc # "names" /\ CellOf(k, n, manager, wanted)
              => <<k, n>> \in Cells(manager, wanted)
<1>1. ASSUME <<k, n>> \in Cells(manager, wanted) PROVE CellOf(k, n, manager, wanted)
  <2>1. PICK x \in stores : /\ x.db \in Database(manager) /\ x.name \in wanted
                            /\ x.db = k /\ x.store = n
    BY <1>1 DEF Cells
  <2>2. PICK s \in records : NamesStore(s) /\ x = StoreOf(s)
    BY <2>1 DEF NamesInv
  <2>3. PICK d \in records : NamesDatabase(d) /\ d.name = manager /\ d.id = k
    BY <2>1, DatabaseExact
  <2> QED
    BY <2>1, <2>2, <2>3 DEF CellOf, StoreOf
<1>2. ASSUME Tidy, pc # "names", CellOf(k, n, manager, wanted)
      PROVE  <<k, n>> \in Cells(manager, wanted)
  <2>1. PICK d \in records, s \in records :
          /\ NamesDatabase(d) /\ d.name = manager /\ d.id = k
          /\ NamesStore(s) /\ s.key[1] = k /\ s.id = n /\ s.name \in wanted
    BY <1>2 DEF CellOf
  <2>2. k \in Database(manager)
    BY <1>2, <2>1, DatabaseExact
  <2>3. StoreOf(s) \in stores
    BY <1>2, <2>1 DEF NamesInv, OrderInv
  <2> QED
    BY <2>1, <2>2, <2>3 DEF Cells, StoreOf
<1> QED
  BY <1>1, <1>2

\* In a tidy directory a manager's database has one store of a name, and no store
\* two names.
LEMMA CellsUnique ==
  ASSUME OrderInv, Tidy
  PROVE  /\ \A k, l, m, n : \A manager, name :
              CellOf(k, m, manager, {name}) /\ CellOf(l, n, manager, {name}) => k = l /\ m = n
         /\ \A k, n, manager, other : \A these, those :
              CellOf(k, n, manager, these) /\ CellOf(k, n, other, those) => these \cap those # {}
<1>0. records \in Worlds
  BY DEF OrderInv
<1>1. ASSUME NEW k, NEW l, NEW m, NEW n, NEW manager, NEW name,
             CellOf(k, m, manager, {name}), CellOf(l, n, manager, {name})
      PROVE  k = l /\ m = n
  <2>1. PICK d \in records, s \in records :
          /\ NamesDatabase(d) /\ d.name = manager /\ d.id = k
          /\ NamesStore(s) /\ s.key[1] = k /\ s.id = m /\ s.name = name
    BY <1>1 DEF CellOf
  <2>2. PICK e \in records, t \in records :
          /\ NamesDatabase(e) /\ e.name = manager /\ e.id = l
          /\ NamesStore(t) /\ t.key[1] = l /\ t.id = n /\ t.name = name
    BY <1>1 DEF CellOf
  <2>3. d = e
    BY <2>1, <2>2 DEF Tidy
  <2>4. s.key = t.key
    BY <1>0, <2>1, <2>2, <2>3, StoreKeys
  <2>5. s = t
    BY <2>1, <2>2, <2>4 DEF Tidy
  <2> QED
    BY <2>1, <2>2, <2>3, <2>5
<1>2. ASSUME NEW k, NEW n, NEW manager, NEW other, NEW these, NEW those,
             CellOf(k, n, manager, these), CellOf(k, n, other, those)
      PROVE  these \cap those # {}
  <2>1. PICK s \in records : NamesStore(s) /\ s.key[1] = k /\ s.id = n /\ s.name \in these
    BY <1>2 DEF CellOf
  <2>2. PICK t \in records : NamesStore(t) /\ t.key[1] = k /\ t.id = n /\ t.name \in those
    BY <1>2 DEF CellOf
  <2>3. s.key = t.key
    BY <1>0, <2>1, <2>2, StoreKeys
  <2>4. s = t
    BY <2>1, <2>2, <2>3 DEF Tidy
  <2> QED
    BY <2>1, <2>2, <2>4
<1> QED
  BY <1>1, <1>2

LEMMA RecordCells ==
  ASSUME NEW r \in records, IsObjectStoreData(r), r.body # None, NEW manager, NEW wanted
  PROVE  r \in RecordsOf(manager, wanted) <=> CellOf(r.key[1], r.key[2], manager, wanted)
BY DEF RecordsOf, CellOf

\* In a tidy directory a record goes where its store's name says.
LEMMA TargetExact ==
  ASSUME OrderInv, NamesInv, CellInv, Tidy, pc # "names", NEW r \in records
  PROVE  /\ Target(r) = "msg" <=> r \in ChainRecords
         /\ Target(r) = "conv" <=> r \in RecordsOf(ConvManager, ConvStores)
         /\ Target(r) = "profile" <=> r \in RecordsOf(ProfileManager, ProfileStores)
<1>1. CASE ~IsObjectStoreData(r) \/ r.body = None
  BY <1>1 DEF Target, ChainRecords, RecordsOf
<1>2. CASE IsObjectStoreData(r) /\ r.body # None
  <2> DEFINE k == r.key[1]
             n == r.key[2]
             M == CellOf(k, n, MsgManager, MsgStores)
             C == CellOf(k, n, ConvManager, ConvStores)
             P == CellOf(k, n, ProfileManager, ProfileStores)
  <2>1. ASSUME NEW manager, NEW name, NEW found \in FoundIn(Cells(manager, {name})),
               NEW i, NEW j
        PROVE  <<i, j>> \in found <=> CellOf(i, j, manager, {name})
    <3>1. \A x \in found : x \in Cells(manager, {name})
      BY DEF FoundIn
    <3>2. <<i, j>> \in found => CellOf(i, j, manager, {name})
      BY <3>1, CellsExact
    <3>3. ASSUME CellOf(i, j, manager, {name}) PROVE <<i, j>> \in found
      <4>1. <<i, j>> \in Cells(manager, {name})
        BY <3>3, CellsExact
      <4>2. PICK x \in Cells(manager, {name}) : found = {x}
        BY <4>1 DEF FoundIn
      <4>3. PICK a, b : x = <<a, b>>
        BY <4>2 DEF Cells
      <4>4. CellOf(a, b, manager, {name})
        BY <4>2, <4>3, CellsExact
      <4> QED
        BY <3>3, <4>2, <4>3, <4>4, CellsUnique
    <3> QED
      BY <3>2, <3>3
  <2>2. /\ <<k, n>> \in cells.msg <=> M
        /\ <<k, n>> \in cells.conv <=> C
        /\ <<k, n>> \in cells.profile <=> P
    <3>1. /\ cells.msg = Cells(MsgManager, MsgStores)
          /\ cells.conv \in FoundIn(Cells(ConvManager, ConvStores))
          /\ cells.profile \in FoundIn(Cells(ProfileManager, ProfileStores))
      BY DEF CellInv
    <3>2. <<k, n>> \in cells.msg <=> M
      BY <3>1, CellsExact
    <3> QED
      BY <2>1, <3>1, <3>2 DEF ConvStores, ProfileStores
  <2>3. ~(M /\ C) /\ ~(M /\ P) /\ ~(C /\ P)
    <3>1. /\ MsgStores \cap ConvStores = {} /\ MsgStores \cap ProfileStores = {}
          /\ ConvStores \cap ProfileStores = {}
      BY DEF MsgStores, ConvStores, ProfileStores
    <3> QED
      BY <3>1, CellsUnique
  <2>4. /\ r \in ChainRecords <=> M
        /\ r \in RecordsOf(ConvManager, ConvStores) <=> C
        /\ r \in RecordsOf(ProfileManager, ProfileStores) <=> P
    BY <1>2, RecordCells DEF ChainRecords, MsgManager, MsgStores
  <2>5. /\ Target(r) = "msg" <=> <<k, n>> \in cells.msg
        /\ Target(r) = "conv" <=> <<k, n>> \in cells.conv /\ <<k, n>> \notin cells.msg
        /\ Target(r) = "profile" <=> /\ <<k, n>> \in cells.profile
                                     /\ <<k, n>> \notin cells.msg /\ <<k, n>> \notin cells.conv
    BY <1>2 DEF Target
  <2> QED
    BY <2>2, <2>3, <2>4, <2>5
<1> QED
  BY <1>1, <1>2

-----------------------------------------------------------------------------
\* Option::or_else over four fields, the last of them there.
LEMMA FirstOfFour ==
  ASSUME NEW a, NEW b, NEW c, NEW d, d # None
  PROVE  FirstGiven(<<a, b, c, d>>) =
           IF a # None THEN a ELSE IF b # None THEN b ELSE IF c # None THEN c ELSE d
<1> DEFINE s == <<a, b, c, d>>
           G(i) == s[i] # None /\ \A j \in 1..(i - 1) : s[j] = None
           i == CHOOSE n \in DOMAIN s : G(n)
<1>1. DOMAIN s = 1..4 /\ s[1] = a /\ s[2] = b /\ s[3] = c /\ s[4] = d
  OBVIOUS
<1>2. FirstGiven(s) = s[i]
  BY DEF FirstGiven
<1> HIDE DEF s
<1>3. \E n \in DOMAIN s : G(n)
  <2>1. CASE a # None
    <3>1. G(1)
      BY <1>1, <2>1
    <3> QED
      BY <1>1, <3>1
  <2>2. CASE a = None /\ b # None
    <3>1. G(2)
      BY <1>1, <2>2
    <3> QED
      BY <1>1, <3>1
  <2>3. CASE a = None /\ b = None /\ c # None
    <3>1. \A j \in 1..(3 - 1) : j = 1 \/ j = 2
      OBVIOUS
    <3>2. G(3)
      BY <1>1, <2>3, <3>1
    <3> QED
      BY <1>1, <3>2
  <2>4. CASE a = None /\ b = None /\ c = None
    <3>1. \A j \in 1..(4 - 1) : j = 1 \/ j = 2 \/ j = 3
      OBVIOUS
    <3>2. G(4)
      BY <1>1, <2>4, <3>1
    <3> QED
      BY <1>1, <3>2
  <2> QED
    BY <2>1, <2>2, <2>3, <2>4
<1>4. i \in 1..4 /\ G(i)
  <2>1. i \in DOMAIN s /\ G(i)
    BY <1>3
  <2> QED
    BY <1>1, <2>1
<1> HIDE DEF i
<1>5. i = 1 \/ i = 2 \/ i = 3 \/ i = 4
  BY <1>4
<1>6. i > 1 => a = None
  BY <1>1, <1>4
<1>7. i > 2 => b = None
  BY <1>1, <1>4
<1>8. i > 3 => c = None
  BY <1>1, <1>4
<1>9. s[i] # None
  BY <1>4
<1>10. s[i] = IF a # None THEN a ELSE IF b # None THEN b ELSE IF c # None THEN c ELSE d
  BY <1>1, <1>5, <1>6, <1>7, <1>8, <1>9
<1> QED
  BY <1>2, <1>10 DEF s

\* What the assumption says of a record in a store of messages.
LEMMA ChainFacts ==
  ASSUME OrderInv, NamesInv, CellInv, NEW r \in records, Target(r) = "msg"
  PROVE  /\ r.body.messages \in Seq(ToSet(r.body.messages))
         /\ \A m \in ToSet(r.body.messages) : Time(m) \in Nat /\ None \notin m.users
<1>1. pc # "names" /\ cells.msg = Cells(MsgManager, MsgStores)
  BY DEF CellInv, Target
<1>2. /\ r.key # None /\ r.key[3] = 1 /\ r.body # None
      /\ <<r.key[1], r.key[2]>> \in cells.msg
  BY DEF Target, IsObjectStoreData, HasPrefix
<1>3. CellOf(r.key[1], r.key[2], MsgManager, MsgStores)
  BY <1>1, <1>2, CellsExact
<1>4. PICK s \in records : /\ NamesStore(s) /\ s.key[1] = r.key[1] /\ s.id = r.key[2]
                           /\ s.name \in MsgStores
  BY <1>3 DEF CellOf
<1>5. /\ s.item = "store name" /\ s.key # None /\ s.name \in {"replychains", "replychains-2"}
  BY <1>4 DEF NamesStore, IsDatabaseMeta, HasPrefix, MsgStores
<1>6. /\ r.body.messages \in Seq(ToSet(r.body.messages))
      /\ \A m \in ToSet(r.body.messages) :
           {m.arrival, m.idTime, m.client} \subseteq Nat \cup {None} /\ None \notin m.users
  BY <1>2, <1>4, <1>5, BuildCacheAssumption DEF OrderInv
<1>7. ASSUME NEW m \in ToSet(r.body.messages) PROVE Time(m) \in Nat
  <2>1. None \notin Nat
    BY BuildCacheAssumption, Zenon
  <2>2. 0 # None
    BY <2>1
  <2> QED
    BY <1>6, <2>2, FirstOfFour DEF Time
<1> QED
  BY <1>6, <1>7

-----------------------------------------------------------------------------
\* What conversation c has before a chain is collected, and the places in the chain
\* of what it gets.
Old(c) == IF c \in DOMAIN messages THEN messages[c] ELSE <<>>
Places(chain, c) ==
  {n \in DOMAIN chain.messages : Conversation(chain.messages[n], chain.conv) = c}

LEMMA CollectedDomain ==
  ASSUME NEW chain
  PROVE  DOMAIN Collected(chain) =
           (DOMAIN messages \cup
              {Conversation(chain.messages[n], chain.conv) : n \in DOMAIN chain.messages})
           \ {None}
BY DEF Collected, ToSet

\* A chain's messages come after what its conversations have, each once.
LEMMA CollectedChain ==
  ASSUME NEW chain, chain.messages \in Seq(ToSet(chain.messages)),
         \A c \in DOMAIN messages : messages[c] \in Seq(ToSet(messages[c])),
         NEW c \in DOMAIN Collected(chain)
  PROVE  LET all == Collected(chain)[c]
         IN /\ all \in Seq(ToSet(all))
            /\ ToSet(all) = ToSet(Old(c)) \cup
                              {Parsed(chain.messages[n]) : n \in Places(chain, c)}
            /\ /\ IdsDiffer(Old(c)) /\ IdsDiffer(chain.messages)
               /\ \A m \in ToSet(Old(c)), n \in DOMAIN chain.messages :
                    m.id # chain.messages[n].id
               => IdsDiffer(all)
<1> DEFINE M == chain.messages
           parsed == [n \in DOMAIN M |-> Parsed(M[n])]
           P == {Parsed(M[n]) : n \in DOMAIN M}
           keep == Places(chain, c)
           new == Kept(parsed, keep)
           all == Collected(chain)[c]
<1>1. Len(M) \in Nat /\ DOMAIN M = 1..Len(M)
  BY LenProperties
<1>2. parsed \in Seq(P) /\ DOMAIN parsed = DOMAIN M
  <2>1. parsed \in [1..Len(M) -> P]
    BY <1>1
  <2> QED
    BY <1>1, <2>1, SeqDef
<1>3. keep \subseteq DOMAIN parsed
  BY DEF Places
<1>4. all = Old(c) \o new
  BY DEF Collected, Old, Places
<1>5. Old(c) \in Seq(ToSet(Old(c)))
  BY NoElements, EmptySeq DEF Old
<1> HIDE DEF P, parsed, keep, all
<1>6. new \in Seq(P) /\ Cardinality(keep) \in Nat /\ KeepsInOrder(parsed, keep, new)
  BY <1>2, <1>3, KeptElements
<1> HIDE DEF new
<1>7. PICK at \in [1..Cardinality(keep) -> keep] :
        /\ new = [n \in 1..Cardinality(keep) |-> parsed[at[n]]]
        /\ \A p \in keep : \E n \in 1..Cardinality(keep) : at[n] = p
        /\ \A m, n \in 1..Cardinality(keep) : m < n => at[m] < at[n]
  BY <1>6 DEF KeepsInOrder
<1> DEFINE N == Cardinality(keep)
<1>8. /\ N \in Nat /\ DOMAIN new = 1..N
      /\ \A n \in 1..N : at[n] \in DOMAIN M /\ at[n] \in keep /\ new[n] = Parsed(M[at[n]])
  BY <1>2, <1>3, <1>6, <1>7 DEF parsed
<1>9. ToSet(new) = {Parsed(M[n]) : n \in keep}
  <2>1. ASSUME NEW x \in ToSet(new) PROVE x \in {Parsed(M[n]) : n \in keep}
    BY <1>8, <2>1 DEF ToSet
  <2>2. ASSUME NEW p \in keep PROVE Parsed(M[p]) \in ToSet(new)
    <3>1. PICK n \in 1..N : at[n] = p
      BY <1>7
    <3> QED
      BY <1>8, <3>1 DEF ToSet
  <2> QED
    BY <2>1, <2>2
<1>10. /\ all \in Seq(ToSet(Old(c)) \cup P) /\ Len(all) = Len(Old(c)) + Len(new)
       /\ Len(Old(c)) \in Nat /\ Len(new) \in Nat
       /\ \A i \in 1..Len(Old(c)) + Len(new) :
            all[i] = IF i <= Len(Old(c)) THEN Old(c)[i] ELSE new[i - Len(Old(c))]
       /\ ToSet(all) = ToSet(Old(c)) \cup ToSet(new)
  <2> DEFINE o == Old(c)
             S == ToSet(o)
  <2>1. o \in Seq(S) /\ new \in Seq(P) /\ all = o \o new
    BY <1>4, <1>5, <1>6
  <2> HIDE DEF o, S
  <2>2. all \in Seq(S \cup P)
    BY <2>1, ConcatElements
  <2>3. Len(all) = Len(o) + Len(new)
    BY <2>1, ConcatElements
  <2>4. Len(o) \in Nat /\ Len(new) \in Nat
    BY <2>1, LenProperties
  <2>5. \A i \in 1..Len(o) + Len(new) :
            all[i] = IF i <= Len(o) THEN o[i] ELSE new[i - Len(o)]
    BY <2>1, ConcatElements
  <2>6. ToSet(all) = ToSet(o) \cup ToSet(new)
    <3>1. \A x : x \in ToSet(all) <=> x \in ToSet(o) \/ x \in ToSet(new)
      BY <2>1, ConcatElements
    <3> QED
      BY <3>1
  <2> QED
    BY <2>2, <2>3, <2>4, <2>5, <2>6 DEF o, S
<1>11. all \in Seq(ToSet(all))
  BY <1>10, OwnElements
<1>12. ASSUME IdsDiffer(Old(c)), IdsDiffer(M),
              \A m \in ToSet(Old(c)), n \in DOMAIN M : m.id # M[n].id,
              NEW i \in DOMAIN all, NEW j \in DOMAIN all, i < j
       PROVE  all[i].id # all[j].id
  <2>1. /\ DOMAIN all = 1..Len(Old(c)) + Len(new) /\ DOMAIN Old(c) = 1..Len(Old(c))
        /\ Len(new) = N
    BY <1>5, <1>6, <1>8, <1>10, LenProperties
  <2> DEFINE q == Len(Old(c))
  <2>2. q \in Nat /\ i \in 1..q + N /\ j \in 1..q + N
    BY <1>10, <2>1
  <2>3. CASE j <= q
    <3>1. i \in DOMAIN Old(c) /\ j \in DOMAIN Old(c) /\ i <= q
      BY <1>8, <1>12, <2>1, <2>2, <2>3
    <3> QED
      BY <1>10, <1>12, <2>1, <2>2, <2>3, <3>1 DEF IdsDiffer
  <2>4. CASE i <= q /\ ~(j <= q)
    <3>1. i \in DOMAIN Old(c) /\ j - q \in 1..N
      BY <1>8, <2>1, <2>2, <2>4
    <3>2. all[i] = Old(c)[i] /\ all[j] = new[j - q]
      BY <1>10, <2>1, <2>2, <2>4
    <3>3. all[j].id = M[at[j - q]].id /\ at[j - q] \in DOMAIN M
      BY <1>8, <3>1, <3>2 DEF Parsed
    <3>4. all[i] \in ToSet(Old(c))
      BY <3>1, <3>2 DEF ToSet
    <3> QED
      BY <1>12, <3>3, <3>4
  <2>5. CASE ~(i <= q)
    <3>1. i - q \in 1..N /\ j - q \in 1..N /\ i - q < j - q /\ ~(j <= q)
      BY <1>8, <1>12, <2>1, <2>2, <2>5
    <3>2. all[i] = new[i - q] /\ all[j] = new[j - q]
      BY <1>10, <2>1, <2>2, <2>5, <3>1
    <3>3. /\ all[i].id = M[at[i - q]].id /\ at[i - q] \in DOMAIN M
          /\ all[j].id = M[at[j - q]].id /\ at[j - q] \in DOMAIN M
      BY <1>8, <3>1, <3>2 DEF Parsed
    <3>4. at[i - q] < at[j - q]
      BY <1>7, <3>1
    <3>5. at[i - q] # at[j - q]
      BY <1>1, <3>3, <3>4
    <3> QED
      BY <1>12, <3>3, <3>5 DEF IdsDiffer
  <2> QED
    BY <2>3, <2>4, <2>5
<1>13. ASSUME IdsDiffer(Old(c)), IdsDiffer(M),
              \A m \in ToSet(Old(c)), n \in DOMAIN M : m.id # M[n].id
       PROVE  IdsDiffer(all)
  <2>1. DOMAIN all \subseteq Nat
    BY <1>10, LenProperties
  <2>2. \A i, j \in DOMAIN all : i # j => i < j \/ j < i
    BY <2>1
  <2> QED
    BY <1>12, <1>13, <2>2 DEF IdsDiffer
<1> QED
  BY <1>9, <1>10, <1>11, <1>13 DEF all, keep

-----------------------------------------------------------------------------
LEMMA TidyStays == [Next]_vars => records' = records /\ (Tidy <=> Tidy')
<1>1. [Next]_vars => records' = records
  BY DEF Next, vars, CollectNames, Resolve, DecodeChain, DecodeTopic, DecodeProfile, SkipRecord,
         NextRecord, Finish, Done
<1> QED
  BY <1>1 DEF Tidy, ChainRecords, RecordsOf, Profiles, Topics

LEMMA SeenRecords == OrderInv => Seen \subseteq records
<1> SUFFICES ASSUME OrderInv PROVE Seen \subseteq records
  OBVIOUS
<1>1. /\ Len(order) \in Nat /\ DOMAIN order = 1..Len(order) /\ Len(todo) \in Nat
      /\ \A i \in 1..Len(order) : order[i] \in records
  BY LenProperties, ElementOfSeq DEF OrderInv
<1> QED
  BY <1>1 DEF Seen

\* An entry is a message at its place in a record that was seen.
LEMMA EntryIs ==
  ASSUME OrderInv, NEW e \in Entries(Seen)
  PROVE  \E r \in Seen : \E i \in DOMAIN r.body.messages :
           /\ r \in records /\ Target(r) = "msg" /\ e = <<r, i>>
           /\ Of(e) = r.body.messages[i] /\ In(e) = Conversation(r.body.messages[i], r.body.conv)
BY SeenRecords DEF Entries, Of, In

LEMMA NextEntries ==
  ASSUME OrderInv, NEW target, NextRecord(target)
  PROVE  \A e : e \in Entries(Seen)' <=>
           \/ e \in Entries(Seen)
           \/ target = "msg" /\ \E i \in DOMAIN Head(todo).body.messages : e = <<Head(todo), i>>
<1>1. /\ Target(Head(todo)) = target
      /\ Seen' = Seen \cup {Head(todo)} /\ \A r : Target(r)' = Target(r)
  BY NextSeen
<1>2. \A e : e \in Entries(Seen)' <=>
               \E r \in Seen' : Target(r)' = "msg" /\ \E i \in DOMAIN r.body.messages : e = <<r, i>>
  BY DEF Entries
<1>3. \A e : e \in Entries(Seen) <=>
               \E r \in Seen : Target(r) = "msg" /\ \E i \in DOMAIN r.body.messages : e = <<r, i>>
  BY DEF Entries
<1> QED
  BY <1>1, <1>2, <1>3

LEMMA SeenUnchanged ==
  ASSUME UNCHANGED <<order, todo, cells>>
  PROVE  Seen' = Seen /\ Entries(Seen)' = Entries(Seen) /\ \A r : Target(r)' = Target(r)
BY DEF Seen, Entries, Target, IsObjectStoreData, HasPrefix

LEMMA ChainKeeps ==
  ASSUME OrderInv, NamesInv, CellInv, MessageInv, DecodeChain
  PROVE  MessageInv'
<1> DEFINE r == Head(todo)
           chain == r.body
<1>1. /\ NextRecord("msg") /\ messages' = Collected(chain)
      /\ records' = records
  BY DEF DecodeChain, NextRecord
<1>2. /\ r \in records /\ r \notin Seen /\ Target(r) = "msg"
      /\ pc = "decode" /\ pc' = "decode"
  BY <1>1, NextSeen
<1>3. chain.messages \in Seq(ToSet(chain.messages))
  BY <1>2, ChainFacts
<1>4. \A c \in DOMAIN messages : messages[c] \in Seq(ToSet(messages[c]))
  BY <1>2 DEF MessageInv
<1>5. \A e : e \in Entries(Seen)' <=>
           \/ e \in Entries(Seen)
           \/ \E i \in DOMAIN chain.messages : e = <<r, i>>
  BY <1>1, NextEntries
<1>6. \A i : Of(<<r, i>>) = chain.messages[i]
             /\ In(<<r, i>>) = Conversation(chain.messages[i], chain.conv)
  BY DEF Of, In
<1> HIDE DEF r, chain
<1>7. DOMAIN messages' = {In(e) : e \in Entries(Seen)'} \ {None}
  <2>1. DOMAIN messages = {In(e) : e \in Entries(Seen)} \ {None}
    BY <1>2 DEF MessageInv
  <2>2. DOMAIN messages' =
           (DOMAIN messages \cup
              {Conversation(chain.messages[n], chain.conv) : n \in DOMAIN chain.messages})
           \ {None}
    BY <1>1, CollectedDomain
  <2>3. ASSUME NEW n \in DOMAIN chain.messages
        PROVE  \E e \in Entries(Seen)' : In(e) = Conversation(chain.messages[n], chain.conv)
    <3>1. <<r, n>> \in Entries(Seen)'
      BY <1>5
    <3> QED
      BY <1>6, <3>1
  <2>4. ASSUME NEW e \in Entries(Seen)'
        PROVE  In(e) \in {In(x) : x \in Entries(Seen)} \cup
                 {Conversation(chain.messages[n], chain.conv) : n \in DOMAIN chain.messages}
    BY <1>5, <1>6
  <2>5. Entries(Seen) \subseteq Entries(Seen)'
    BY <1>5
  <2> QED
    BY <2>1, <2>2, <2>3, <2>4, <2>5
<1>8. ASSUME NEW c \in DOMAIN messages'
      PROVE  /\ messages'[c] \in Seq(ToSet(messages'[c]))
             /\ Tidy => IdsDiffer(messages'[c])
             /\ ToSet(messages'[c]) = {Parsed(Of(e)) : e \in {x \in Entries(Seen)' : In(x) = c}}
  <2> DEFINE all == Collected(chain)[c]
  <2>1. /\ all \in Seq(ToSet(all))
        /\ ToSet(all) = ToSet(Old(c)) \cup {Parsed(chain.messages[n]) : n \in Places(chain, c)}
        /\ /\ IdsDiffer(Old(c)) /\ IdsDiffer(chain.messages)
           /\ \A m \in ToSet(Old(c)), n \in DOMAIN chain.messages : m.id # chain.messages[n].id
           => IdsDiffer(all)
    BY <1>1, <1>3, <1>4, CollectedChain
  <2>2. all = messages'[c] /\ c # None
    BY <1>1, <1>7
  <2> HIDE DEF all
  <2>3. ToSet(Old(c)) = Held(Seen, c)
    <3>1. CASE c \in DOMAIN messages
      BY <1>2, <3>1 DEF Old, MessageInv
    <3>2. CASE c \notin DOMAIN messages
      <4>1. \A e \in Entries(Seen) : In(e) # c
        BY <1>2, <2>2, <3>2 DEF MessageInv
      <4> QED
        BY <3>2, <4>1, NoElements DEF Old, Held
    <3> QED
      BY <3>1, <3>2
  <2>4. ToSet(all) = {Parsed(Of(e)) : e \in {x \in Entries(Seen)' : In(x) = c}}
    <3>1. ASSUME NEW m \in ToSet(all)
          PROVE  m \in {Parsed(Of(e)) : e \in {x \in Entries(Seen)' : In(x) = c}}
      <4>1. CASE m \in Held(Seen, c)
        BY <1>5, <4>1 DEF Held
      <4>2. CASE m \in {Parsed(chain.messages[n]) : n \in Places(chain, c)}
        <5>1. PICK n \in DOMAIN chain.messages :
                /\ m = Parsed(chain.messages[n])
                /\ Conversation(chain.messages[n], chain.conv) = c
          BY <4>2 DEF Places
        <5>2. /\ <<r, n>> \in Entries(Seen)' /\ In(<<r, n>>) = c
              /\ m = Parsed(Of(<<r, n>>))
          BY <1>5, <1>6, <5>1
        <5> QED
          BY <5>2
      <4> QED
        BY <2>1, <2>3, <4>1, <4>2
    <3>2. ASSUME NEW e \in Entries(Seen)', In(e) = c PROVE Parsed(Of(e)) \in ToSet(all)
      <4>1. CASE e \in Entries(Seen)
        <5>1. Parsed(Of(e)) \in Held(Seen, c)
          BY <3>2, <4>1 DEF Held
        <5> QED
          BY <2>1, <2>3, <5>1
      <4>2. CASE e \notin Entries(Seen)
        <5>1. PICK n \in DOMAIN chain.messages : e = <<r, n>>
          BY <1>5, <3>2, <4>2
        <5>2. n \in Places(chain, c) /\ Of(e) = chain.messages[n]
          BY <1>6, <3>2, <5>1 DEF Places
        <5> QED
          BY <2>1, <5>2
      <4> QED
        BY <4>1, <4>2
    <3> QED
      BY <3>1, <3>2
  <2>5. ASSUME Tidy PROVE IdsDiffer(all)
    <3>1. \A s \in records : Target(s) = "msg" => s \in ChainRecords
      BY <1>2, <2>5, TargetExact
    <3>2. r \in ChainRecords
      BY <1>2, <3>1
    <3>3. IdsDiffer(Old(c))
      <4>1. CASE c \in DOMAIN messages
        BY <1>2, <2>5, <4>1 DEF Old, MessageInv
      <4>2. CASE c \notin DOMAIN messages
        BY <4>2 DEF Old, IdsDiffer
      <4> QED
        BY <4>1, <4>2
    <3>4. IdsDiffer(chain.messages)
      BY <2>5, <3>2 DEF Tidy, IdsDiffer, chain
    <3>5. ASSUME NEW m \in ToSet(Old(c)), NEW n \in DOMAIN chain.messages
          PROVE  m.id # chain.messages[n].id
      <4>1. PICK e \in Entries(Seen) : m = Parsed(Of(e))
        BY <2>3 DEF Held
      <4>2. PICK s \in Seen : \E i \in DOMAIN s.body.messages :
              /\ s \in records /\ Target(s) = "msg" /\ e = <<s, i>>
              /\ Of(e) = s.body.messages[i]
        BY EntryIs
      <4>3. PICK i \in DOMAIN s.body.messages : Of(e) = s.body.messages[i]
        BY <4>2
      <4>4. s \in ChainRecords /\ s # r
        BY <1>2, <3>1, <4>2
      <4>5. s.body.messages[i].id # chain.messages[n].id
        BY <2>5, <3>2, <4>3, <4>4 DEF Tidy, chain
      <4> QED
        BY <4>1, <4>3, <4>5 DEF Parsed
    <3> QED
      BY <2>1, <3>3, <3>4, <3>5
  <2> QED
    BY <2>1, <2>2, <2>4, <2>5
<1>9. Tidy' => Tidy
  BY TidyStays DEF Next
<1>10. \A c : Held(Seen, c)' = {Parsed(Of(e)) : e \in {x \in Entries(Seen)' : In(x) = c}}
  BY DEF Held
<1> QED
  BY <1>2, <1>7, <1>8, <1>9, <1>10 DEF MessageInv

LEMMA FinishKeeps ==
  ASSUME OrderInv, NamesInv, CellInv, MessageInv, Finish
  PROVE  MessageInv'
<1>1. /\ pc = "decode" /\ pc' = "done" /\ UNCHANGED <<records, order, todo, cells, names>>
      /\ messages' = [c \in DOMAIN messages |->
                        StableSort([n \in DOMAIN messages[c] |-> Renamed(messages[c][n])])]
  BY DEF Finish
<1>2. /\ Seen' = Seen /\ Entries(Seen)' = Entries(Seen)
      /\ \A c : Held(Seen, c)' = Held(Seen, c)
      /\ \A m : Renamed(m)' = Renamed(m)
  BY <1>1, SeenUnchanged DEF Held, Renamed, Named
<1>3. ASSUME NEW c \in DOMAIN messages
      PROVE  /\ messages'[c] \in Seq(ToSet(messages'[c]))
             /\ Tidy => IdsDiffer(messages'[c])
             /\ ToSet(messages'[c]) = Shows(Seen, c)
             /\ \A i, j \in DOMAIN messages'[c] :
                  i < j => messages'[c][i].time <= messages'[c][j].time
  <2> DEFINE s == messages[c]
             R == {Renamed(m) : m \in ToSet(s)}
             t == [n \in DOMAIN s |-> Renamed(s[n])]
             sorted == StableSort(t)
  <2>1. /\ s \in Seq(ToSet(s)) /\ ToSet(s) = Held(Seen, c) /\ (Tidy => IdsDiffer(s))
    BY <1>1 DEF MessageInv
  <2>2. messages'[c] = sorted
    BY <1>1
  <2> HIDE DEF s
  <2>3. /\ Len(s) \in Nat /\ DOMAIN s = 1..Len(s) /\ \A n \in DOMAIN s : s[n] \in ToSet(s)
    BY <2>1, LenProperties, OwnElements
  <2>4. t \in Seq(R) /\ DOMAIN t = DOMAIN s
    <3>1. t \in [1..Len(s) -> R]
      BY <2>3
    <3> QED
      BY <2>3, <3>1, SeqDef
  <2>5. \A n \in DOMAIN t : /\ t[n] = Renamed(s[n])
                            /\ t[n].id = s[n].id /\ t[n].time = s[n].time
    BY DEF Renamed
  <2> HIDE DEF R, t
  <2>6. \A n \in DOMAIN t : t[n].time \in Nat
    <3>1. SUFFICES ASSUME NEW n \in DOMAIN t PROVE s[n].time \in Nat
      BY <2>5
    <3>2. PICK e \in Entries(Seen) : s[n] = Parsed(Of(e))
      BY <2>1, <2>3, <2>4 DEF Held
    <3>3. PICK r \in Seen : \E i \in DOMAIN r.body.messages :
            r \in records /\ Target(r) = "msg" /\ Of(e) = r.body.messages[i]
      BY EntryIs
    <3>4. Of(e) \in ToSet(r.body.messages)
      BY <3>3 DEF ToSet
    <3>5. Time(Of(e)) \in Nat
      BY <3>3, <3>4, ChainFacts
    <3> QED
      BY <3>2, <3>5 DEF Parsed
  <2>7. sorted \in Seq(R) /\ Len(sorted) = Len(t) /\ SortsByTime(t, sorted)
    BY <2>4, <2>6, StableSortElements
  <2> HIDE DEF sorted
  <2>8. PICK at \in [DOMAIN t -> DOMAIN t] :
          /\ sorted = [n \in DOMAIN t |-> t[at[n]]]
          /\ \A p \in DOMAIN t : \E n \in DOMAIN t : at[n] = p
          /\ \A m, n \in DOMAIN t : m # n => at[m] # at[n]
          /\ \A m, n \in DOMAIN t : m < n => t[at[m]].time <= t[at[n]].time
    BY <2>7 DEF SortsByTime
  <2>9. DOMAIN sorted = DOMAIN t /\ \A n \in DOMAIN t : sorted[n] = t[at[n]]
    BY <2>8
  <2>10. sorted \in Seq(ToSet(sorted))
    BY <2>7, OwnElements
  <2>11. ToSet(sorted) = {Renamed(m) : m \in ToSet(s)}
    <3>1. ASSUME NEW x \in ToSet(sorted) PROVE x \in {Renamed(m) : m \in ToSet(s)}
      <4>1. PICK n \in DOMAIN t : x = t[at[n]]
        BY <2>9 DEF ToSet
      <4>2. at[n] \in DOMAIN t
        BY <2>8, <4>1
      <4> QED
        BY <2>3, <2>4, <2>5, <4>1, <4>2
    <3>2. ASSUME NEW m \in ToSet(s) PROVE Renamed(m) \in ToSet(sorted)
      <4>1. PICK p \in DOMAIN s : m = s[p]
        BY DEF ToSet
      <4>2. PICK n \in DOMAIN t : at[n] = p
        BY <2>4, <2>8, <4>1
      <4>3. sorted[n] = Renamed(m)
        BY <2>4, <2>5, <2>9, <4>1, <4>2
      <4> QED
        BY <2>9, <4>3 DEF ToSet
    <3> QED
      BY <3>1, <3>2
  <2>12. ASSUME Tidy PROVE IdsDiffer(sorted)
    <3>1. ASSUME NEW i \in DOMAIN sorted, NEW j \in DOMAIN sorted, i # j
          PROVE  sorted[i].id # sorted[j].id
      <4>1. /\ at[i] \in DOMAIN s /\ at[j] \in DOMAIN s /\ at[i] # at[j]
        BY <2>4, <2>8, <2>9, <3>1
      <4>2. s[at[i]].id # s[at[j]].id
        BY <2>1, <2>12, <4>1 DEF IdsDiffer
      <4> QED
        BY <2>4, <2>5, <2>9, <3>1, <4>1, <4>2
    <3> QED
      BY <3>1 DEF IdsDiffer
  <2>13. \A i, j \in DOMAIN sorted : i < j => sorted[i].time <= sorted[j].time
    BY <2>8, <2>9
  <2> QED
    BY <2>1, <2>2, <2>10, <2>11, <2>12, <2>13 DEF Shows
<1>4. DOMAIN messages' = {In(e) : e \in Entries(Seen)} \ {None} /\ DOMAIN messages' = DOMAIN messages
  BY <1>1 DEF MessageInv
<1>5. Tidy' => Tidy
  BY TidyStays DEF Next
<1>6. ASSUME NEW c \in DOMAIN messages'
      PROVE  /\ messages'[c] \in Seq(ToSet(messages'[c]))
             /\ Tidy' => IdsDiffer(messages'[c])
             /\ ToSet(messages'[c]) = Shows(Seen, c)'
             /\ \A i, j \in DOMAIN messages'[c] :
                  i < j => messages'[c][i].time <= messages'[c][j].time
  <2>1. Shows(Seen, c)' = Shows(Seen, c)
    BY <1>2 DEF Shows
  <2>2. c \in DOMAIN messages
    BY <1>4
  <2>3. /\ messages'[c] \in Seq(ToSet(messages'[c]))
        /\ Tidy => IdsDiffer(messages'[c])
        /\ ToSet(messages'[c]) = Shows(Seen, c)
        /\ \A i, j \in DOMAIN messages'[c] :
             i < j => messages'[c][i].time <= messages'[c][j].time
    BY <1>3, <2>2
  <2> QED
    BY <1>5, <2>1, <2>3
<1>7. DOMAIN messages' = {In(e) : e \in Entries(Seen)'} \ {None}
  BY <1>2, <1>4
<1>8. \A c \in DOMAIN messages' :
        /\ messages'[c] \in Seq(ToSet(messages'[c]))
        /\ Tidy' => IdsDiffer(messages'[c])
  BY <1>6
<1>9. \A c \in DOMAIN messages' :
        /\ ToSet(messages'[c]) = Shows(Seen, c)'
        /\ \A i, j \in DOMAIN messages'[c] :
             i < j => messages'[c][i].time <= messages'[c][j].time
  BY <1>6
<1>10. pc' # "names" /\ pc' # "decode"
  BY <1>1
<1> QED
  BY ONLY <1>7, <1>8, <1>9, <1>10 DEF MessageInv, IdsDiffer

LEMMA MessageStep ==
  OrderInv /\ NamesInv /\ CellInv /\ MessageInv /\ [Next]_vars => MessageInv'
<1> SUFFICES ASSUME OrderInv, NamesInv, CellInv, MessageInv, [Next]_vars PROVE MessageInv'
  OBVIOUS
<1>0. Tidy' => Tidy
  BY TidyStays
<1>1. CASE CollectNames
  BY <1>1 DEF CollectNames, MessageInv
<1>2. CASE Resolve
  <2>1. pc = "names" /\ pc' = "decode" /\ messages' = EmptyMap
    BY <1>2 DEF Resolve, MessageInv
  <2>2. Entries(Seen)' = {}
    BY <1>2, SeenBounds DEF Entries
  <2>3. DOMAIN EmptyMap = {}
    BY DEF EmptyMap
  <2> QED
    BY <2>1, <2>2, <2>3 DEF MessageInv
<1>3. CASE DecodeChain
  BY <1>3, ChainKeeps
<1>4. CASE DecodeTopic \/ DecodeProfile \/ SkipRecord
  <2>1. messages' = messages /\ pc = "decode" /\ pc' = "decode"
    BY <1>4 DEF DecodeTopic, DecodeProfile, SkipRecord, NextRecord
  <2>2. \E target : target # "msg" /\ NextRecord(target)
    BY <1>4 DEF DecodeTopic, DecodeProfile, SkipRecord
  <2>3. Entries(Seen)' = Entries(Seen)
    BY <2>2, NextEntries
  <2>4. \A c : Held(Seen, c)' = Held(Seen, c)
    BY <2>3 DEF Held
  <2> QED
    BY <1>0, <2>1, <2>3, <2>4 DEF MessageInv
<1>5. CASE Finish
  BY <1>5, FinishKeeps
<1>6. CASE Done \/ UNCHANGED vars
  <2>1. UNCHANGED <<records, order, todo, pc, cells, messages, names>>
    BY <1>6 DEF Done, vars
  <2>2. Entries(Seen)' = Entries(Seen)
    BY <2>1, SeenUnchanged
  <2>3. \A c : Held(Seen, c)' = Held(Seen, c) /\ Shows(Seen, c)' = Shows(Seen, c)
    BY <2>1, <2>2 DEF Shows, Held, Renamed, Named
  <2> QED
    BY <1>0, <2>1, <2>2, <2>3 DEF MessageInv
<1> QED
  BY <1>1, <1>2, <1>3, <1>4, <1>5, <1>6 DEF Next

-----------------------------------------------------------------------------
\* Someone is a sender of a chain if a message of theirs gives a name.
LEMMA SenderNamesChain ==
  ASSUME NEW chain, chain.messages \in Seq(ToSet(chain.messages)), NEW u
  PROVE  LET M == chain.messages
             all == SenderNames(chain)
         IN /\ u \in DOMAIN all <=>
                 \/ u \in DOMAIN names
                 \/ u # None /\ \E n \in DOMAIN M : M[n].creator = u /\ M[n].name # None
            /\ u \in DOMAIN names => all[u] = names[u]
            /\ u \in DOMAIN all /\ u \notin DOMAIN names =>
                 \E n \in DOMAIN M : /\ M[n].creator = u /\ M[n].name # None
                                     /\ all[u].name = M[n].name
<1> DEFINE M == chain.messages
           all == SenderNames(chain)
           sent(x) == {n \in DOMAIN M : M[n].creator = x /\ M[n].name # None}
           senders == {m.creator : m \in ToSet(M)} \ {None}
           first(x) == CHOOSE n \in sent(x) : \A k \in sent(x) : n <= k
<1>1. all = [x \in DOMAIN names \cup {y \in senders : sent(y) # {}} |->
               IF x \in DOMAIN names THEN names[x]
               ELSE [name |-> M[first(x)].name, source |-> "sender"]]
  BY DEF SenderNames
<1>2. sent(u) # {} => sent(u) \in SUBSET Nat
  BY LenProperties
<1>3. sent(u) # {} => first(u) \in sent(u)
  <2>1. ASSUME sent(u) # {} PROVE \E n \in sent(u) : \A k \in sent(u) : n <= k
    BY <1>2, <2>1, LeastNat
  <2> QED
    BY <2>1
<1>4. u \in senders /\ sent(u) # {} <=>
        u # None /\ \E n \in DOMAIN M : M[n].creator = u /\ M[n].name # None
  BY DEF ToSet
<1> HIDE DEF all, first, senders
<1>5. /\ u \in DOMAIN all <=> u \in DOMAIN names \/ (u \in senders /\ sent(u) # {})
      /\ u \in DOMAIN names => all[u] = names[u]
      /\ u \in DOMAIN all /\ u \notin DOMAIN names => all[u].name = M[first(u)].name
  BY <1>1
<1> QED
  BY <1>3, <1>4, <1>5 DEF all

LEMMA NextNames ==
  ASSUME OrderInv, NEW target, NextRecord(target), NEW u, NEW y
  PROVE  LET r == Head(todo)
         IN /\ y \in ProfiledNames(Seen, u)' <=>
                 \/ y \in ProfiledNames(Seen, u)
                 \/ target = "profile" /\ r.body.mri = u /\ y = r.body.name /\ y # None
            /\ y \in SenderNamesIn(Seen, u)' <=>
                 \/ y \in SenderNamesIn(Seen, u)
                 \/ /\ target = "msg"
                    /\ \E i \in DOMAIN r.body.messages :
                         /\ r.body.messages[i].creator = u
                         /\ y = r.body.messages[i].name /\ y # None
<1> DEFINE r == Head(todo)
<1>1. /\ Target(r) = target
      /\ Seen' = Seen \cup {r} /\ \A x : Target(x)' = Target(x)
  BY NextSeen
<1>2. \A e : e \in Entries(Seen)' <=>
               \/ e \in Entries(Seen)
               \/ target = "msg" /\ \E i \in DOMAIN r.body.messages : e = <<r, i>>
  BY NextEntries
<1>3. \A i : Of(<<r, i>>) = r.body.messages[i]
  BY DEF Of
<1> HIDE DEF r
<1>4. y \in ProfiledNames(Seen, u)' <=>
         y # None /\ \E x \in Seen' : Target(x)' = "profile" /\ x.body.mri = u /\ y = x.body.name
  BY DEF ProfiledNames
<1>5. y \in ProfiledNames(Seen, u) <=>
         y # None /\ \E x \in Seen : Target(x) = "profile" /\ x.body.mri = u /\ y = x.body.name
  BY DEF ProfiledNames
<1>6. y \in SenderNamesIn(Seen, u)' <=>
         y # None /\ \E e \in Entries(Seen)' : Of(e).creator = u /\ y = Of(e).name
  BY DEF SenderNamesIn
<1>7. y \in SenderNamesIn(Seen, u) <=>
         y # None /\ \E e \in Entries(Seen) : Of(e).creator = u /\ y = Of(e).name
  BY DEF SenderNamesIn
<1>8. y \in ProfiledNames(Seen, u)' <=>
         \/ y \in ProfiledNames(Seen, u)
         \/ target = "profile" /\ r.body.mri = u /\ y = r.body.name /\ y # None
  BY <1>1, <1>4, <1>5
<1>9. y \in SenderNamesIn(Seen, u)' <=>
         \/ y \in SenderNamesIn(Seen, u)
         \/ /\ target = "msg"
            /\ \E i \in DOMAIN r.body.messages :
                 /\ r.body.messages[i].creator = u
                 /\ y = r.body.messages[i].name /\ y # None
  BY <1>2, <1>3, <1>6, <1>7
<1> QED
  BY <1>8, <1>9 DEF r

\* What PeopleInv says of one person.
Knows(u) ==
  /\ u \in DOMAIN names <=>
       u # None /\ ProfiledNames(Seen, u) \cup SenderNamesIn(Seen, u) # {}
  /\ u \in DOMAIN names =>
       names[u].name \in IF ProfiledNames(Seen, u) # {} THEN ProfiledNames(Seen, u)
                         ELSE SenderNamesIn(Seen, u)

LEMMA PeopleStep ==
  OrderInv /\ NamesInv /\ CellInv /\ PeopleInv /\ [Next]_vars => PeopleInv'
<1> SUFFICES ASSUME OrderInv, NamesInv, CellInv, PeopleInv, [Next]_vars PROVE PeopleInv'
  OBVIOUS
<1>0. /\ pc # "names" => \A u : Knows(u)
      /\ pc' # "names" /\ (\A u : Knows(u)') => PeopleInv'
  BY DEF PeopleInv, Knows
<1>1. CASE CollectNames
  BY <1>1 DEF CollectNames, PeopleInv
<1>2. CASE Resolve
  <2>1. pc = "names" /\ pc' = "decode" /\ names' = EmptyMap
    BY <1>2 DEF Resolve, PeopleInv
  <2>2. Seen' = {} /\ Entries(Seen)' = {}
    BY <1>2, SeenBounds DEF Entries
  <2>3. \A u : ProfiledNames(Seen, u)' = {} /\ SenderNamesIn(Seen, u)' = {}
    BY <2>2 DEF ProfiledNames, SenderNamesIn
  <2>4. DOMAIN EmptyMap = {}
    BY DEF EmptyMap
  <2>5. ASSUME NEW u PROVE Knows(u)'
    BY <2>1, <2>3, <2>4 DEF Knows
  <2> QED
    BY <1>0, <2>1, <2>5
<1>3. CASE DecodeChain
  <2> DEFINE chain == Head(todo).body
  <2>1. NextRecord("msg") /\ names' = SenderNames(chain)
    BY <1>3 DEF DecodeChain
  <2>2. /\ Head(todo) \in records /\ Target(Head(todo)) = "msg" /\ pc # "names" /\ pc' # "names"
    BY <2>1, NextSeen
  <2>3. chain.messages \in Seq(ToSet(chain.messages))
    BY <2>2, ChainFacts
  <2>4. ASSUME NEW u PROVE Knows(u)'
    <3>1. /\ \A y : y \in ProfiledNames(Seen, u)' <=> y \in ProfiledNames(Seen, u)
          /\ \A y : y \in SenderNamesIn(Seen, u)' <=>
               \/ y \in SenderNamesIn(Seen, u)
               \/ \E i \in DOMAIN chain.messages :
                    chain.messages[i].creator = u /\ y = chain.messages[i].name /\ y # None
      BY <2>1, NextNames
    <3>2. /\ u \in DOMAIN names' <=>
               \/ u \in DOMAIN names
               \/ u # None /\ \E n \in DOMAIN chain.messages :
                                chain.messages[n].creator = u /\ chain.messages[n].name # None
          /\ u \in DOMAIN names => names'[u] = names[u]
          /\ u \in DOMAIN names' /\ u \notin DOMAIN names =>
               \E n \in DOMAIN chain.messages :
                 /\ chain.messages[n].creator = u /\ chain.messages[n].name # None
                 /\ names'[u].name = chain.messages[n].name
      BY <2>1, <2>3, SenderNamesChain
    <3> HIDE DEF chain
    <3>3. Knows(u) /\ ProfiledNames(Seen, u)' = ProfiledNames(Seen, u)
      BY <1>0, <2>2, <3>1
    <3>4. u \in DOMAIN names' <=>
            u # None /\ ProfiledNames(Seen, u)' \cup SenderNamesIn(Seen, u)' # {}
      BY <3>1, <3>2, <3>3 DEF Knows
    <3>5. CASE u \in DOMAIN names
      BY <3>1, <3>2, <3>3, <3>4, <3>5 DEF Knows
    <3>6. CASE u \notin DOMAIN names
      BY <3>1, <3>2, <3>3, <3>4, <3>6 DEF Knows
    <3> QED
      BY <3>5, <3>6
  <2> QED
    BY <1>0, <2>2, <2>4
<1>4. CASE DecodeProfile
  <2> DEFINE p == Head(todo).body
  <2>1. NextRecord("profile") /\ names' = ProfileName(p)
    BY <1>4 DEF DecodeProfile
  <2>2. pc # "names" /\ pc' # "names"
    BY <2>1, NextSeen
  <2>3. ASSUME NEW u PROVE Knows(u)'
    <3>1. /\ \A y : y \in SenderNamesIn(Seen, u)' <=> y \in SenderNamesIn(Seen, u)
          /\ \A y : y \in ProfiledNames(Seen, u)' <=>
               y \in ProfiledNames(Seen, u) \/ (p.mri = u /\ y = p.name /\ y # None)
      BY <2>1, NextNames
    <3> HIDE DEF p
    <3>2. Knows(u)
      BY <1>0, <2>2
    <3>3. CASE p.mri = None \/ p.name = None
      <4>1. names' = names
        BY <2>1, <3>3 DEF ProfileName
      <4>2. u # None => ProfiledNames(Seen, u)' = ProfiledNames(Seen, u)
        BY <3>1, <3>3
      <4>3. SenderNamesIn(Seen, u)' = SenderNamesIn(Seen, u)
        BY <3>1
      <4> QED
        BY <3>2, <4>1, <4>2, <4>3 DEF Knows
    <3>4. CASE p.mri # None /\ p.name # None
      <4>1. /\ DOMAIN names' = DOMAIN names \cup {p.mri}
            /\ names'[p.mri].name = p.name
            /\ \A x \in DOMAIN names : x # p.mri => names'[x] = names[x]
        BY <2>1, <3>4 DEF ProfileName, Insert
      <4>2. CASE u = p.mri
        BY <3>1, <3>4, <4>1, <4>2 DEF Knows
      <4>3. CASE u # p.mri
        <5>1. /\ SenderNamesIn(Seen, u)' = SenderNamesIn(Seen, u)
              /\ ProfiledNames(Seen, u)' = ProfiledNames(Seen, u)
          BY <3>1, <4>3
        <5> QED
          BY <3>2, <4>1, <4>3, <5>1 DEF Knows
      <4> QED
        BY <4>2, <4>3
    <3> QED
      BY <3>3, <3>4
  <2> QED
    BY <1>0, <2>2, <2>3
<1>5. CASE DecodeTopic \/ SkipRecord
  <2>1. names' = names /\ \E target : target # "msg" /\ target # "profile" /\ NextRecord(target)
    BY <1>5 DEF DecodeTopic, SkipRecord
  <2>2. pc # "names" /\ pc' # "names"
    BY <2>1, NextSeen
  <2>3. ASSUME NEW u PROVE Knows(u)'
    <3>1. /\ \A y : y \in SenderNamesIn(Seen, u)' <=> y \in SenderNamesIn(Seen, u)
          /\ \A y : y \in ProfiledNames(Seen, u)' <=> y \in ProfiledNames(Seen, u)
      BY <2>1, NextNames
    <3>2. /\ SenderNamesIn(Seen, u)' = SenderNamesIn(Seen, u)
          /\ ProfiledNames(Seen, u)' = ProfiledNames(Seen, u)
      BY <3>1
    <3>3. Knows(u)
      BY <1>0, <2>2
    <3> QED
      BY <2>1, <3>2, <3>3 DEF Knows
  <2> QED
    BY <1>0, <2>2, <2>3
<1>6. CASE Finish \/ Done \/ UNCHANGED vars
  <2>1. UNCHANGED <<order, todo, cells, names>> /\ (pc = "names" <=> pc' = "names")
    BY <1>6 DEF Finish, Done, vars
  <2>2. Seen' = Seen /\ Entries(Seen)' = Entries(Seen) /\ \A r : Target(r)' = Target(r)
    BY <2>1, SeenUnchanged
  <2>3. \A u : /\ ProfiledNames(Seen, u)' = ProfiledNames(Seen, u)
               /\ SenderNamesIn(Seen, u)' = SenderNamesIn(Seen, u)
    BY <2>2 DEF ProfiledNames, SenderNamesIn
  <2> QED
    BY <2>1, <2>3 DEF PeopleInv
<1> QED
  BY <1>1, <1>2, <1>3, <1>4, <1>5, <1>6 DEF Next

-----------------------------------------------------------------------------
LEMMA NextThreads ==
  ASSUME OrderInv, NEW target, NextRecord(target)
  PROVE  \A v : v \in Threads(Seen)' <=>
           \/ v \in Threads(Seen)
           \/ target = "conv" /\ v = Head(todo).body /\ Topical(v)
<1>1. /\ Target(Head(todo)) = target
      /\ Seen' = Seen \cup {Head(todo)} /\ \A x : Target(x)' = Target(x)
  BY NextSeen
<1>2. \A v : v \in Threads(Seen)' <=>
         \E x \in Seen' : Target(x)' = "conv" /\ Topical(x.body) /\ v = x.body
  BY DEF Threads
<1>3. \A v : v \in Threads(Seen) <=>
         \E x \in Seen : Target(x) = "conv" /\ Topical(x.body) /\ v = x.body
  BY DEF Threads
<1> QED
  BY <1>1, <1>2, <1>3

LEMMA TopicStep ==
  OrderInv /\ NamesInv /\ CellInv /\ TopicInv /\ [Next]_vars => TopicInv'
<1> SUFFICES ASSUME OrderInv, NamesInv, CellInv, TopicInv, [Next]_vars PROVE TopicInv'
  OBVIOUS
<1>0. Tidy' => Tidy
  BY TidyStays
<1>1. CASE CollectNames
  BY <1>1 DEF CollectNames, TopicInv
<1>2. CASE Resolve
  <2>1. pc = "names" /\ pc' = "decode" /\ topics' = EmptyMap
    BY <1>2 DEF Resolve, TopicInv
  <2>2. Threads(Seen)' = {}
    BY <1>2, SeenBounds DEF Threads
  <2>3. DOMAIN EmptyMap = {}
    BY DEF EmptyMap
  <2> QED
    BY <2>1, <2>2, <2>3 DEF TopicInv
<1>3. CASE DecodeTopic
  <2> DEFINE r == Head(todo)
             v == r.body
  <2>1. NextRecord("conv") /\ topics' = IF Topical(v) THEN Insert(topics, v.id, TopicOf(v)) ELSE topics
    BY <1>3 DEF DecodeTopic
  <2>2. r \in records /\ Target(r) = "conv" /\ pc # "names" /\ pc' # "names"
    BY <2>1, NextSeen
  <2>3. \A w : w \in Threads(Seen)' <=> w \in Threads(Seen) \/ (w = v /\ Topical(w))
    BY <2>1, NextThreads
  <2>4. /\ DOMAIN topics = {w.id : w \in Threads(Seen)}
        /\ Tidy => \A w \in Threads(Seen) : topics[w.id] = TopicOf(w)
    BY <2>2 DEF TopicInv
  <2>5. CASE ~Topical(v)
    <3>1. topics' = topics /\ Threads(Seen)' = Threads(Seen)
      BY <2>1, <2>3, <2>5
    <3> QED
      BY <1>0, <2>2, <2>4, <3>1 DEF TopicInv
  <2>6. CASE Topical(v)
    <3>1. /\ DOMAIN topics' = DOMAIN topics \cup {v.id}
          /\ topics'[v.id] = TopicOf(v)
          /\ \A x \in DOMAIN topics : x # v.id => topics'[x] = topics[x]
      BY <2>1, <2>6 DEF Insert
    <3>2. ASSUME Tidy, NEW w \in Threads(Seen), w.id = v.id PROVE w = v
      <4>1. \A x \in records : Target(x) = "conv" => x \in RecordsOf(ConvManager, ConvStores)
        BY <2>2, <3>2, TargetExact
      <4>2. PICK x \in Seen : Target(x) = "conv" /\ Topical(x.body) /\ w = x.body
        BY <3>2 DEF Threads
      <4>3. x \in RecordsOf(ConvManager, ConvStores) /\ r \in RecordsOf(ConvManager, ConvStores)
        BY <2>2, <4>1, <4>2, SeenRecords
      <4>4. w \in Topics /\ v \in Topics
        BY <2>6, <4>2, <4>3 DEF Topics, ConvManager, ConvStores
      <4> QED
        BY <3>2, <4>4 DEF Tidy
    <3> HIDE DEF v
    <3>3. DOMAIN topics' = {w.id : w \in Threads(Seen)'}
      BY <2>3, <2>4, <2>6, <3>1
    <3>4. ASSUME Tidy, NEW w \in Threads(Seen)' PROVE topics'[w.id] = TopicOf(w)
      <4>1. CASE w = v
        BY <3>1, <4>1
      <4>2. CASE w # v
        <5>1. w \in Threads(Seen) /\ w.id # v.id
          BY <2>3, <3>2, <3>4, <4>2
        <5> QED
          BY <2>4, <3>1, <3>4, <5>1
      <4> QED
        BY <4>1, <4>2
    <3> QED
      BY <1>0, <2>2, <3>3, <3>4 DEF TopicInv
  <2> QED
    BY <2>5, <2>6
<1>4. CASE DecodeChain \/ DecodeProfile \/ SkipRecord
  <2>1. topics' = topics /\ \E target : target # "conv" /\ NextRecord(target)
    BY <1>4 DEF DecodeChain, DecodeProfile, SkipRecord
  <2>2. pc # "names" /\ pc' # "names"
    BY <2>1, NextSeen
  <2>3. Threads(Seen)' = Threads(Seen)
    BY <2>1, NextThreads
  <2> QED
    BY <1>0, <2>1, <2>2, <2>3 DEF TopicInv
<1>5. CASE Finish \/ Done \/ UNCHANGED vars
  <2>1. UNCHANGED <<order, todo, cells, topics>> /\ (pc = "names" <=> pc' = "names")
    BY <1>5 DEF Finish, Done, vars
  <2>2. Seen' = Seen /\ \A r : Target(r)' = Target(r)
    BY <2>1, SeenUnchanged
  <2>3. Threads(Seen)' = Threads(Seen)
    BY <2>2 DEF Threads
  <2> QED
    BY <1>0, <2>1, <2>3 DEF TopicInv
<1> QED
  BY <1>1, <1>2, <1>3, <1>4, <1>5 DEF Next

-----------------------------------------------------------------------------
LEMMA InitBInv == Init => BInv
<1> SUFFICES ASSUME Init PROVE BInv
  OBVIOUS
<1>1. /\ records \in Worlds /\ order = <<>> /\ todo = <<>> /\ pc = "names"
      /\ databases = <<>> /\ stores = {}
      /\ cells = [conv |-> {}, profile |-> {}, msg |-> {}]
      /\ messages = EmptyMap /\ topics = EmptyMap /\ names = EmptyMap
  BY DEF Init
<1>2. OrderInv
  BY <1>1 DEF OrderInv
<1>3. NamesInv
  BY <1>1, NoElements DEF NamesInv
<1>4. CellInv /\ MessageInv /\ PeopleInv /\ TopicInv
  BY <1>1 DEF CellInv, MessageInv, PeopleInv, TopicInv
<1> QED
  BY <1>2, <1>3, <1>4 DEF BInv

\* Every reachable state of the build, whatever the records and their order, keeps the
\* invariant: what the tables, the messages, the topics and the names say is what the
\* records met so far say.
THEOREM BuildInvariance == Spec => []BInv
<1>1. BInv /\ [Next]_vars => BInv'
  BY OrderStep, NamesStep, CellStep, MessageStep, PeopleStep, TopicStep DEF BInv
<1> QED
  BY InitBInv, <1>1, PTL DEF Spec

-----------------------------------------------------------------------------
\* The records yet to be seen are the last ones of the order.
LEMMA TodoIsRest ==
  ASSUME OrderInv
  PROVE  \E k \in 0..Len(order) : todo = SubSeq(order, k + 1, Len(order))
<1> DEFINE k == Len(order) - Len(todo)
           rest == SubSeq(order, k + 1, Len(order))
<1>1. /\ Len(order) \in Nat /\ DOMAIN order = 1..Len(order)
      /\ Len(todo) \in Nat /\ DOMAIN todo = 1..Len(todo) /\ todo \in [1..Len(todo) -> records]
      /\ Len(todo) <= Len(order) /\ order \in Seq(records)
  BY LenProperties DEF OrderInv
<1>2. k \in 0..Len(order) /\ Len(order) - (k + 1) + 1 = Len(todo)
  BY <1>1
<1>3. rest = [i \in 1..Len(todo) |-> order[i + (k + 1) - 1]]
  BY <1>1, <1>2
<1>4. ASSUME NEW i \in 1..Len(todo) PROVE rest[i] = todo[i]
  <2>1. i + (k + 1) - 1 = k + i
    BY <1>1
  <2>2. todo[i] = order[k + i]
    BY DEF OrderInv
  <2> QED
    BY <1>3, <2>1, <2>2
<1>5. todo = [i \in 1..Len(todo) |-> todo[i]]
  BY <1>1
<1>6. rest = todo
  <2>1. DOMAIN rest = 1..Len(todo) /\ rest = [i \in 1..Len(todo) |-> rest[i]]
    BY <1>3
  <2> HIDE DEF rest
  <2> QED
    BY <1>4, <1>5, <2>1
<1> QED
  BY <1>2, <1>6

AtMostOne(T) == T = {} \/ \E x : T = {x}

LEMMA BTypes == BInv => TypeOK
<1> SUFFICES ASSUME BInv PROVE TypeOK
  OBVIOUS
<1>0. OrderInv /\ NamesInv /\ CellInv /\ MessageInv
  BY DEF BInv
<1>1. records \in Worlds /\ pc \in {"names", "decode", "done"}
  BY <1>0 DEF OrderInv
<1>2. ToSet(order) \subseteq records
  <2>1. \A i \in DOMAIN order : order[i] \in records
    BY <1>0, LenProperties, ElementOfSeq DEF OrderInv
  <2> QED
    BY <2>1 DEF ToSet
<1>3. \E k \in 0..Len(order) : todo = SubSeq(order, k + 1, Len(order))
  BY <1>0, TodoIsRest
<1>4. ASSUME NEW d \in ToSet(databases) PROVE d.manager \in STRING /\ d.id \in Nat
  <2> DEFINE D == {DatabaseOf(x) : x \in {y \in records : NamesDatabase(y)}}
  <2>1. databases \in Seq(D)
    BY <1>0 DEF NamesInv
  <2>2. d \in D
    <3>1. PICK i \in DOMAIN databases : d = databases[i]
      BY <1>4 DEF ToSet
    <3> HIDE DEF D
    <3> QED
      BY <2>1, <3>1, LenProperties, ElementOfSeq
  <2>3. PICK r \in records : NamesDatabase(r) /\ d = DatabaseOf(r)
    BY <2>2
  <2>4. d.manager = r.name /\ d.id = r.id /\ r.item = "database name" /\ r.name # None
    BY <2>3 DEF DatabaseOf, NamesDatabase
  <2>5. r.name \in STRING \cup {None} /\ r.id \in Nat
    BY <1>1, <2>4, RecordFacts
  <2>6. r.name \in STRING
    BY <2>4, <2>5, Zenon
  <2> QED
    BY <2>4, <2>5, <2>6, Zenon
<1>5. /\ AtMostOne(cells.conv) /\ AtMostOne(cells.profile)
      /\ cells.conv \cup cells.profile \cup cells.msg \subseteq {<<s.db, s.store>> : s \in stores}
  <2>1. CASE pc = "names"
    BY <1>0, <2>1 DEF CellInv, AtMostOne
  <2>2. CASE pc # "names"
    <3>1. /\ cells.msg = Cells(MsgManager, MsgStores)
          /\ cells.conv \in FoundIn(Cells(ConvManager, ConvStores))
          /\ cells.profile \in FoundIn(Cells(ProfileManager, ProfileStores))
      BY <1>0, <2>2 DEF CellInv
    <3>2. \A manager, wanted : Cells(manager, wanted) \subseteq {<<s.db, s.store>> : s \in stores}
      BY DEF Cells
    <3>3. ASSUME NEW S, NEW T \in FoundIn(S)
          PROVE  T \subseteq S /\ AtMostOne(T)
      BY DEF FoundIn, AtMostOne
    <3>4. cells.conv \subseteq Cells(ConvManager, ConvStores) /\ AtMostOne(cells.conv)
      BY <3>1, <3>3
    <3>6. /\ cells.profile \subseteq Cells(ProfileManager, ProfileStores)
          /\ AtMostOne(cells.profile)
      BY <3>1, <3>3
    <3>5. \A y \in cells.conv \cup cells.profile \cup cells.msg :
            y \in {<<s.db, s.store>> : s \in stores}
      BY <3>1, <3>2, <3>4, <3>6
    <3> QED
      BY <3>4, <3>5, <3>6
  <2> QED
    BY <2>1, <2>2
<1>6. Cardinality(cells.conv) <= 1 /\ Cardinality(cells.profile) <= 1
  <2>1. ASSUME NEW S, AtMostOne(S) PROVE Cardinality(S) <= 1
    <3>1. CASE S = {}
      BY <3>1, FS_EmptySet
    <3>2. CASE \E x : S = {x}
      <4>1. PICK x : S = {x}
        BY <3>2
      <4>2. Cardinality({x}) = 1
        BY FS_Singleton
      <4> QED
        BY <4>1, <4>2
    <3> QED
      BY <2>1, <3>1, <3>2 DEF AtMostOne
  <2> QED
    BY <1>5, <2>1
<1>7. ASSUME NEW c \in DOMAIN messages PROVE messages[c] # <<>>
  <2>1. CASE pc = "names"
    BY <1>0, <2>1 DEF MessageInv, EmptyMap
  <2>2. CASE pc # "names"
    <3>1. PICK e \in Entries(Seen) : In(e) = c
      BY <1>0, <2>2 DEF MessageInv
    <3>2. Parsed(Of(e)) \in Held(Seen, c)
      BY <3>1 DEF Held
    <3>3. pc = "decode" \/ pc = "done"
      BY <1>1, <2>2
    <3>4. ToSet(messages[c]) # {}
      <4>1. CASE pc = "decode"
        BY <1>0, <3>2, <4>1 DEF MessageInv
      <4>2. CASE pc = "done"
        <5>1. ToSet(messages[c]) = Shows(Seen, c)
          BY <1>0, <4>2 DEF MessageInv
        <5>2. Renamed(Parsed(Of(e))) \in Shows(Seen, c)
          BY <3>2 DEF Shows
        <5> QED
          BY <5>1, <5>2
      <4> QED
        BY <3>3, <4>1, <4>2
    <3> QED
      BY <3>4, NoElements
  <2> QED
    BY <2>1, <2>2
<1> QED
  BY <1>1, <1>2, <1>3, <1>4, <1>5, <1>6, <1>7 DEF TypeOK

\* The phases of the build happen in order, the tables are typed as the metadata
\* records are, and each cell looked for is a named store's.
THEOREM BuildType == Spec => []TypeOK
BY BuildInvariance, BTypes, PTL

\* At the end the entries are the messages of all the chains.
LEMMA AllEntries ==
  ASSUME BInv, pc = "done", Tidy
  PROVE  /\ Seen = records
         /\ \A e : e \in Entries(Seen) <=>
              \E r \in ChainRecords : \E i \in DOMAIN r.body.messages : e = <<r, i>>
<1>1. OrderInv /\ NamesInv /\ CellInv
  BY DEF BInv
<1>2. Seen = records
  BY <1>1, SeenBounds DEF OrderInv
<1>3. \A r \in records : Target(r) = "msg" <=> r \in ChainRecords
  BY <1>1, TargetExact
<1>4. ChainRecords \subseteq records
  BY DEF ChainRecords, RecordsOf
<1>5. \A e : e \in Entries(Seen) <=>
              \E r \in Seen : Target(r) = "msg" /\ \E i \in DOMAIN r.body.messages : e = <<r, i>>
  BY DEF Entries
<1> QED
  BY <1>2, <1>3, <1>4, <1>5

LEMMA BMessages == BInv => MessagesExact
<1> SUFFICES ASSUME BInv, pc = "done", Tidy
             PROVE  /\ \A c \in DOMAIN messages :
                         /\ {m.id : m \in ToSet(messages[c])} = ExpectedIds(c)
                         /\ Len(messages[c]) = Cardinality(ExpectedIds(c))
                         /\ \A p, q \in DOMAIN messages[c] :
                              p < q => messages[c][p].time <= messages[c][q].time
                    /\ \A b \in Chains : \A x \in ToSet(b.messages) :
                         Conversation(x, b.conv) \in DOMAIN messages \cup {None}
  BY DEF MessagesExact
<1>1. MessageInv
  BY DEF BInv
<1>2. \A e : e \in Entries(Seen) <=>
         \E r \in ChainRecords : \E i \in DOMAIN r.body.messages : e = <<r, i>>
  BY AllEntries
<1>3. \A r, i : /\ Of(<<r, i>>) = r.body.messages[i]
                /\ In(<<r, i>>) = Conversation(r.body.messages[i], r.body.conv)
  BY DEF Of, In
<1>4. ASSUME NEW c \in DOMAIN messages
      PROVE  {m.id : m \in ToSet(messages[c])} = ExpectedIds(c)
  <2>1. ToSet(messages[c]) = {Renamed(m) : m \in Held(Seen, c)}
    BY <1>1, <1>4 DEF MessageInv, Shows
  <2>2. \A e : Renamed(Parsed(Of(e))).id = Of(e).id
    BY DEF Renamed, Parsed
  <2>3. ASSUME NEW m \in ToSet(messages[c]) PROVE m.id \in ExpectedIds(c)
    <3>1. PICK e \in Entries(Seen) : In(e) = c /\ m = Renamed(Parsed(Of(e)))
      BY <2>1 DEF Held
    <3>2. PICK r \in ChainRecords : \E i \in DOMAIN r.body.messages : e = <<r, i>>
      BY <1>2
    <3>3. PICK i \in DOMAIN r.body.messages : e = <<r, i>>
      BY <3>2
    <3> DEFINE x == r.body.messages[i]
    <3>4. x \in ToSet(r.body.messages) /\ Conversation(x, r.body.conv) = c /\ m.id = x.id
      BY <1>3, <2>2, <3>1, <3>3 DEF ToSet
    <3>5. r.body \in Chains
      BY DEF Chains
    <3> QED
      BY <3>4, <3>5 DEF ExpectedIds
  <2>4. ASSUME NEW y \in ExpectedIds(c) PROVE \E m \in ToSet(messages[c]) : m.id = y
    <3>1. PICK r \in ChainRecords : \E x \in ToSet(r.body.messages) :
            Conversation(x, r.body.conv) = c /\ x.id = y
      BY <2>4 DEF ExpectedIds, Chains
    <3>2. PICK i \in DOMAIN r.body.messages :
            Conversation(r.body.messages[i], r.body.conv) = c /\ r.body.messages[i].id = y
      BY <3>1 DEF ToSet
    <3>3. <<r, i>> \in Entries(Seen) /\ In(<<r, i>>) = c /\ Of(<<r, i>>).id = y
      BY <1>2, <1>3, <3>2
    <3>4. Parsed(Of(<<r, i>>)) \in Held(Seen, c)
      BY <3>3 DEF Held
    <3> QED
      BY <2>1, <2>2, <3>3, <3>4
  <2> QED
    BY <2>3, <2>4
<1>5. ASSUME NEW c \in DOMAIN messages PROVE Len(messages[c]) = Cardinality(ExpectedIds(c))
  <2>1. messages[c] \in Seq(ToSet(messages[c])) /\ IdsDiffer(messages[c])
    BY <1>1, <1>5 DEF MessageInv
  <2>2. Len(messages[c]) = Cardinality({m.id : m \in ToSet(messages[c])})
    BY <2>1, DistinctIds DEF IdsDiffer
  <2> QED
    BY <1>4, <1>5, <2>2
<1>6. ASSUME NEW b \in Chains, NEW x \in ToSet(b.messages)
      PROVE  Conversation(x, b.conv) \in DOMAIN messages \cup {None}
  <2>1. PICK r \in ChainRecords : b = r.body
    BY <1>6 DEF Chains
  <2>2. PICK i \in DOMAIN b.messages : x = b.messages[i]
    BY <1>6 DEF ToSet
  <2>3. <<r, i>> \in Entries(Seen) /\ In(<<r, i>>) = Conversation(x, b.conv)
    BY <1>2, <1>3, <2>1, <2>2
  <2> QED
    BY <1>1, <2>3 DEF MessageInv
<1> QED
  BY <1>1, <1>4, <1>5, <1>6 DEF MessageInv

\* From a tidy directory the cache holds each message of both message stores once,
\* in its conversation and in time order, for every order of the records.
THEOREM MessagesComplete == Spec => []MessagesExact
BY BuildInvariance, BMessages, PTL

LEMMA BTopics == BInv => TopicsExact
<1> SUFFICES ASSUME BInv, pc = "done", Tidy
             PROVE  /\ DOMAIN topics = {b.id : b \in Topics}
                    /\ \A b \in Topics :
                         /\ b.topic # None => topics[b.id] = b.topic
                         /\ b.topic = None /\ b.long # None => topics[b.id] = b.long
                         /\ {b.topic, b.long} = {None} =>
                              topics[b.id] = IF b.short # None THEN b.short ELSE b.id
  BY DEF TopicsExact
<1>1. OrderInv /\ NamesInv /\ CellInv /\ TopicInv
  BY DEF BInv
<1>2. Seen = records
  BY AllEntries
<1>3. \A r \in records : Target(r) = "conv" <=> r \in RecordsOf(ConvManager, ConvStores)
  BY <1>1, TargetExact
<1>4. Threads(Seen) = Topics
  <2>1. RecordsOf(ConvManager, ConvStores) \subseteq records
    BY DEF RecordsOf
  <2>2. \A v : v \in Threads(Seen) <=>
               \E x \in records : Target(x) = "conv" /\ Topical(x.body) /\ v = x.body
    BY <1>2 DEF Threads
  <2>3. \A v : v \in Topics <=>
               \E x \in RecordsOf(ConvManager, ConvStores) : Topical(x.body) /\ v = x.body
    BY DEF Topics, ConvManager, ConvStores
  <2> QED
    BY <1>3, <2>1, <2>2, <2>3
<1>5. /\ DOMAIN topics = {v.id : v \in Topics}
      /\ \A v \in Topics : topics[v.id] = TopicOf(v)
  BY <1>1, <1>4 DEF TopicInv
<1>6. ASSUME NEW v \in Topics
      PROVE  /\ v.topic # None => TopicOf(v) = v.topic
             /\ v.topic = None /\ v.long # None => TopicOf(v) = v.long
             /\ {v.topic, v.long} = {None} =>
                  TopicOf(v) = IF v.short # None THEN v.short ELSE v.id
  <2>1. v.id # None
    BY <1>6 DEF Topics, Topical
  <2>2. TopicOf(v) = IF v.topic # None THEN v.topic ELSE IF v.long # None THEN v.long
                     ELSE IF v.short # None THEN v.short ELSE v.id
    BY <2>1, FirstOfFour DEF TopicOf
  <2>3. {v.topic, v.long} = {None} => v.topic = None /\ v.long = None
    OBVIOUS
  <2> QED
    BY <2>2, <2>3
<1> QED
  BY <1>5, <1>6

\* From a tidy directory the threads of the conversation store, and they alone, have a
\* topic: their own name, else their long title, even an empty one, else the short one,
\* else the id.
THEOREM TopicsComplete == Spec => []TopicsExact
BY BuildInvariance, BTopics, PTL

LEMMA BNames == BInv => NamesExact
<1> SUFFICES ASSUME BInv, pc = "done", Tidy, NEW x \in Messages, NEW u \in x.users
             PROVE  /\ ProfileNames(u) \subseteq Shown(x.id)
                    /\ ProfileNames(u) = {} /\ SentNames(u) # {}
                         => SentNames(u) \cap Shown(x.id) # {}
  BY DEF NamesExact
<1>1. OrderInv /\ NamesInv /\ CellInv /\ MessageInv /\ PeopleInv
  BY DEF BInv
<1>2. /\ Seen = records
      /\ \A e : e \in Entries(Seen) <=>
           \E r \in ChainRecords : \E i \in DOMAIN r.body.messages : e = <<r, i>>
  BY AllEntries
<1>3. \A r \in records : /\ Target(r) = "msg" <=> r \in ChainRecords
                         /\ Target(r) = "profile" <=> r \in RecordsOf(ProfileManager, ProfileStores)
  BY <1>1, TargetExact
<1>4. \A r, i : Of(<<r, i>>) = r.body.messages[i]
  BY DEF Of
<1>5. PICK r \in ChainRecords : \E i \in DOMAIN r.body.messages : x = r.body.messages[i]
  BY DEF Messages, Chains, ToSet
<1>6. PICK i \in DOMAIN r.body.messages : x = r.body.messages[i]
  BY <1>5
<1>7. u # None
  <2>1. r \in records
    BY DEF ChainRecords, RecordsOf
  <2>2. x \in ToSet(r.body.messages)
    BY <1>6 DEF ToSet
  <2>3. None \notin x.users
    BY <1>1, <1>3, <2>1, <2>2, ChainFacts
  <2> QED
    BY <2>3
<1>8. Named(u) \in Shown(x.id)
  <2>1. PICK c \in DOMAIN messages : \E m \in ToSet(messages[c]) : m.id = x.id
    BY DEF Messages
  <2>2. PICK m \in ToSet(messages[c]) : m.id = x.id
    BY <2>1
  <2>3. PICK e \in Entries(Seen) : m = Renamed(Parsed(Of(e)))
    BY <1>1, <2>2 DEF MessageInv, Shows, Held
  <2>4. PICK s \in ChainRecords : \E j \in DOMAIN s.body.messages : e = <<s, j>>
    BY <1>2
  <2>5. PICK j \in DOMAIN s.body.messages : e = <<s, j>>
    BY <2>4
  <2>6. m.id = s.body.messages[j].id /\ m.users = {Named(w) : w \in s.body.messages[j].users}
    BY <1>4, <2>3, <2>5 DEF Renamed, Parsed
  <2>7. s.body.messages[j] = x
    <3>1. r.body.messages[i].id = s.body.messages[j].id
      BY <1>6, <2>2, <2>6
    <3>2. r = s /\ i = j
      BY <1>6, <2>5, <3>1 DEF Tidy
    <3> QED
      BY <1>6, <3>2
  <2>8. Named(u) \in m.users
    BY <2>6, <2>7
  <2> QED
    BY <2>2, <2>8 DEF Shown
<1>9. \A n : n \in ProfiledNames(Seen, u) <=> n \in ProfileNames(u)
  <2>1. RecordsOf(ProfileManager, ProfileStores) \subseteq records
    BY DEF RecordsOf
  <2>2. \A n : n \in ProfiledNames(Seen, u) <=>
               /\ n # None
               /\ \E p \in records : Target(p) = "profile" /\ p.body.mri = u /\ n = p.body.name
    BY <1>2 DEF ProfiledNames
  <2>3. \A n : n \in ProfileNames(u) <=>
               \E p \in RecordsOf(ProfileManager, ProfileStores) :
                 p.body.mri # None /\ p.body.name # None /\ p.body.mri = u /\ n = p.body.name
    BY DEF ProfileNames, Profiles, ProfileManager, ProfileStores
  <2> QED
    BY <1>3, <1>7, <2>1, <2>2, <2>3
<1>10. \A n : n \in SenderNamesIn(Seen, u) <=> n \in SentNames(u)
  <2>1. \A n : n \in SenderNamesIn(Seen, u) <=>
               n # None /\ \E e \in Entries(Seen) : Of(e).creator = u /\ n = Of(e).name
    BY DEF SenderNamesIn
  <2>2. \A n : n \in SentNames(u) <=>
               /\ n # None
               /\ \E s \in ChainRecords : \E j \in DOMAIN s.body.messages :
                    s.body.messages[j].creator = u /\ n = s.body.messages[j].name
    BY DEF SentNames, Chains, ToSet
  <2>3. ASSUME NEW n, NEW e \in Entries(Seen), Of(e).creator = u, n = Of(e).name
        PROVE  \E s \in ChainRecords : \E j \in DOMAIN s.body.messages :
                 s.body.messages[j].creator = u /\ n = s.body.messages[j].name
    <3>1. PICK s \in ChainRecords : \E j \in DOMAIN s.body.messages : e = <<s, j>>
      BY <1>2
    <3> QED
      BY <1>4, <2>3, <3>1
  <2>4. ASSUME NEW n, NEW s \in ChainRecords, NEW j \in DOMAIN s.body.messages,
               s.body.messages[j].creator = u, n = s.body.messages[j].name
        PROVE  \E e \in Entries(Seen) : Of(e).creator = u /\ n = Of(e).name
    <3>1. <<s, j>> \in Entries(Seen) /\ Of(<<s, j>>) = s.body.messages[j]
      BY <1>2, <1>4
    <3> QED
      BY <2>4, <3>1
  <2> QED
    BY <2>1, <2>2, <2>3, <2>4
<1>11. Knows(u)
  BY <1>1 DEF PeopleInv, Knows
<1>12. ASSUME NEW n \in ProfileNames(u) PROVE n = Named(u)
  <2>1. \A k \in ProfileNames(u) : k = n
    <3>1. \A p, q \in Profiles : p.mri = q.mri => p = q
      BY DEF Tidy
    <3> QED
      BY <1>12, <3>1 DEF ProfileNames
  <2>2. u \in DOMAIN names /\ names[u].name \in ProfiledNames(Seen, u)
    BY <1>7, <1>9, <1>11, <1>12 DEF Knows
  <2> QED
    BY <1>9, <2>1, <2>2 DEF Named
<1>13. ASSUME ProfileNames(u) = {}, SentNames(u) # {} PROVE Named(u) \in SentNames(u)
  <2>1. ProfiledNames(Seen, u) = {} /\ SenderNamesIn(Seen, u) # {}
    BY <1>9, <1>10, <1>13
  <2>2. u \in DOMAIN names /\ names[u].name \in SenderNamesIn(Seen, u)
    BY <1>7, <1>11, <2>1 DEF Knows
  <2> QED
    BY <1>10, <2>2 DEF Named
<1> QED
  BY <1>8, <1>12, <1>13

\* From a tidy directory a reaction shows a person by the profile's name, even an empty
\* one, wherever the profile comes among the records, or, without a profile that has a
\* display name, by a name they sent.
THEOREM NamesComplete == Spec => []NamesExact
BY BuildInvariance, BNames, PTL
=============================================================================
