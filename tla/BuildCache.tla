----------------------------- MODULE BuildCache -----------------------------
(***************************************************************************)
(* build_cache of crates/teams-core/src/teams.rs, from the map read_dir    *)
(* returns to the cache: find the databases and object stores by name,     *)
(* decode the records of those stores, name the people in reactions, sort. *)
(*                                                                         *)
(* The map is a HashMap: its records come in an arbitrary order, the same  *)
(* in both passes.  A record is abstracted to its key prefix <<database,   *)
(* store, index>>, what follows it (item), and what idb.rs and v8.rs make  *)
(* of the rest: a name that cannot be decoded, a field that is missing or  *)
(* no string, and a body V8Reader::decode gives up on are None.  An empty  *)
(* text is None only where the code drops empty ones: conversationId,      *)
(* imDisplayName, threadProperties.topic.  In displayName, longTitle and   *)
(* shortTitle it is a text like any other.                                 *)
(***************************************************************************)
EXTENDS Naturals, FiniteSets, SequencesExt, Slices

CONSTANTS
  Worlds,     \* the sets of records a directory may hold
  None        \* an absent field (above), an undecodable value

\* Keys are a database, a store and an index, or too short to be; names are texts;
\* what a store of messages holds has messages, and these have times and reactions.
ASSUME BuildCacheAssumption ==
  /\ None \notin Nat
  /\ \A world \in Worlds : \A r \in world :
       /\ r.key \in Nat \X Nat \X Nat \/ r.key = None
       /\ r.item = "database name" => r.name \in STRING \cup {None} /\ r.id \in Nat
       /\ \A s \in world :
            /\ s.item = "store name" /\ s.name \in {"replychains", "replychains-2"}
            /\ r.key # None /\ s.key # None /\ r.key[1] = s.key[1] /\ r.key[2] = s.id
            /\ r.key[3] = 1 /\ r.body # None
            => /\ r.body.messages \in Seq(ToSet(r.body.messages))
               /\ \A m \in ToSet(r.body.messages) :
                    {m.arrival, m.idTime, m.client} \subseteq Nat \cup {None} /\ None \notin m.users

VARIABLES
  records,    \* the records of the map (one of Worlds)
  order,      \* those iterated so far by the first pass
  todo,       \* those the second pass has yet to see
  pc,         \* "names", "decode", "done"
  databases,  \* Vec of [manager, id]
  stores,     \* store_names: set of [db, store, name]
  cells,      \* the resolved cells: [conv, profile, msg]
  messages,   \* messages_by_conv: conversation -> sequence of messages
  topics,     \* topic_by_conv: conversation -> topic
  names       \* name_by_mri: mri -> [name, source]

vars == <<records, order, todo, pc, databases, stores, cells, messages, topics,
          names>>

\* HashMap::insert, and entry().or_insert
Insert(f, x, y) == [z \in DOMAIN f \cup {x} |-> IF z = x THEN y ELSE f[z]]
InsertNew(f, x, y) == IF x \in DOMAIN f THEN f ELSE Insert(f, x, y)
EmptyMap == [z \in {} |-> 0]

Init ==
  /\ records \in Worlds
  /\ order = <<>> /\ todo = <<>> /\ pc = "names"
  /\ databases = <<>> /\ stores = {}
  /\ cells = [conv |-> {}, profile |-> {}, msg |-> {}]
  /\ messages = EmptyMap /\ topics = EmptyMap /\ names = EmptyMap

-----------------------------------------------------------------------------
\* KeyPrefix::parse: a key too short for the lengths its first byte gives has none.
HasPrefix(r) == r.key # None

IsGlobalMeta(r) == r.key = <<0, 0, 0>>
IsDatabaseMeta(r) == HasPrefix(r) /\ r.key[1] # 0 /\ r.key[2] = 0 /\ r.key[3] = 0
IsObjectStoreData(r) == HasPrefix(r) /\ r.key[3] = 1

\* parse_database_name, parse_object_store_name: whether they return anything.
NamesDatabase(r) == IsGlobalMeta(r) /\ r.item = "database name" /\ r.name # None
NamesStore(r) == IsDatabaseMeta(r) /\ r.item = "store name" /\ r.name # None

\* Pass 1.
CollectNames ==
  /\ pc = "names"
  /\ \E r \in records \ ToSet(order) :
       /\ order' = Append(order, r)
       /\ databases' = IF NamesDatabase(r)
                       THEN Append(databases, [manager |-> r.name, id |-> r.id])
                       ELSE databases
       /\ stores' = IF NamesStore(r)
                    THEN {s \in stores : <<s.db, s.store>> # <<r.key[1], r.id>>}
                      \cup {[db |-> r.key[1], store |-> r.id, name |-> r.name]}
                    ELSE stores
  /\ UNCHANGED <<records, todo, pc, cells, messages, topics, names>>

\* A wrong Database: a name that merely looks like the manager's is taken too.
DatabaseLike(manager) ==
  LET alike == IF manager = "conversation-manager"
                THEN {manager, "conversation-folder-manager"} ELSE {manager}
      at == {n \in DOMAIN databases : databases[n].manager \in alike}
  IN {databases[n].id : n \in {m \in at : \A k \in at : m <= k}}

\* find_db_by_manager: the first database met, as a set of at most one id.
Database(manager) ==
  LET at == {n \in DOMAIN databases : databases[n].manager = manager}
  IN {databases[n].id : n \in {m \in at : \A k \in at : m <= k}}

\* The object stores of that database that have one of these names.
Cells(manager, wanted) ==
  {<<s.db, s.store>> : s \in {x \in stores : /\ x.db \in Database(manager)
                                             /\ x.name \in wanted}}

\* A wrong FoundIn: a default cell when there is none.
FoundOrDefault(S) == IF S = {} THEN {{<<0, 0>>}} ELSE {{x} : x \in S}

\* Iterator::find on store_names: any one of them, none if there is none.
FoundIn(S) == IF S = {} THEN {{}} ELSE {{x} : x \in S}

\* A wrong MessageCells: find, as for the other stores, instead of filter.
FirstMessageCell ==
  FoundIn(Cells("replychain-manager", {"replychains", "replychains-2"}))

\* All message stores of the database.
MessageCells == {Cells("replychain-manager", {"replychains", "replychains-2"})}

Resolve ==
  /\ pc = "names" /\ ToSet(order) = records
  /\ \E conv \in FoundIn(Cells("conversation-manager", {"conversations"})),
        profile \in FoundIn(Cells("profiles", {"profiles"})),
        msg \in MessageCells :
       cells' = [conv |-> conv, profile |-> profile, msg |-> msg]
  /\ todo' = order /\ pc' = "decode"
  /\ UNCHANGED <<records, order, databases, stores, messages, topics, names>>

-----------------------------------------------------------------------------
\* The first of some fields that is there (Option::or_else), empty or not.
FirstGiven(fields) ==
  fields[CHOOSE i \in DOMAIN fields :
           fields[i] # None /\ \A j \in 1..(i - 1) : fields[j] = None]

\* parse_message: conversation and time fall back field by field.
Conversation(m, fallback) == IF m.conv # None THEN m.conv ELSE fallback
Time(m) == FirstGiven(<<m.arrival, m.idTime, m.client, 0>>)

Parsed(m) == [id |-> m.id, time |-> Time(m), users |-> m.users]

\* collect_messages: messages are appended to their conversation ...
Collected(chain) ==
  LET conv == [n \in DOMAIN chain.messages |-> Conversation(chain.messages[n], chain.conv)]
      parsed == [n \in DOMAIN conv |-> Parsed(chain.messages[n])]
      old(c) == IF c \in DOMAIN messages THEN messages[c] ELSE <<>>
  IN [c \in (DOMAIN messages \cup ToSet(conv)) \ {None} |->
        old(c) \o Kept(parsed, {n \in DOMAIN conv : conv[n] = c})]

\* ... and sender names kept for mris that have none yet.
SenderNames(chain) ==
  LET sent(u) == {n \in DOMAIN chain.messages : /\ chain.messages[n].creator = u
                                                /\ chain.messages[n].name # None}
      senders == {m.creator : m \in ToSet(chain.messages)} \ {None}
      first(u) == CHOOSE n \in sent(u) : \A k \in sent(u) : n <= k
  IN [u \in DOMAIN names \cup {x \in senders : sent(x) # {}} |->
        IF u \in DOMAIN names THEN names[u]
        ELSE [name |-> chain.messages[first(u)].name, source |-> "sender"]]

\* A wrong ProfileName: the first name met stays.
ProfileNameIfNew(p) ==
  IF p.mri = None \/ p.name = None THEN names
  ELSE InsertNew(names, p.mri, [name |-> p.name, source |-> "profile"])

\* A profile overrides what senders called themselves, with an empty name too.
ProfileName(p) ==
  IF p.mri = None \/ p.name = None THEN names
  ELSE Insert(names, p.mri, [name |-> p.name, source |-> "profile"])

\* extract_topic: only threads have one, by their own name, a title, or the id.  An
\* empty title is a title: an empty long one hides the short one.
TopicOf(v) == FirstGiven(<<v.topic, v.long, v.short, v.id>>)
Topical(v) == v.id # None /\ v.thread

\* Which of the target cells a decodable record belongs to.
Target(r) ==
  IF ~IsObjectStoreData(r) \/ r.body = None THEN "none"
  ELSE LET cell == <<r.key[1], r.key[2]>>
       IN IF cell \in cells.msg THEN "msg"
          ELSE IF cell \in cells.conv THEN "conv"
          ELSE IF cell \in cells.profile THEN "profile" ELSE "none"

NextRecord(target) ==
  /\ pc = "decode" /\ todo # <<>> /\ Target(Head(todo)) = target
  /\ todo' = Tail(todo)
  /\ UNCHANGED <<records, order, pc, databases, stores, cells>>

\* Pass 2, record by record.
DecodeChain ==
  /\ NextRecord("msg")
  /\ messages' = Collected(Head(todo).body)
  /\ names' = SenderNames(Head(todo).body)
  /\ UNCHANGED topics

DecodeTopic ==
  /\ NextRecord("conv")
  /\ LET v == Head(todo).body
     IN topics' = IF Topical(v) THEN Insert(topics, v.id, TopicOf(v)) ELSE topics
  /\ UNCHANGED <<messages, names>>

DecodeProfile ==
  /\ NextRecord("profile")
  /\ names' = ProfileName(Head(todo).body)
  /\ UNCHANGED <<messages, topics>>

SkipRecord ==
  /\ NextRecord("none")
  /\ UNCHANGED <<messages, topics, names>>

\* Pass 3: mris in reactions become names; the messages of a conversation are
\* sorted by time, equal times staying in the order they were met.
Named(u) == IF u \in DOMAIN names THEN names[u].name ELSE u
Renamed(m) == [id |-> m.id, time |-> m.time, users |-> {Named(u) : u \in m.users}]

Finish ==
  /\ pc = "decode" /\ todo = <<>>
  /\ messages' = [c \in DOMAIN messages |->
                    StableSort([n \in DOMAIN messages[c] |-> Renamed(messages[c][n])])]
  /\ pc' = "done"
  /\ UNCHANGED <<records, order, todo, databases, stores, cells, topics, names>>

Done == pc = "done" /\ UNCHANGED vars

Next == CollectNames \/ Resolve \/ DecodeChain \/ DecodeTopic \/ DecodeProfile
          \/ SkipRecord \/ Finish \/ Done

Spec == Init /\ [][Next]_vars

-----------------------------------------------------------------------------
(* Properties *)

\* The phases happen in order, and the cells are cells of named stores.
TypeOK ==
  /\ records \in Worlds /\ pc \in {"names", "decode", "done"}
  /\ ToSet(order) \subseteq records
  /\ \E k \in 0..Len(order) : todo = SubSeq(order, k + 1, Len(order))
  /\ \A d \in ToSet(databases) : d.manager \in STRING /\ d.id \in Nat
  /\ Cardinality(cells.conv) <= 1 /\ Cardinality(cells.profile) <= 1
  /\ cells.conv \cup cells.profile \cup cells.msg
       \subseteq {<<s.db, s.store>> : s \in stores}
  /\ \A c \in DOMAIN messages : messages[c] # <<>>

\* The records of the stores with these names of a manager's database.
RecordsOf(manager, wanted) ==
  {x \in records :
     /\ IsObjectStoreData(x) /\ x.body # None
     /\ \E d, s \in records :
          /\ NamesDatabase(d) /\ d.name = manager /\ d.id = x.key[1]
          /\ NamesStore(s) /\ s.key[1] = x.key[1] /\ s.id = x.key[2] /\ s.name \in wanted}

ChainRecords == RecordsOf("replychain-manager", {"replychains", "replychains-2"})
Chains == {r.body : r \in ChainRecords}
Profiles == {p \in {r.body : r \in RecordsOf("profiles", {"profiles"})} :
               p.mri # None /\ p.name # None}
Topics == {v \in {r.body : r \in RecordsOf("conversation-manager", {"conversations"})} :
             Topical(v)}

\* What the records say, whatever order they come in, for a directory with one
\* database per manager and one version of each name, message, person and thread.
Tidy ==
  /\ \A r, s \in records : NamesDatabase(r) /\ NamesDatabase(s) /\ r.name = s.name
                             => r = s
  /\ \A r, s \in records : NamesStore(r) /\ NamesStore(s) /\ r.key = s.key
                             /\ (r.id = s.id \/ r.name = s.name) => r = s
  /\ \A r, s \in ChainRecords :
       \A i \in DOMAIN r.body.messages, j \in DOMAIN s.body.messages :
         r.body.messages[i].id = s.body.messages[j].id => r = s /\ i = j
  /\ \A p, q \in Profiles : p.mri = q.mri => p = q
  /\ \A v, w \in Topics : v.id = w.id => v = w

ExpectedIds(c) ==
  UNION {{m.id : m \in {x \in ToSet(b.messages) : Conversation(x, b.conv) = c}} :
           b \in Chains}

\* The cache holds every message of both message stores exactly once, under its
\* own conversation or its chain's, in time order, in whatever order the map
\* yields metadata and data.
MessagesExact ==
  pc = "done" /\ Tidy =>
    /\ \A c \in DOMAIN messages :
         /\ {m.id : m \in ToSet(messages[c])} = ExpectedIds(c)
         /\ Len(messages[c]) = Cardinality(ExpectedIds(c))
         /\ \A p, q \in DOMAIN messages[c] :
              p < q => messages[c][p].time <= messages[c][q].time
    /\ \A b \in Chains : \A x \in ToSet(b.messages) :
         Conversation(x, b.conv) \in DOMAIN messages \cup {None}

\* The names shown for those who reacted to message id.
Shown(id) ==
  UNION {UNION {m.users : m \in {x \in ToSet(messages[c]) : x.id = id}} :
           c \in DOMAIN messages}

Messages == {x \in UNION {ToSet(b.messages) : b \in Chains} :
               \E c \in DOMAIN messages : \E m \in ToSet(messages[c]) : m.id = x.id}

ProfileNames(u) == {p.name : p \in {q \in Profiles : q.mri = u}}
SentNames(u) == {m.name : m \in {x \in UNION {ToSet(b.messages) : b \in Chains} :
                                    x.creator = u}} \ {None}

\* In every reaction a person whose profile has a display name, be it empty, is named
\* by it, whether the profile is met before or after the messages (teams.rs, "the
\* profile is canonical"); one without, who ever sent a message under a name, by such a
\* name, even if other messages of theirs carry none and come first.
NamesExact ==
  pc = "done" /\ Tidy =>
    \A x \in Messages : \A u \in x.users :
      /\ ProfileNames(u) \subseteq Shown(x.id)
      /\ ProfileNames(u) = {} /\ SentNames(u) # {} => SentNames(u) \cap Shown(x.id) # {}

\* Every thread among the conversation records has a topic: its own name; without one
\* its long title, even an empty one; without either its short title, else its id.
\* Nothing else (a folder manager's database, another store, a record that is no
\* thread) gives a conversation one.
TopicsExact ==
  pc = "done" /\ Tidy =>
    /\ DOMAIN topics = {b.id : b \in Topics}
    /\ \A b \in Topics :
         /\ b.topic # None => topics[b.id] = b.topic
         /\ b.topic = None /\ b.long # None => topics[b.id] = b.long
         /\ {b.topic, b.long} = {None} =>
              topics[b.id] = IF b.short # None THEN b.short ELSE b.id
=============================================================================
