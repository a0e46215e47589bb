------------------------- MODULE LevelDbScanProofs --------------------------
(***************************************************************************)
(* Proofs about LevelDbScan, for every set of keys and every number of     *)
(* writes and files: a scan misses no record but those of files removed    *)
(* meanwhile, however the writer's steps fall between the scan's.          *)
(***************************************************************************)
EXTENDS LevelDbScan, WellFoundedInduction, TLAPS

\* Induction over the natural numbers, from the library's well-founded order.
LEMMA MaxExists ==
  ASSUME NEW p \in Nat, NEW S \in SUBSET (0..p), S # {}
  PROVE  \E s \in S : \A r \in S : r <= s
<1> DEFINE T == {p - s : s \in S}
<1>1. T \subseteq Nat /\ T # {}
  <2>1. \A s \in S : p - s \in Nat
    OBVIOUS
  <2>2. PICK s \in S : TRUE
    OBVIOUS
  <2>3. p - s \in T
    BY <2>2
  <2> QED
    BY <2>1, <2>3
<1>2. PICK x \in T : \A y \in T : <<y, x>> \notin OpToRel(<, Nat)
  <2> HIDE DEF T
  <2> QED
    BY <1>1, NatLessThanWellFounded, WFMin
<1>3. \A y \in T : ~(y < x)
  BY <1>1, <1>2 DEF OpToRel
<1>4. PICK s \in S : x = p - s
  OBVIOUS
<1>5. ASSUME NEW r \in S PROVE r <= s
  <2>1. p - r \in T
    OBVIOUS
  <2> QED
    BY <1>3, <1>4, <2>1
<1> QED
  BY <1>5

-----------------------------------------------------------------------------
\* Write s is the value its key has after the first p writes.
LiveAt(s, p) ==
  /\ s \in 1..p /\ history[s].put
  /\ \A r \in s + 1..p : history[r].key # history[s].key

\* File n can be read and holds write s.
TableHolds(n, s) == n \in DOMAIN tables /\ tables[n].whole /\ s \in tables[n].seqs
LogHolds(n, s) == n \in DOMAIN logs /\ s \in logs[n]
Holds(n, s) == TableHolds(n, s) \/ LogHolds(n, s)

\* Files hold only what has been written; the numbers of tables and logs differ,
\* and of two logs the later one holds the later writes.
FilesInv ==
  /\ \A n \in DOMAIN tables : n < nextFile /\ tables[n].seqs \subseteq 1..Len(history)
  /\ \A n \in DOMAIN logs : n <= active /\ n < nextFile
                              /\ logs[n] \subseteq 1..Len(history)
  /\ DOMAIN tables \cap DOMAIN logs = {}
  /\ \A m, n \in DOMAIN logs : m < n => \A r \in logs[m], s \in logs[n] : r < s

\* The output of background work has what is still needed of its inputs.
JobInv ==
  /\ job.phase = "none" => job.in = {}
  /\ job.phase # "none" =>
       /\ job.out \in DOMAIN tables \ job.in
       /\ active \notin job.in /\ job.in \subseteq DOMAIN tables \cup DOMAIN logs
       /\ \A n \in job.in, s \in 1..Len(history) :
            Holds(n, s) /\ LiveAt(s, Len(history)) => s \in tables[job.out].seqs
  /\ job.phase = "clean" => tables[job.out].whole

\* Every key's value is in some file that can be read.
HeldInv ==
  \A s \in 1..Len(history) :
    LiveAt(s, Len(history)) => \E n \in FileNumbers : Holds(n, s)

\* The slots hold puts of their keys, and no newer ones than any log to be read.
SlotInv ==
  /\ base <= Len(history)
  /\ \A k \in Keys : slot[k] # 0 => /\ slot[k] \in 1..Len(history)
                                    /\ history[slot[k]].key = k /\ history[slot[k]].put
  /\ pc = "listing" => slot = Empty
  /\ pc \in {"tables", "logs"} =>
       \A n \in log \cap DOMAIN logs, k \in Keys : \A s \in logs[n] : slot[k] < s
  /\ pc \in {"logs", "done"} => ldb = {}
  /\ pc = "done" => log = {}

\* Write s is in the map, or a newer one of its key is.
Shown(s) == s \in found \/ s <= slot[history[s].key]

\* Write s is in a file the scan has yet to read.
Ahead(s) ==
  \E n \in FileNumbers : \/ n \in ldb /\ TableHolds(n, s)
                         \/ n \in log /\ LogHolds(n, s)

\* Each value there was when the scan began is shown, or ahead, or gone.
ScanInv ==
  \A s \in 1..base : LiveAt(s, base) =>
    /\ pc = "listing" => s \in gone \/ \E n \in before : Holds(n, s)
    /\ pc \in {"tables", "logs", "done"} => s \in gone \/ Shown(s) \/ Ahead(s)

IInv == TypeOK /\ FilesInv /\ JobInv /\ HeldInv /\ SlotInv /\ ScanInv

-----------------------------------------------------------------------------
\* What a log does to a slot: its newest put of the key, if it has one.
LEMMA OverlaySlot ==
  ASSUME NEW seqs \in SUBSET (1..Len(history)), history \in Seq([key : Keys, put : BOOLEAN]),
         NEW k \in Keys
  PROVE  LET puts == {s \in seqs : history[s].key = k /\ history[s].put}
             r == Overlay(seqs)[k]
         IN \/ puts = {} /\ r = slot[k]
            \/ r \in puts /\ \A s \in puts : s <= r
<1> DEFINE puts == {s \in seqs : history[s].key = k /\ history[s].put}
<1>1. CASE puts = {}
  BY <1>1 DEF Overlay
<1>2. CASE puts # {}
  <2>1. Len(history) \in Nat /\ puts \in SUBSET (0..Len(history))
    <3>1. puts \subseteq seqs
      OBVIOUS
    <3>2. Len(history) \in Nat /\ seqs \subseteq 0..Len(history)
      OBVIOUS
    <3> HIDE DEF puts
    <3> QED
      BY <3>1, <3>2
  <2>2. \E s \in puts : \A r \in puts : r <= s
    <3> HIDE DEF puts
    <3> QED
      BY <1>2, <2>1, MaxExists
  <2>3. Overlay(seqs)[k] = CHOOSE s \in puts : \A r \in puts : r <= s
    BY <1>2 DEF Overlay
  <2> QED
    BY <2>2, <2>3
<1> QED
  BY <1>1, <1>2

\* A step of the reader touches no file.
LEMMA ReaderStep == Read => UNCHANGED fileVars
BY DEF Read, ListBegin, ListEnd, ListFails, TablesDone, Return, ReadTable, ReadLog

\* The steps: the reader's touch no file, the writer's none of the reader's
\* variables, but that what is removed is recorded in gone.
LEMMA StepCases ==
  [Next]_vars => \/ UNCHANGED vars
                 \/ Read /\ UNCHANGED fileVars
                 \/ UNCHANGED readVars /\ \E k \in Keys, put \in BOOLEAN : Write(k, put)
                 \/ UNCHANGED readVars /\ SwitchLog
                 \/ UNCHANGED readVars /\ Flush
                 \/ UNCHANGED readVars /\ Compact
                 \/ UNCHANGED readVars /\ FinishTable
                 \/ \E n \in FileNumbers :
                      /\ Remove(n)
                      /\ gone' = gone \cup (IF n \in DOMAIN tables THEN tables[n].seqs
                                            ELSE logs[n])
                      /\ UNCHANGED <<pc, before, ldb, log, found, slot, base>>
BY ReaderStep DEF Next, WriterSteps

-----------------------------------------------------------------------------
\* Every variable keeps its type.
LEMMA TypeStep == IInv /\ [Next]_vars => TypeOK'
<1> SUFFICES ASSUME IInv, [Next]_vars PROVE TypeOK'
  OBVIOUS
<1> USE FilesAssumption DEF IInv, TypeOK, FilesTypeOK, FileNumbers
<1>1. Len(history) \in Nat /\ Len(history) <= MaxWrites
  OBVIOUS
<1>2. CASE UNCHANGED vars
  BY <1>2 DEF vars, fileVars, readVars
<1>3. CASE Read /\ UNCHANGED fileVars
  <2> USE <1>3 DEF fileVars
  <2>1. CASE ListBegin
    BY <1>1, <2>1 DEF ListBegin, Empty
  <2>2. CASE ListEnd
    BY <2>2 DEF ListEnd
  <2>3. CASE ListFails \/ TablesDone \/ Return
    BY <2>3 DEF ListFails, TablesDone, Return
  <2>4. ASSUME NEW n \in FileNumbers, ReadTable(n) PROVE TypeOK'
    BY <2>4 DEF ReadTable
  <2>5. ASSUME NEW n \in FileNumbers, ReadLog(n) PROVE TypeOK'
    <3>1. CASE n \notin DOMAIN logs
      BY <2>5, <3>1 DEF ReadLog
    <3>2. CASE n \in DOMAIN logs
      <4>1. logs[n] \in SUBSET (1..Len(history))
        BY <3>2 DEF FilesInv
      <4>2. ASSUME NEW k \in Keys PROVE Overlay(logs[n])[k] \in 0..MaxWrites
        <5>1. Overlay(logs[n])[k] = slot[k] \/ Overlay(logs[n])[k] \in logs[n]
          BY <4>1, OverlaySlot
        <5> QED
          BY <1>1, <4>1, <5>1
      <4>3. Overlay(logs[n]) \in [Keys -> 0..MaxWrites]
        BY <4>2 DEF Overlay
      <4> QED
        BY <2>5, <3>2, <4>3 DEF ReadLog
    <3> QED
      BY <3>1, <3>2
  <2> QED
    BY <1>3, <2>1, <2>2, <2>3, <2>4, <2>5 DEF Read
<1>4. ASSUME UNCHANGED readVars, NEW k \in Keys, NEW put \in BOOLEAN, Write(k, put)
      PROVE  TypeOK'
  <2>1. /\ history' \in Seq([key : Keys, put : BOOLEAN])
        /\ Len(history') = Len(history) + 1 /\ Len(history') <= MaxWrites
    BY <1>4 DEF Write
  <2>2. /\ DOMAIN logs' = DOMAIN logs
        /\ \A n \in DOMAIN logs' : logs'[n] \subseteq 1..MaxWrites
    BY <1>1, <1>4, <2>1 DEF Write
  <2> QED
    BY <1>4, <2>1, <2>2 DEF Write, readVars
<1>5. ASSUME UNCHANGED readVars, SwitchLog PROVE TypeOK'
  BY <1>5 DEF SwitchLog, Put, readVars
<1>6. ASSUME UNCHANGED readVars, NEW seqs \in SUBSET (1..MaxWrites),
             NEW inputs \in SUBSET FileNumbers, CreateTable(seqs, inputs)
      PROVE  TypeOK'
  BY <1>6 DEF CreateTable, Put, readVars
<1>7. ASSUME UNCHANGED readVars, Flush PROVE TypeOK'
  BY <1>6, <1>7 DEF Flush
<1>8. ASSUME UNCHANGED readVars, Compact PROVE TypeOK'
  <2>1. PICK S \in SUBSET DOMAIN tables : CreateTable(Survivors(S), S)
    BY <1>8 DEF Compact
  <2>2. Survivors(S) \in SUBSET (1..MaxWrites)
    BY DEF Survivors
  <2> QED
    BY <1>6, <1>8, <2>1, <2>2
<1>9. ASSUME UNCHANGED readVars, FinishTable PROVE TypeOK'
  <2>1. /\ DOMAIN tables' = DOMAIN tables
        /\ \A n \in DOMAIN tables' :
             tables'[n] \in [seqs : SUBSET (1..MaxWrites), whole : BOOLEAN]
    <3>1. tables' = [tables EXCEPT ![job.out].whole = TRUE]
      BY <1>9 DEF FinishTable
    <3>2. ASSUME NEW n \in DOMAIN tables
          PROVE  \/ tables'[n] = tables[n]
                 \/ tables'[n] = [tables[n] EXCEPT !.whole = TRUE]
      BY <3>1
    <3>3. \A n \in DOMAIN tables : tables[n] \in [seqs : SUBSET (1..MaxWrites), whole : BOOLEAN]
      OBVIOUS
    <3>4. ASSUME NEW n \in DOMAIN tables
          PROVE  tables'[n] \in [seqs : SUBSET (1..MaxWrites), whole : BOOLEAN]
      <4>1. /\ tables[n].seqs \in SUBSET (1..MaxWrites) /\ tables[n].whole \in BOOLEAN
            /\ tables[n] = [seqs |-> tables[n].seqs, whole |-> tables[n].whole]
        BY <3>3
      <4>2. \/ tables'[n] = tables[n]
            \/ tables'[n] = [seqs |-> tables[n].seqs, whole |-> TRUE]
        BY <3>2, <4>1
      <4>3. [seqs |-> tables[n].seqs, whole |-> TRUE]
              \in [seqs : SUBSET (1..MaxWrites), whole : BOOLEAN]
        BY ONLY <4>1
      <4>4. tables[n] \in [seqs : SUBSET (1..MaxWrites), whole : BOOLEAN]
        BY <3>3
      <4> QED
        BY ONLY <4>2, <4>3, <4>4
    <3> QED
      BY <3>1, <3>4
  <2>2. job' \in [out : 0..MaxFiles, in : SUBSET FileNumbers,
                 phase : {"none", "write", "clean"}]
    BY <1>9 DEF FinishTable
  <2> QED
    BY <1>9, <2>1, <2>2 DEF FinishTable, readVars
<1>10. ASSUME NEW n \in FileNumbers, Remove(n),
              gone' = gone \cup (IF n \in DOMAIN tables THEN tables[n].seqs ELSE logs[n]),
              UNCHANGED <<pc, before, ldb, log, found, slot, base>>
       PROVE  TypeOK'
  <2>1. active # n /\ n \in DOMAIN tables \cup DOMAIN logs
    BY <1>10 DEF Remove, JobInv
  <2>2. gone' \subseteq 1..MaxWrites
    BY <1>10, <2>1
  <2>3. /\ DOMAIN logs' = DOMAIN logs \ {n} /\ DOMAIN tables' = DOMAIN tables \ {n}
        /\ \A m \in DOMAIN logs' : logs'[m] = logs[m]
        /\ \A m \in DOMAIN tables' : tables'[m] = tables[m]
    BY <1>10 DEF Remove, Drop
  <2>4. job' \in [out : 0..MaxFiles, in : SUBSET FileNumbers,
                 phase : {"none", "write", "clean"}]
    <3>1. job' = [out |-> 0, in |-> {}, phase |-> "none"]
            \/ job' = [job EXCEPT !.in = @ \ {n}]
      BY <1>10 DEF Remove, NoJob
    <3>2. 0 \in 0..MaxFiles
      OBVIOUS
    <3> QED
      BY <3>1, <3>2
  <2> QED
    BY <1>10, <2>1, <2>2, <2>3, <2>4 DEF Remove
<1> QED
  BY <1>2, <1>3, <1>4, <1>5, <1>7, <1>8, <1>9, <1>10, StepCases

-----------------------------------------------------------------------------
\* A write changes no earlier value, and supersedes that of its own key.
LEMMA LiveBefore ==
  ASSUME TypeOK, NEW k \in Keys, NEW put \in BOOLEAN, Write(k, put),
         NEW p \in 0..Len(history), NEW s \in 1..p
  PROVE  LiveAt(s, p)' <=> LiveAt(s, p)
<1>1. /\ Len(history) \in Nat
      /\ \A r \in 1..Len(history) : history'[r] = history[r]
  BY DEF Write, TypeOK, FilesTypeOK
<1>2. s + 1..p \subseteq 1..Len(history) /\ s \in 1..Len(history)
  BY <1>1
<1> QED
  BY <1>1, <1>2 DEF LiveAt

LEMMA LiveAfter ==
  ASSUME TypeOK, NEW k \in Keys, NEW put \in BOOLEAN, Write(k, put),
         NEW s \in 1..Len(history), LiveAt(s, Len(history))'
  PROVE  LiveAt(s, Len(history))
<1>1. /\ Len(history) \in Nat /\ Len(history') = Len(history) + 1
      /\ \A r \in 1..Len(history) : history'[r] = history[r]
  BY DEF Write, TypeOK, FilesTypeOK
<1> QED
  BY <1>1 DEF LiveAt

\* What a flush or a merge writes is in its inputs and has all their values.
LEMMA FlushJob ==
  ASSUME IInv, Flush
  PROVE  \E inputs \in SUBSET (DOMAIN logs \ {active}), seqs \in SUBSET (1..Len(history)) :
           /\ CreateTable(seqs, inputs)
           /\ \A n \in inputs, s \in 1..Len(history) : Holds(n, s) => s \in seqs
BY DEF IInv, Flush, FilesInv, Holds, TableHolds, LogHolds

LEMMA CompactJob ==
  ASSUME IInv, Compact
  PROVE  \E inputs \in SUBSET DOMAIN tables, seqs \in SUBSET (1..Len(history)) :
           /\ CreateTable(seqs, inputs)
           /\ \A n \in inputs, s \in 1..Len(history) :
                Holds(n, s) /\ LiveAt(s, Len(history)) => s \in seqs
<1>1. PICK S \in SUBSET DOMAIN tables :
        (\A n \in S : tables[n].whole) /\ CreateTable(Survivors(S), S)
  BY DEF Compact
<1> DEFINE all == UNION {tables[n].seqs : n \in S}
<1>2. Len(history) \in Nat /\ all \subseteq 1..Len(history)
  BY DEF IInv, TypeOK, FilesTypeOK, FilesInv
<1>3. Survivors(S) \subseteq all
  BY DEF Survivors
<1>4. ASSUME NEW n \in S, NEW s \in 1..Len(history),
             Holds(n, s), LiveAt(s, Len(history))
      PROVE  s \in Survivors(S)
  <2>1. s \in all
    BY <1>4 DEF Holds, TableHolds, LogHolds, IInv, FilesInv
  <2>2. \A r \in all : history[r].key = history[s].key => r <= s
    <3> HIDE DEF all
    <3> QED
      BY <1>2, <1>4 DEF LiveAt
  <2>3. history[s].put
    BY <1>4 DEF LiveAt
  <2> QED
    BY <2>1, <2>2, <2>3 DEF Survivors
<1> QED
  BY <1>1, <1>2, <1>3, <1>4

-----------------------------------------------------------------------------
\* Only a write adds to a file, the newest one to the newest log.
LEMMA FilesStep == IInv /\ [Next]_vars => FilesInv'
<1> SUFFICES ASSUME IInv, [Next]_vars PROVE FilesInv'
  OBVIOUS
<1> USE FilesAssumption DEF IInv, TypeOK, FilesTypeOK, FileNumbers, FilesInv
<1>1. CASE UNCHANGED fileVars
  BY <1>1 DEF fileVars
<1>2. ASSUME NEW k \in Keys, NEW put \in BOOLEAN, Write(k, put) PROVE FilesInv'
  <2>1. Len(history) \in Nat /\ Len(history') = Len(history) + 1
    BY <1>2 DEF Write
  <2>2. /\ DOMAIN logs' = DOMAIN logs
        /\ logs'[active] = logs[active] \cup {Len(history) + 1}
        /\ \A n \in DOMAIN logs \ {active} : logs'[n] = logs[n]
    BY <1>2 DEF Write
  <2>3. ASSUME NEW m \in DOMAIN logs, NEW n \in DOMAIN logs, m < n,
               NEW r \in logs'[m], NEW s \in logs'[n]
        PROVE  r < s
    <3>1. m # active
      BY <2>3
    <3>2. r \in logs[m] /\ r \in 1..Len(history)
      BY <2>2, <2>3, <3>1
    <3>3. s \in logs[n] \/ s = Len(history) + 1
      BY <2>2, <2>3
    <3> QED
      BY <2>1, <2>3, <3>2, <3>3
  <2>4. UNCHANGED <<tables, active, nextFile, job>>
    BY <1>2 DEF Write
  <2>5. \A n \in DOMAIN logs' : logs'[n] \subseteq 1..Len(history')
    <3>1. 1..Len(history) \subseteq 1..Len(history') /\ Len(history) + 1 \in 1..Len(history')
      BY <2>1
    <3>2. ASSUME NEW n \in DOMAIN logs PROVE logs'[n] \subseteq 1..Len(history')
      <4>1. logs[n] \subseteq 1..Len(history)
        OBVIOUS
      <4>2. n = active \/ logs'[n] = logs[n]
        BY <2>2
      <4> QED
        BY <2>2, <3>1, <4>1, <4>2
    <3> QED
      BY <2>2, <3>2
  <2>6. \A n \in DOMAIN tables' : tables'[n].seqs \subseteq 1..Len(history')
    BY <2>1, <2>4
  <2> QED
    BY <2>2, <2>3, <2>4, <2>5, <2>6
<1>3. CASE SwitchLog
  BY <1>3 DEF SwitchLog, Put
<1>4. ASSUME NEW seqs \in SUBSET (1..Len(history)),
             NEW inputs \in SUBSET FileNumbers, CreateTable(seqs, inputs)
      PROVE  FilesInv'
  BY <1>4 DEF CreateTable, Put
<1>5. CASE Flush
  BY <1>4, <1>5, FlushJob
<1>6. CASE Compact
  BY <1>4, <1>6, CompactJob
<1>7. CASE FinishTable
  <2>1. /\ DOMAIN tables' = DOMAIN tables
        /\ \A n \in DOMAIN tables : tables'[n].seqs = tables[n].seqs
    BY <1>7 DEF FinishTable
  <2> QED
    BY <1>7, <2>1 DEF FinishTable
<1>8. ASSUME NEW n \in FileNumbers, Remove(n) PROVE FilesInv'
  BY <1>8 DEF Remove, Drop
<1> QED
  BY <1>1, <1>2, <1>3, <1>5, <1>6, <1>7, <1>8, StepCases DEF vars

\* No step but Remove takes anything out of a file.
LEMMA HoldsStays ==
  ASSUME IInv, [Next]_vars, NEW n \in FileNumbers, NEW s \in Nat, ~Remove(n)
  PROVE  /\ TableHolds(n, s) => TableHolds(n, s)'
         /\ LogHolds(n, s) => LogHolds(n, s)'
         /\ Holds(n, s) => Holds(n, s)'
<1> DEFINE Stays == /\ TableHolds(n, s) => TableHolds(n, s)'
                    /\ LogHolds(n, s) => LogHolds(n, s)'
<1> USE FilesAssumption DEF IInv, TypeOK, FilesTypeOK, FileNumbers, FilesInv,
        TableHolds, LogHolds
<1>1. ASSUME UNCHANGED fileVars PROVE Stays
  BY <1>1 DEF fileVars
<1>2. ASSUME NEW k \in Keys, NEW put \in BOOLEAN, Write(k, put) PROVE Stays
  BY <1>2 DEF Write
<1>3. ASSUME SwitchLog PROVE Stays
  BY <1>3 DEF SwitchLog, Put
<1>4. ASSUME NEW seqs, NEW inputs, CreateTable(seqs, inputs) PROVE Stays
  BY <1>4 DEF CreateTable, Put
<1>5. ASSUME Flush PROVE Stays
  BY <1>4, <1>5 DEF Flush
<1>6. ASSUME Compact PROVE Stays
  BY <1>4, <1>6 DEF Compact
<1>7. ASSUME FinishTable PROVE Stays
  BY <1>7 DEF FinishTable
<1>8. ASSUME NEW m \in FileNumbers, Remove(m), m # n PROVE Stays
  BY <1>8 DEF Remove, Drop
<1>9. Stays
  BY <1>1, <1>2, <1>3, <1>5, <1>6, <1>7, <1>8, StepCases DEF vars
<1> QED
  BY <1>9 DEF Holds

\* What is needed of a job's inputs is in its output, until they are removed.
LEMMA JobStep == IInv /\ [Next]_vars => JobInv'
<1> SUFFICES ASSUME IInv, [Next]_vars PROVE JobInv'
  OBVIOUS
<1>0. TypeOK
  BY DEF IInv
<1> USE FilesAssumption DEF IInv, TypeOK, FilesTypeOK, FileNumbers, FilesInv, JobInv
<1>1. CASE UNCHANGED fileVars
  BY <1>1 DEF fileVars, Holds, TableHolds, LogHolds, LiveAt
<1>2. ASSUME NEW k \in Keys, NEW put \in BOOLEAN, Write(k, put) PROVE JobInv'
  <2>1. UNCHANGED <<tables, active, job>> /\ DOMAIN logs' = DOMAIN logs
    BY <1>2 DEF Write
  <2>2. ASSUME job.phase # "none", NEW n \in job.in, NEW s \in 1..Len(history'),
               Holds(n, s)', LiveAt(s, Len(history))'
        PROVE  s \in tables[job.out].seqs
    <3>1. n # active
      BY <2>2
    <3>2. Holds(n, s)
      BY <1>2, <2>2, <3>1 DEF Holds, TableHolds, LogHolds, Write
    <3>3. s \in 1..Len(history)
      BY <3>2 DEF Holds, TableHolds, LogHolds
    <3>4. LiveAt(s, Len(history))
      BY ONLY <1>0, <1>2, <2>2, <3>3, LiveAfter, Zenon
    <3> QED
      BY <2>2, <3>2, <3>3, <3>4
  <2> QED
    BY <2>1, <2>2
<1>3. CASE SwitchLog
  <2>1. /\ UNCHANGED <<history, tables, job>> /\ active' = nextFile
        /\ DOMAIN logs' = DOMAIN logs \cup {nextFile}
        /\ \A n \in DOMAIN logs : logs'[n] = logs[n]
    BY <1>3 DEF SwitchLog, Put
  <2>2. \A n \in job.in, s \in 1..Len(history) :
          job.phase # "none" /\ Holds(n, s)' => Holds(n, s)
    BY <2>1 DEF Holds, TableHolds, LogHolds
  <2>3. \A s \in 1..Len(history) :
          LiveAt(s, Len(history))' <=> LiveAt(s, Len(history))
    BY <2>1 DEF LiveAt
  <2>4. job.phase # "none" => nextFile \notin job.in
    <3>1. \A n \in DOMAIN tables \cup DOMAIN logs : n < nextFile
      OBVIOUS
    <3>2. nextFile \in Nat
      OBVIOUS
    <3>3. nextFile \notin DOMAIN tables \cup DOMAIN logs
      BY ONLY <3>1, <3>2
    <3>4. job.phase # "none" => job.in \subseteq DOMAIN tables \cup DOMAIN logs
      OBVIOUS
    <3> QED
      BY ONLY <3>3, <3>4
  <2> QED
    BY <2>1, <2>2, <2>3, <2>4
<1>4. ASSUME NEW seqs \in SUBSET (1..Len(history)),
             NEW inputs \in SUBSET (DOMAIN tables \cup (DOMAIN logs \ {active})),
             CreateTable(seqs, inputs),
             \A n \in inputs, s \in 1..Len(history) :
               Holds(n, s) /\ LiveAt(s, Len(history)) => s \in seqs
      PROVE  JobInv'
  <2>1. /\ UNCHANGED <<history, logs, active>>
        /\ tables' = Put(tables, nextFile, [seqs |-> seqs, whole |-> FALSE])
        /\ job' = [out |-> nextFile, in |-> inputs, phase |-> "write"]
    BY <1>4 DEF CreateTable
  <2>2. /\ DOMAIN tables' = DOMAIN tables \cup {nextFile}
        /\ tables'[nextFile].seqs = seqs
        /\ \A n \in DOMAIN tables : n # nextFile /\ tables'[n] = tables[n]
    BY <2>1 DEF Put
  <2>3. \A n \in inputs : n # nextFile /\ n # active
    OBVIOUS
  <2>4. \A n \in inputs, s \in 1..Len(history) : Holds(n, s)' => Holds(n, s)
    BY <2>1, <2>2, <2>3 DEF Holds, TableHolds, LogHolds
  <2>5. \A s \in 1..Len(history) :
          LiveAt(s, Len(history))' <=> LiveAt(s, Len(history))
    BY <2>1 DEF LiveAt
  <2> QED
    BY <1>4, <2>1, <2>2, <2>3, <2>4, <2>5
<1>5. CASE Flush
  <2>1. PICK inputs \in SUBSET (DOMAIN logs \ {active}),
             seqs \in SUBSET (1..Len(history)) :
               /\ CreateTable(seqs, inputs)
               /\ \A n \in inputs, s \in 1..Len(history) : Holds(n, s) => s \in seqs
    BY <1>5, FlushJob
  <2>2. inputs \in SUBSET (DOMAIN tables \cup (DOMAIN logs \ {active}))
    BY <2>1
  <2> HIDE DEF IInv, TypeOK, FilesTypeOK, FileNumbers, FilesInv, JobInv
  <2> QED
    BY <1>4, <2>1, <2>2
<1>6. CASE Compact
  <2>1. PICK inputs \in SUBSET DOMAIN tables, seqs \in SUBSET (1..Len(history)) :
               /\ CreateTable(seqs, inputs)
               /\ \A n \in inputs, s \in 1..Len(history) :
                    Holds(n, s) /\ LiveAt(s, Len(history)) => s \in seqs
    BY <1>6, CompactJob
  <2>2. inputs \in SUBSET (DOMAIN tables \cup (DOMAIN logs \ {active}))
    BY <2>1 DEF FilesInv
  <2> HIDE DEF IInv, TypeOK, FilesTypeOK, FileNumbers, FilesInv, JobInv
  <2> QED
    BY <1>4, <2>1, <2>2
<1>7. CASE FinishTable
  <2>1. /\ UNCHANGED <<history, logs, active>> /\ DOMAIN tables' = DOMAIN tables
        /\ job.phase # "none" /\ tables'[job.out].whole
        /\ job'.out = job.out /\ job'.in = job.in
        /\ \A n \in DOMAIN tables : tables'[n].seqs = tables[n].seqs
        /\ \A n \in DOMAIN tables \ {job.out} : tables'[n] = tables[n]
    BY <1>7 DEF FinishTable
  <2>2. \A n \in job.in, s \in 1..Len(history) : Holds(n, s)' => Holds(n, s)
    BY <2>1 DEF Holds, TableHolds, LogHolds
  <2>3. \A s \in 1..Len(history) :
          LiveAt(s, Len(history))' <=> LiveAt(s, Len(history))
    BY <2>1 DEF LiveAt
  <2>4. job'.phase = "clean"
    BY <1>7 DEF FinishTable
  <2> QED
    BY <2>1, <2>2, <2>3, <2>4
<1>8. ASSUME NEW n \in FileNumbers, Remove(n) PROVE JobInv'
  <2>1. CASE job' = NoJob
    BY <2>1 DEF NoJob
  <2>2. CASE job' = [job EXCEPT !.in = @ \ {n}]
    <3>1. /\ UNCHANGED <<history, active>> /\ job'.out = job.out
          /\ job'.in = job.in \ {n} /\ job'.phase = "clean" /\ job.phase = "clean"
          /\ DOMAIN tables' = DOMAIN tables \ {n} /\ DOMAIN logs' = DOMAIN logs \ {n}
          /\ \A m \in DOMAIN tables' : tables'[m] = tables[m]
          /\ \A m \in DOMAIN logs' : logs'[m] = logs[m]
          /\ n \in job.in
      BY <1>8, <2>2 DEF Remove, Drop
    <3>2. \A m \in job.in, s \in 1..Len(history) : Holds(m, s)' => Holds(m, s)
      BY <3>1 DEF Holds, TableHolds, LogHolds
    <3>3. \A s \in 1..Len(history) :
            LiveAt(s, Len(history))' <=> LiveAt(s, Len(history))
      BY <3>1 DEF LiveAt
    <3> QED
      BY <3>1, <3>2, <3>3
  <2> QED
    BY <1>8, <2>1, <2>2 DEF Remove
<1> QED
  BY <1>1, <1>2, <1>3, <1>5, <1>6, <1>7, <1>8, StepCases DEF vars

\* Every key's value stays in a file that can be read.
LEMMA HeldStep == IInv /\ [Next]_vars => HeldInv'
<1> SUFFICES ASSUME IInv, [Next]_vars,
                    NEW s \in 1..Len(history'), LiveAt(s, Len(history))'
             PROVE  \E n \in FileNumbers : Holds(n, s)'
  BY DEF HeldInv
<1>1. s \in Nat
  BY DEF IInv, TypeOK, FilesTypeOK
<1>2. ASSUME NEW k \in Keys, NEW put \in BOOLEAN, Write(k, put)
      PROVE  \E n \in FileNumbers : Holds(n, s)'
  <2>1. CASE s = Len(history) + 1
    <3>1. PICK n \in FileNumbers : n = active
      BY DEF IInv, TypeOK, FilesTypeOK
    <3>2. Holds(n, s)'
      BY <1>2, <2>1, <3>1 DEF Write, Holds, TableHolds, LogHolds, IInv, TypeOK, FilesTypeOK
    <3> QED
      BY <3>2
  <2>2. CASE s # Len(history) + 1
    <3>1. s \in 1..Len(history)
      BY <1>2, <2>2 DEF Write, IInv, TypeOK, FilesTypeOK
    <3>2. LiveAt(s, Len(history))
      BY <1>2, <3>1, LiveAfter DEF IInv
    <3>3. PICK n \in FileNumbers : Holds(n, s)
      BY <3>1, <3>2 DEF IInv, HeldInv
    <3>4. ~Remove(n)
      BY <1>2 DEF Write, Remove, IInv, TypeOK, FilesTypeOK
    <3> QED
      BY <1>1, <3>3, <3>4, HoldsStays
  <2> QED
    BY <2>1, <2>2
<1>3. ASSUME UNCHANGED history
      PROVE  \E n \in FileNumbers : Holds(n, s)'
  <2>1. s \in 1..Len(history) /\ LiveAt(s, Len(history))
    BY <1>3 DEF LiveAt
  <2>2. PICK n \in FileNumbers : Holds(n, s)
    BY <2>1 DEF IInv, HeldInv
  <2>3. CASE Remove(n)
    <3>1. PICK m \in FileNumbers : m = job.out
      BY <2>3 DEF Remove, IInv, JobInv, TypeOK, FilesTypeOK
    <3>2. /\ m \in DOMAIN tables /\ tables[m].whole /\ s \in tables[m].seqs
          /\ m # n
      BY <2>1, <2>2, <2>3, <3>1 DEF Remove, IInv, JobInv
    <3>3. Holds(m, s)'
      BY <2>3, <3>2 DEF Remove, Drop, Holds, TableHolds, LogHolds
    <3> QED
      BY <3>3
  <2>4. CASE ~Remove(n)
    BY <1>1, <2>2, <2>4, HoldsStays
  <2> QED
    BY <2>3, <2>4
<1>4. UNCHANGED history \/ \E k \in Keys, put \in BOOLEAN : Write(k, put)
  BY StepCases DEF vars, fileVars, SwitchLog, Flush, Compact, CreateTable,
                   FinishTable, Remove
<1> QED
  BY <1>2, <1>3, <1>4

-----------------------------------------------------------------------------
\* Reading a log never puts an older write into a slot.
LEMMA ReadLogSlots ==
  ASSUME IInv, NEW n \in FileNumbers, ReadLog(n), NEW k \in Keys
  PROVE  /\ slot[k] <= slot'[k]
         /\ \/ slot'[k] = slot[k]
            \/ /\ n \in DOMAIN logs /\ slot'[k] \in logs[n]
               /\ history[slot'[k]].key = k /\ history[slot'[k]].put
         /\ n \in DOMAIN logs =>
              \A s \in logs[n] : history[s].key = k /\ history[s].put => s <= slot'[k]
<1>1. CASE n \notin DOMAIN logs
  BY <1>1 DEF ReadLog, IInv, TypeOK
<1>2. CASE n \in DOMAIN logs
  <2> DEFINE puts == {s \in logs[n] : history[s].key = k /\ history[s].put}
  <2>1. logs[n] \in SUBSET (1..Len(history)) /\ n \in log
    BY <1>2 DEF IInv, FilesInv, ReadLog, First
  <2>2. slot'[k] = Overlay(logs[n])[k]
    BY <1>2 DEF ReadLog
  <2>3. \/ puts = {} /\ slot'[k] = slot[k]
        \/ slot'[k] \in puts /\ \A s \in puts : s <= slot'[k]
    BY <2>1, <2>2, OverlaySlot DEF IInv, TypeOK, FilesTypeOK
  <2>4. \A s \in logs[n] : slot[k] < s
    BY <1>2, <2>1 DEF ReadLog, IInv, SlotInv
  <2>5. Len(history) \in Nat /\ slot[k] \in Nat
    BY DEF IInv, TypeOK, FilesTypeOK
  <2>6. \A s \in puts : history[s].key = k /\ history[s].put
    OBVIOUS
  <2>7. \A s \in logs[n] : history[s].key = k /\ history[s].put => s \in puts
    OBVIOUS
  <2>8. puts \subseteq logs[n]
    OBVIOUS
  <2> HIDE DEF puts
  <2> QED
    BY <1>2, <2>1, <2>3, <2>4, <2>5, <2>6, <2>7, <2>8
<1> QED
  BY <1>1, <1>2

LEMMA PutEmpty ==
  ASSUME NEW f, NEW x, NEW n \in DOMAIN Put(f, x, {})
  PROVE  Put(f, x, {})[n] = {} \/ (n \in DOMAIN f /\ Put(f, x, {})[n] = f[n])
<1>1. n \in DOMAIN f \cup {x}
  BY DEF Put
<1>2. Put(f, x, {})[n] = IF n = x THEN {} ELSE f[n]
  BY <1>1 DEF Put
<1> QED
  BY <1>1, <1>2

\* The logs are read in the order of their writes.
LEMMA SlotStep == IInv /\ [Next]_vars => SlotInv'
<1> SUFFICES ASSUME IInv, [Next]_vars PROVE SlotInv'
  OBVIOUS
<1> USE FilesAssumption DEF IInv, TypeOK, FilesTypeOK, FileNumbers, SlotInv
<1>1. Len(history) \in Nat
  OBVIOUS
<1>2. CASE UNCHANGED vars
  BY <1>2 DEF vars, fileVars, readVars
<1>3. CASE Read /\ UNCHANGED fileVars
  <2> USE <1>3 DEF fileVars
  <2>1. CASE ListBegin
    BY <1>1, <2>1 DEF ListBegin, Empty
  <2>2. CASE ListEnd
    BY <2>2 DEF ListEnd, Empty, FilesInv
  <2>3. CASE ListFails \/ TablesDone \/ Return
    BY <2>3 DEF ListFails, TablesDone, Return
  <2>4. ASSUME NEW n \in FileNumbers, ReadTable(n) PROVE SlotInv'
    BY <2>4 DEF ReadTable
  <2>5. ASSUME NEW n \in FileNumbers, ReadLog(n) PROVE SlotInv'
    <3>1. /\ pc = "logs" /\ pc' = "logs" /\ log' = log \ {n} /\ n \in log
          /\ \A m \in log' : n < m
          /\ UNCHANGED <<base, ldb>>
      BY <2>5 DEF ReadLog, First
    <3>2. ASSUME NEW k \in Keys, slot'[k] # 0
          PROVE  /\ slot'[k] \in 1..Len(history)
                 /\ history[slot'[k]].key = k /\ history[slot'[k]].put
      BY <2>5, <3>2, ReadLogSlots DEF FilesInv
    <3>3. ASSUME NEW m \in log' \cap DOMAIN logs, NEW k \in Keys, NEW s \in logs[m]
          PROVE  slot'[k] < s
      <4>1. CASE slot'[k] = slot[k]
        BY <3>1, <4>1
      <4>2. CASE n \in DOMAIN logs /\ slot'[k] \in logs[n]
        BY <3>1, <4>2 DEF FilesInv
      <4> QED
        BY <2>5, <4>1, <4>2, ReadLogSlots
    <3> QED
      BY <3>1, <3>2, <3>3
  <2> QED
    BY <1>3, <2>1, <2>2, <2>3, <2>4, <2>5 DEF Read
<1>4. ASSUME UNCHANGED readVars, NEW k \in Keys, NEW put \in BOOLEAN, Write(k, put)
      PROVE  SlotInv'
  <2>1. /\ Len(history') = Len(history) + 1
        /\ \A s \in 1..Len(history) : history'[s] = history[s]
    BY <1>4 DEF Write
  <2>2. /\ DOMAIN logs' = DOMAIN logs
        /\ \A n \in DOMAIN logs : \A s \in logs'[n] : s \in logs[n] \/ s = Len(history) + 1
    BY <1>4 DEF Write
  <2>3. ASSUME NEW j \in Keys PROVE slot[j] < Len(history) + 1
    <3>1. slot[j] = 0 \/ slot[j] \in 1..Len(history)
      OBVIOUS
    <3> QED
      BY <1>1, <3>1
  <2>4. UNCHANGED readVars
    BY <1>4
  <2>5. ASSUME NEW j \in Keys, slot[j] # 0
        PROVE  /\ slot[j] \in 1..Len(history')
               /\ history'[slot[j]].key = j /\ history'[slot[j]].put
    <3>1. /\ slot[j] \in 1..Len(history)
          /\ history[slot[j]].key = j /\ history[slot[j]].put
      BY <2>5
    <3> QED
      BY <1>1, <2>1, <3>1
  <2>6. ASSUME pc \in {"tables", "logs"}, NEW n \in log \cap DOMAIN logs,
               NEW j \in Keys, NEW s \in logs'[n]
        PROVE  slot[j] < s
    BY <2>2, <2>3, <2>6
  <2>7. base <= Len(history')
    BY <1>1, <2>1
  <2> QED
    BY <2>2, <2>4, <2>5, <2>6, <2>7 DEF readVars
<1>5. ASSUME UNCHANGED readVars, UNCHANGED history,
             \A n \in DOMAIN logs' : logs'[n] = {} \/ (n \in DOMAIN logs /\ logs'[n] = logs[n])
      PROVE  SlotInv'
  BY <1>5 DEF readVars
<1>6. ASSUME UNCHANGED readVars, SwitchLog \/ Flush \/ Compact \/ FinishTable
      PROVE  SlotInv'
  <2>1. UNCHANGED history
    BY <1>6 DEF SwitchLog, Flush, Compact, FinishTable, CreateTable
  <2>2. logs' = logs \/ logs' = Put(logs, nextFile, {})
    BY <1>6 DEF SwitchLog, Flush, Compact, FinishTable, CreateTable
  <2>3. \A n \in DOMAIN logs' : logs'[n] = {} \/ (n \in DOMAIN logs /\ logs'[n] = logs[n])
    <3>1. CASE logs' = logs
      BY <3>1
    <3>2. CASE logs' = Put(logs, nextFile, {})
      BY <3>2, PutEmpty
    <3> QED
      BY <2>2, <3>1, <3>2
  <2> QED
    BY <1>5, <1>6, <2>1, <2>3
<1>7. ASSUME NEW n \in FileNumbers, Remove(n),
             UNCHANGED <<pc, before, ldb, log, found, slot, base>>
      PROVE  SlotInv'
  BY <1>7 DEF Remove, Drop
<1> QED
  BY <1>2, <1>3, <1>4, <1>6, <1>7, StepCases

-----------------------------------------------------------------------------
LEMMA HistoryTyped ==
  ASSUME TypeOK, NEW s \in 1..Len(history)
  PROVE  history[s].key \in Keys
<1> DEFINE R == [key : Keys, put : BOOLEAN]
<1>1. history \in Seq(R)
  BY DEF TypeOK, FilesTypeOK
<1>2. history[s] \in R
  <2> HIDE DEF R
  <2> QED
    BY <1>1
<1> QED
  BY <1>2

\* A value is lost to the scan only with the file it was in.
LEMMA ScanStep == IInv /\ [Next]_vars => ScanInv'
<1> SUFFICES ASSUME IInv, [Next]_vars,
                    NEW s \in 1..base', LiveAt(s, base)'
             PROVE  /\ pc' = "listing" =>
                         s \in gone' \/ \E n \in before' : Holds(n, s)'
                    /\ pc' \in {"tables", "logs", "done"} =>
                         s \in gone' \/ Shown(s)' \/ Ahead(s)'
  BY DEF ScanInv
<1> DEFINE Goal == /\ pc' = "listing" =>
                        s \in gone' \/ \E n \in before' : Holds(n, s)'
                   /\ pc' \in {"tables", "logs", "done"} =>
                        s \in gone' \/ Shown(s)' \/ Ahead(s)'
<1>1. /\ Len(history) \in Nat /\ base \in Nat /\ base <= Len(history)
      /\ ldb \subseteq FileNumbers /\ log \subseteq FileNumbers
      /\ before \subseteq FileNumbers
  BY DEF IInv, TypeOK, FilesTypeOK, SlotInv
<1>2. CASE UNCHANGED vars
  <2>1. s \in 1..base /\ LiveAt(s, base)
    BY <1>2 DEF vars, fileVars, readVars, LiveAt
  <2> QED
    BY <1>2, <2>1
    DEF vars, fileVars, readVars, IInv, ScanInv, Shown, Ahead, Holds, TableHolds, LogHolds
<1>3. CASE Read /\ UNCHANGED fileVars
  <2> USE <1>3 DEF fileVars
  <2>1. CASE ListBegin
    <3>1. pc' = "listing" /\ s \in 1..Len(history) /\ LiveAt(s, Len(history))
      BY <2>1 DEF ListBegin, LiveAt
    <3>2. PICK n \in FileNumbers : Holds(n, s)
      BY <3>1 DEF IInv, HeldInv
    <3>3. n \in before' /\ Holds(n, s)'
      BY <2>1, <3>2 DEF ListBegin, Holds, TableHolds, LogHolds
    <3> QED
      BY <3>1, <3>3
  <2>2. ASSUME base' = base, gone' = gone PROVE s \in 1..base /\ LiveAt(s, base)
    BY <2>2 DEF LiveAt
  <2>3. \A n \in FileNumbers : /\ Holds(n, s)' <=> Holds(n, s)
                               /\ TableHolds(n, s)' <=> TableHolds(n, s)
                               /\ LogHolds(n, s)' <=> LogHolds(n, s)
    BY DEF Holds, TableHolds, LogHolds
  <2>4. CASE ListEnd
    <3>1. s \in gone \/ \E n \in before : Holds(n, s)
      BY <2>2, <2>4 DEF ListEnd, IInv, ScanInv
    <3>2. \A n \in before : Holds(n, s) =>
            \/ n \in ldb' /\ TableHolds(n, s)
            \/ n \in log' /\ LogHolds(n, s)
      BY <2>4 DEF ListEnd, Holds, TableHolds, LogHolds
    <3>3. pc' = "tables" /\ gone' = gone
      BY <2>4 DEF ListEnd
    <3>4. ASSUME NEW n \in before, Holds(n, s) PROVE Ahead(s)'
      <4>1. (TableHolds(n, s)' <=> TableHolds(n, s)) /\ (LogHolds(n, s)' <=> LogHolds(n, s))
        BY DEF TableHolds, LogHolds
      <4> QED
        BY <1>1, <3>2, <3>4, <4>1 DEF Ahead, FileNumbers
    <3> QED
      BY <3>1, <3>3, <3>4
  <2>5. CASE ListFails \/ TablesDone \/ Return
    <3>1. /\ UNCHANGED <<base, gone, found, slot, ldb, log>>
          /\ \/ pc' = "idle"
             \/ pc \in {"tables", "logs"} /\ pc' \in {"logs", "done"}
      BY <2>5 DEF ListFails, TablesDone, Return
    <3>2. pc \in {"tables", "logs"} => s \in gone \/ Shown(s) \/ Ahead(s)
      BY <2>2, <3>1 DEF IInv, ScanInv
    <3>3. (Shown(s) => Shown(s)') /\ (Ahead(s) => Ahead(s)')
      BY <3>1 DEF Shown, Ahead, TableHolds, LogHolds
    <3> QED
      BY <3>1, <3>2, <3>3
  <2>6. ASSUME NEW n \in FileNumbers, ReadTable(n) PROVE Goal
    <3>1. /\ UNCHANGED <<pc, base, gone, slot, log>> /\ pc = "tables"
          /\ ldb' = ldb \ {n} /\ found \subseteq found'
          /\ n \in DOMAIN tables /\ tables[n].whole => tables[n].seqs \subseteq found'
      BY <2>6 DEF ReadTable
    <3>2. s \in gone \/ Shown(s) \/ Ahead(s)
      BY <2>2, <3>1 DEF IInv, ScanInv
    <3>3. Shown(s) => Shown(s)'
      BY <3>1 DEF Shown
    <3>4. ASSUME Ahead(s) PROVE Shown(s)' \/ Ahead(s)'
      <4>1. PICK m \in FileNumbers : \/ m \in ldb /\ TableHolds(m, s)
                                     \/ m \in log /\ LogHolds(m, s)
        BY <3>4 DEF Ahead
      <4>2. CASE m = n /\ TableHolds(m, s)
        BY <3>1, <4>2 DEF Shown, TableHolds
      <4>3. CASE ~(m = n /\ TableHolds(m, s))
        <5>1. TableHolds(m, s)' <=> TableHolds(m, s)
          BY DEF TableHolds
        <5>2. LogHolds(m, s)' <=> LogHolds(m, s)
          BY DEF LogHolds
        <5>3. \/ m \in ldb' /\ TableHolds(m, s)'
              \/ m \in log' /\ LogHolds(m, s)'
          BY <3>1, <4>1, <4>3, <5>1, <5>2
        <5> QED
          BY <5>3 DEF Ahead, FileNumbers
      <4> QED
        BY <4>2, <4>3
    <3> QED
      BY <3>1, <3>2, <3>3, <3>4
  <2>7. ASSUME NEW n \in FileNumbers, ReadLog(n) PROVE Goal
    <3>1. /\ UNCHANGED <<pc, base, gone, found, ldb>> /\ pc = "logs"
          /\ log' = log \ {n} /\ ldb = {}
      BY <2>7 DEF ReadLog, IInv, SlotInv
    <3>2. s \in 1..base /\ LiveAt(s, base)
      BY <2>2, <3>1
    <3>3. s \in gone \/ Shown(s) \/ Ahead(s)
      BY <3>1, <3>2 DEF IInv, ScanInv
    <3>4. PICK k \in Keys : history[s].key = k /\ history[s].put
      <4>1. s \in 1..Len(history)
        BY <1>1, <3>2
      <4> QED
        BY <3>2, <4>1, HistoryTyped DEF LiveAt, IInv
    <3>5. slot[k] <= slot'[k] /\ slot[k] \in Nat /\ slot'[k] \in Nat
      BY <2>7, ReadLogSlots, TypeStep DEF IInv, TypeOK
    <3>6. Shown(s) => Shown(s)'
      BY <3>1, <3>4, <3>5 DEF Shown
    <3>7. ASSUME Ahead(s) PROVE Shown(s)' \/ Ahead(s)'
      <4>1. PICK m \in FileNumbers : m \in log /\ LogHolds(m, s)
        BY <3>1, <3>7 DEF Ahead
      <4>2. CASE m = n
        <5>1. s \in logs[n] /\ n \in DOMAIN logs
          BY <4>1, <4>2 DEF LogHolds
        <5>2. s <= slot'[k]
          BY <2>7, <3>4, <5>1, ReadLogSlots
        <5> QED
          BY <3>4, <5>2 DEF Shown
      <4>3. CASE m # n
        BY <2>3, <3>1, <4>1, <4>3 DEF Ahead, TableHolds, LogHolds
      <4> QED
        BY <4>2, <4>3
    <3> QED
      BY <3>1, <3>3, <3>6, <3>7
  <2> QED
    BY <1>3, <2>1, <2>4, <2>5, <2>6, <2>7 DEF Read
<1>4. ASSUME UNCHANGED <<pc, before, ldb, log, found, slot, base>>,
             gone \subseteq gone', LiveAt(s, base), history'[s].key = history[s].key,
             \A n \in FileNumbers :
               \/ s \in gone'
               \/ /\ TableHolds(n, s) => TableHolds(n, s)'
                  /\ LogHolds(n, s) => LogHolds(n, s)'
                  /\ Holds(n, s) => Holds(n, s)'
      PROVE  Goal
  <2>1. s \in 1..base
    BY <1>4
  <2>2. /\ pc = "listing" => s \in gone \/ \E n \in before : Holds(n, s)
        /\ pc \in {"tables", "logs", "done"} => s \in gone \/ Shown(s) \/ Ahead(s)
    BY <1>4, <2>1 DEF IInv, ScanInv
  <2>3. Shown(s) => Shown(s)'
    BY <1>4 DEF Shown
  <2>4. Ahead(s) => s \in gone' \/ Ahead(s)'
    BY <1>4 DEF Ahead
  <2> QED
    BY <1>1, <1>4, <2>2, <2>3, <2>4
<1>5. ASSUME UNCHANGED readVars, NEW k \in Keys, NEW put \in BOOLEAN, Write(k, put)
      PROVE  Goal
  <2>1. s \in 1..base /\ base' = base /\ s \in Nat
    BY <1>1, <1>5 DEF readVars
  <2>2. LiveAt(s, base)
    <3>1. PICK p \in 0..Len(history) : p = base
      BY <1>1
    <3>2. LiveAt(s, p)' /\ s \in 1..p
      BY <2>1, <3>1
    <3> QED
      BY <1>5, <3>1, <3>2, LiveBefore DEF IInv
  <2>3. history'[s] = history[s]
    BY <1>1, <1>5, <2>1 DEF Write, IInv, TypeOK, FilesTypeOK
  <2>4. \A n \in FileNumbers : ~Remove(n)
    BY <1>5 DEF Write, Remove, IInv, TypeOK, FilesTypeOK
  <2> QED
    BY <1>4, <1>5, <2>1, <2>2, <2>3, <2>4, HoldsStays DEF readVars
<1>6. ASSUME UNCHANGED readVars, SwitchLog \/ Flush \/ Compact \/ FinishTable
      PROVE  Goal
  <2>1. UNCHANGED history
    BY <1>6 DEF SwitchLog, Flush, Compact, FinishTable, CreateTable
  <2>2. s \in Nat /\ LiveAt(s, base)
    BY <1>1, <1>6, <2>1 DEF LiveAt, readVars
  <2>3. ASSUME NEW n \in FileNumbers PROVE ~Remove(n)
    <3>1. job' = job \/ job = NoJob \/ job.phase = "write"
      BY <1>6 DEF SwitchLog, Flush, Compact, FinishTable, CreateTable
    <3>2. Remove(n) => job'.in # job.in /\ job.phase = "clean"
      BY DEF Remove, NoJob, IInv, TypeOK, FilesTypeOK
    <3> QED
      BY <3>1, <3>2 DEF NoJob
  <2> QED
    BY <1>4, <1>6, <2>1, <2>2, <2>3, HoldsStays DEF readVars
<1>7. ASSUME NEW n \in FileNumbers, Remove(n),
             gone' = gone \cup (IF n \in DOMAIN tables THEN tables[n].seqs ELSE logs[n]),
             UNCHANGED <<pc, before, ldb, log, found, slot, base>>
      PROVE  Goal
  <2>1. /\ UNCHANGED history
        /\ DOMAIN tables' = DOMAIN tables \ {n} /\ DOMAIN logs' = DOMAIN logs \ {n}
        /\ \A m \in DOMAIN tables' : tables'[m] = tables[m]
        /\ \A m \in DOMAIN logs' : logs'[m] = logs[m]
    BY <1>7 DEF Remove, Drop
  <2>2. LiveAt(s, base)
    BY <1>7, <2>1 DEF LiveAt
  <2>3. Holds(n, s) => s \in gone'
    BY <1>7 DEF Holds, TableHolds, LogHolds, IInv, FilesInv
  <2>4. ASSUME NEW m \in FileNumbers, m # n
        PROVE  /\ TableHolds(m, s) => TableHolds(m, s)'
               /\ LogHolds(m, s) => LogHolds(m, s)'
    BY <2>1, <2>4 DEF TableHolds, LogHolds
  <2>5. \A m \in FileNumbers :
          \/ s \in gone'
          \/ /\ TableHolds(m, s) => TableHolds(m, s)'
             /\ LogHolds(m, s) => LogHolds(m, s)'
             /\ Holds(m, s) => Holds(m, s)'
    BY <2>3, <2>4 DEF Holds
  <2> QED
    BY <1>4, <1>7, <2>1, <2>2, <2>5
<1> QED
  BY <1>2, <1>3, <1>5, <1>6, <1>7, StepCases

-----------------------------------------------------------------------------
LEMMA InitIInv == Init => IInv
<1> SUFFICES ASSUME Init PROVE IInv
  OBVIOUS
<1> USE FilesAssumption DEF Init, FilesInit, FileNumbers
<1>1. TypeOK
  BY DEF TypeOK, FilesTypeOK, NoJob, Empty
<1>2. FilesInv /\ JobInv /\ HeldInv
  BY DEF FilesInv, JobInv, HeldInv, NoJob
<1>3. SlotInv /\ ScanInv
  BY DEF SlotInv, ScanInv, Empty
<1> QED
  BY <1>1, <1>2, <1>3 DEF IInv

THEOREM Invariance == Spec => []IInv
<1>1. IInv /\ [Next]_vars => IInv'
  BY TypeStep, FilesStep, JobStep, HeldStep, SlotStep, ScanStep DEF IInv
<1> QED
  BY InitIInv, <1>1, PTL DEF Spec

\* Every variable keeps its type: the writer's files and the reader's progress.
THEOREM ScanType == Spec => []TypeOK
<1>1. IInv => TypeOK
  BY DEF IInv
<1> QED
  BY Invariance, <1>1, PTL

\* When a scan ends every value there was at its start is in its map, or a newer
\* one of the same key, or its file was removed meanwhile.
THEOREM NothingMissed == Spec => []Complete
<1>1. ASSUME IInv, pc = "done", NEW k \in Keys, Live(k, base) # 0
      PROVE  ShowsAtLeast(k, Live(k, base)) \/ Live(k, base) \in gone
  <2> DEFINE s == Live(k, base)
             writes == {r \in 1..base : history[r].key = k}
  <2>1. /\ Len(history) \in Nat /\ base \in Nat /\ base <= Len(history)
        /\ slot \in [Keys -> 0..MaxWrites]
    BY <1>1 DEF IInv, TypeOK, FilesTypeOK, SlotInv
  <2>2. writes # {} /\ s = Newest(k, base) /\ history[s].put
    BY <1>1 DEF Live, Newest
  <2>3. \E r \in writes : \A q \in writes : q <= r
    <3>1. writes \in SUBSET (0..base)
      BY <2>1
    <3> HIDE DEF writes
    <3> QED
      BY <2>1, <2>2, <3>1, MaxExists
  <2>4. s \in writes /\ \A q \in writes : q <= s
    BY <2>2, <2>3 DEF Newest
  <2>5. s \in 1..base /\ LiveAt(s, base) /\ history[s].key = k
    BY <2>1, <2>2, <2>4 DEF LiveAt
  <2>6. s \in gone \/ Shown(s) \/ Ahead(s)
    BY <1>1, <2>5 DEF IInv, ScanInv
  <2>7. ~Ahead(s)
    BY <1>1 DEF IInv, SlotInv, Ahead
  <2>8. CASE s \in found
    BY <2>1, <2>2, <2>5, <2>8 DEF ShowsAtLeast, Result
  <2>9. CASE s <= slot[k]
    <3>1. slot[k] # 0
      BY <2>1, <2>5, <2>9
    <3>2. history[slot[k]].key = k /\ history[slot[k]].put
      BY <1>1, <3>1 DEF IInv, SlotInv
    <3> QED
      BY <2>9, <3>1, <3>2 DEF ShowsAtLeast, Result
  <2> QED
    BY <2>5, <2>6, <2>7, <2>8, <2>9 DEF Shown
<1>2. IInv => Complete
  BY <1>1 DEF Complete
<1> QED
  BY Invariance, <1>2, PTL

-----------------------------------------------------------------------------
(***************************************************************************)
(* A scan during which no file is removed is a consistent cut.  Without a  *)
(* removal the log is switched at most once during a scan, so the last log *)
(* that is read decides the moment: when it is read if it is the one being *)
(* written, when it was frozen if it is not.                               *)
(***************************************************************************)

\* The active log has the last writes, all of them newer than what a table has or
\* the scan has found in one; a frozen log is not empty.
OrderInv ==
  /\ \E q \in 0..Len(history) : logs[active] = q + 1..Len(history)
  /\ \A n \in DOMAIN tables : \A r \in tables[n].seqs, s \in logs[active] : r < s
  /\ \A n \in DOMAIN logs \ {active} : logs[n] # {}
  /\ found \subseteq 1..Len(history)
  /\ \A r \in found, s \in logs[active] : r < s

\* While a listing runs the log that was active when it began is there; what was
\* written since is in a log the listing will show, or in the active one.
ListingInv ==
  pc = "listing" /\ gone = {} =>
    /\ DOMAIN logs \cap before # {}
    /\ \A n \in DOMAIN logs \ before : \A s \in logs[n] : base < s
    /\ \A s \in base + 1..Len(history) :
         s \in logs[active] \/ \E n \in DOMAIN logs \cap before : s \in logs[n]

\* While logs are to be read, each write since the scan began is in one of them, or
\* in the active log, which may be too new to be listed, or is in a slot.
LogsInv ==
  pc \in {"tables", "logs"} /\ gone = {} /\ log # {} =>
    /\ log \subseteq DOMAIN logs
    /\ active \notin log => \A s \in logs[active] : base < s
    /\ \A s \in base + 1..Len(history) :
         \/ s \in logs[active]
         \/ \E n \in log : s \in logs[n]
         \/ history[s].put => s <= slot[history[s].key]

\* Moment p is where the map cuts: nothing newer is in it, and of what was written
\* between the scan's start and p every value is.
CutAt(p) ==
  /\ \A r \in found : r <= p
  /\ \A k \in Keys : slot[k] <= p
  /\ \A s \in base + 1..p : LiveAt(s, p) => s <= slot[history[s].key]

CutInv ==
  gone = {} =>
    /\ pc = "tables" => log # {}
    /\ pc \in {"logs", "done"} /\ log = {} => \E p \in base..Len(history) : CutAt(p)

CInv == OrderInv /\ ListingInv /\ LogsInv /\ CutInv

-----------------------------------------------------------------------------
\* Background work never touches the active log, nor brings its writes in a table.
LEMMA JobLogs ==
  ASSUME IInv, OrderInv, Flush \/ Compact \/ FinishTable
  PROVE  /\ UNCHANGED <<history, logs, active>>
         /\ \A n \in DOMAIN tables' : \A r \in tables'[n].seqs, s \in logs[active] : r < s
<1> DEFINE Older(seqs) == \A r \in seqs, s \in logs[active] : r < s
<1>1. ASSUME NEW seqs, NEW inputs, CreateTable(seqs, inputs), Older(seqs)
      PROVE  /\ UNCHANGED <<history, logs, active>>
             /\ \A n \in DOMAIN tables' : Older(tables'[n].seqs)
  BY <1>1 DEF CreateTable, Put, OrderInv
<1>2. CASE Flush
  <2>1. PICK n \in DOMAIN logs \ {active} : CreateTable(logs[n], {n})
    BY <1>2 DEF Flush
  <2>2. Older(logs[n])
    <3>1. n \in Int /\ active \in Int /\ n <= active /\ n # active /\ active \in DOMAIN logs
      BY DEF IInv, FilesInv, TypeOK, FilesTypeOK, FileNumbers
    <3>2. n < active
      BY <3>1
    <3> QED
      BY <3>1, <3>2 DEF IInv, FilesInv
  <2> HIDE DEF Older
  <2>3. QED
    BY <1>1, <2>1, <2>2 DEF Older
<1>3. CASE Compact
  <2>1. PICK S \in SUBSET DOMAIN tables : CreateTable(Survivors(S), S)
    BY <1>3 DEF Compact
  <2>2. Survivors(S) \subseteq UNION {tables[n].seqs : n \in S}
    BY DEF Survivors
  <2>3. Older(Survivors(S))
    BY <2>2 DEF OrderInv
  <2> HIDE DEF Older
  <2>4. QED
    BY <1>1, <2>1, <2>3 DEF Older
<1>4. CASE FinishTable
  <2>1. /\ UNCHANGED <<history, logs, active>> /\ DOMAIN tables' = DOMAIN tables
        /\ \A n \in DOMAIN tables : tables'[n].seqs = tables[n].seqs
    BY <1>4 DEF FinishTable, IInv, TypeOK, FilesTypeOK
  <2> QED
    BY <2>1 DEF OrderInv
<1> QED
  BY <1>2, <1>3, <1>4

\* A new write is the newest; a new log is empty, and the one before it is not.
LEMMA OrderStep == IInv /\ OrderInv /\ [Next]_vars => OrderInv'
<1> SUFFICES ASSUME IInv, OrderInv, [Next]_vars PROVE OrderInv'
  OBVIOUS
<1> USE DEF OrderInv
<1>1. /\ Len(history) \in Nat /\ active \in DOMAIN logs /\ active < nextFile
      /\ \A n \in DOMAIN tables : tables[n].seqs \subseteq 1..Len(history)
  BY DEF IInv, TypeOK, FilesTypeOK, FilesInv
<1>2. CASE UNCHANGED vars
  BY <1>2 DEF vars, fileVars, readVars
<1>3. CASE Read /\ UNCHANGED fileVars
  <2>1. found' \in {found, {}} \/ \E n \in DOMAIN tables : found' = found \cup tables[n].seqs
    BY <1>3 DEF Read, ListBegin, ListEnd, ListFails, TablesDone, Return, ReadTable, ReadLog
  <2> QED
    BY <1>1, <1>3, <2>1 DEF fileVars
<1>4. ASSUME UNCHANGED readVars, NEW k \in Keys, NEW put \in BOOLEAN, Write(k, put)
      PROVE  OrderInv'
  <2>1. /\ Len(history') = Len(history) + 1 /\ UNCHANGED <<tables, active, found>>
        /\ DOMAIN logs' = DOMAIN logs
        /\ logs'[active] = logs[active] \cup {Len(history) + 1}
        /\ \A n \in DOMAIN logs \ {active} : logs'[n] = logs[n]
    BY <1>1, <1>4 DEF Write, readVars, IInv, TypeOK, FilesTypeOK
  <2>2. \E q \in 0..Len(history') : logs'[active'] = q + 1..Len(history')
    <3>1. PICK q \in 0..Len(history) : logs[active] = q + 1..Len(history)
      OBVIOUS
    <3>2. logs'[active] = q + 1..Len(history) + 1
      BY <1>1, <2>1, <3>1
    <3>3. q \in 0..Len(history) + 1
      BY <1>1
    <3> QED
      BY <2>1, <3>2, <3>3
  <2>3. \A r \in 1..Len(history) : r < Len(history) + 1
    BY <1>1
  <2>4. found' \subseteq 1..Len(history')
    BY <1>1, <2>1
  <2> QED
    BY <1>1, <2>1, <2>2, <2>3, <2>4
<1>5. CASE UNCHANGED readVars /\ SwitchLog
  <2>1. /\ active' = nextFile /\ DOMAIN logs = {active} /\ logs[active] # {}
        /\ DOMAIN logs' = {active, nextFile} /\ logs'[nextFile] = {}
        /\ logs'[active] = logs[active] /\ UNCHANGED <<history, tables, found>>
    BY <1>1, <1>5 DEF SwitchLog, Put, readVars, IInv, TypeOK, FilesTypeOK
  <2>2. logs'[active'] = Len(history) + 1..Len(history) /\ logs'[active'] = {}
    BY <1>1, <2>1
  <2>3. \A n \in DOMAIN logs' \ {active'} : logs'[n] # {}
    BY <2>1
  <2>4. \E q \in 0..Len(history') : logs'[active'] = q + 1..Len(history')
    <3> DEFINE n == Len(history)
    <3>1. Len(history') = n /\ n \in 0..n
      BY <1>1, <2>1
    <3>2. logs'[active'] = n + 1..n
      BY <2>2
    <3> HIDE DEF n
    <3> QED
      BY <3>1, <3>2
  <2>5. found' \subseteq 1..Len(history')
    BY <2>1
  <2> QED
    BY <2>2, <2>3, <2>4, <2>5
<1>6. CASE UNCHANGED readVars /\ (Flush \/ Compact \/ FinishTable)
  BY <1>6, JobLogs DEF readVars
<1>7. ASSUME NEW n \in FileNumbers, Remove(n), UNCHANGED found PROVE OrderInv'
  <2>1. n # active
    BY <1>7 DEF Remove, IInv, JobInv
  <2> QED
    BY <1>1, <1>7, <2>1 DEF Remove, Drop
<1> QED
  BY <1>2, <1>3, <1>4, <1>5, <1>6, <1>7, StepCases

-----------------------------------------------------------------------------
\* What a step of the writer does to the logs while nothing is lost: it writes the
\* newest write in the active one, or begins a new one when there is one, or none.
LEMMA LogSteps ==
  ASSUME IInv, OrderInv, [Next]_vars, ~Read, gone' = {}, pc' # "idle"
  PROVE  /\ gone = {} /\ UNCHANGED <<pc, before, ldb, log, found, slot, base>>
         /\ \/ UNCHANGED <<history, active, DOMAIN logs>>
               /\ \A n \in DOMAIN logs : logs'[n] = logs[n]
            \/ \E k \in Keys, put \in BOOLEAN : Write(k, put)
            \/ SwitchLog
<1>1. CASE UNCHANGED vars
  BY <1>1 DEF vars, fileVars, readVars
<1>2. CASE UNCHANGED readVars /\ \E k \in Keys, put \in BOOLEAN : Write(k, put)
  BY <1>2 DEF readVars
<1>3. CASE UNCHANGED readVars /\ SwitchLog
  BY <1>3 DEF readVars
<1>4. CASE UNCHANGED readVars /\ (Flush \/ Compact \/ FinishTable)
  BY <1>4, JobLogs DEF readVars
<1>5. ASSUME NEW n \in FileNumbers, Remove(n),
             gone' = gone \cup (IF n \in DOMAIN tables THEN tables[n].seqs ELSE logs[n]),
             UNCHANGED <<pc, before, ldb, log, found, slot, base>>
      PROVE  /\ gone = {} /\ UNCHANGED <<history, active, DOMAIN logs>>
             /\ \A m \in DOMAIN logs : logs'[m] = logs[m]
  <2>1. n \in DOMAIN tables \cup DOMAIN logs /\ n # active
    BY <1>5 DEF Remove, IInv, JobInv
  <2>2. n \notin DOMAIN logs
    BY <1>5, <2>1 DEF OrderInv, IInv, FilesInv
  <2> QED
    BY <1>5, <2>2 DEF Remove, Drop
<1> QED
  BY <1>1, <1>2, <1>3, <1>4, <1>5, StepCases

\* The effect of a write and of a switch on the logs.
LEMMA WriteLogs ==
  ASSUME IInv, NEW k \in Keys, NEW put \in BOOLEAN, Write(k, put)
  PROVE  /\ Len(history) \in Nat /\ Len(history') = Len(history) + 1
         /\ \A s \in 1..Len(history) : history'[s] = history[s]
         /\ DOMAIN logs' = DOMAIN logs /\ active' = active /\ active \in DOMAIN logs
         /\ logs'[active] = logs[active] \cup {Len(history) + 1}
         /\ \A n \in DOMAIN logs \ {active} : logs'[n] = logs[n]
BY DEF Write, IInv, TypeOK, FilesTypeOK

LEMMA SwitchLogs ==
  ASSUME IInv, SwitchLog
  PROVE  /\ history' = history /\ active' = nextFile /\ DOMAIN logs = {active}
         /\ nextFile # active /\ DOMAIN logs' = {active, nextFile}
         /\ logs'[active] = logs[active] /\ logs'[nextFile] = {}
BY DEF SwitchLog, Put, IInv, TypeOK, FilesTypeOK, FilesInv

\* A log that is begun while the listing runs gets only newer writes.
LEMMA ListingStep == IInv /\ OrderInv /\ ListingInv /\ [Next]_vars => ListingInv'
<1> SUFFICES ASSUME IInv, OrderInv, ListingInv, [Next]_vars, pc' = "listing", gone' = {}
             PROVE  ListingInv'
  BY DEF ListingInv
<1>1. Len(history) \in Nat /\ base \in Nat /\ base <= Len(history) /\ active \in DOMAIN logs
  BY DEF IInv, TypeOK, FilesTypeOK, SlotInv
<1>2. CASE Read
  <2>1. ListBegin /\ UNCHANGED fileVars
    BY <1>2, ReaderStep
       DEF Read, ListBegin, ListEnd, ListFails, TablesDone, Return, ReadTable, ReadLog
  <2>2. before' = DOMAIN tables \cup DOMAIN logs /\ base' = Len(history)
        /\ UNCHANGED <<history, logs, active>>
    BY <2>1 DEF ListBegin, fileVars
  <2> QED
    BY <1>1, <2>2 DEF ListingInv
<1>3. CASE ~Read
  <2>1. UNCHANGED <<pc, before, base>> /\ gone = {} /\ pc = "listing"
    BY <1>3, LogSteps
  <2>2. CASE /\ UNCHANGED <<history, active, DOMAIN logs>>
             /\ \A n \in DOMAIN logs : logs'[n] = logs[n]
    BY <1>1, <2>1, <2>2 DEF ListingInv
  <2>3. ASSUME NEW k \in Keys, NEW put \in BOOLEAN, Write(k, put) PROVE ListingInv'
    <3>1. ASSUME NEW n \in DOMAIN logs \ before, NEW s \in logs'[n] PROVE base < s
      <4>1. s \in logs[n] \/ s = Len(history) + 1
        BY <2>3, WriteLogs
      <4> QED
        BY <1>1, <2>1, <4>1 DEF ListingInv
    <3>2. ASSUME NEW s \in base + 1..Len(history) + 1
          PROVE  s \in logs'[active] \/ \E n \in DOMAIN logs \cap before : s \in logs'[n]
      <4>1. s \in base + 1..Len(history) \/ s = Len(history) + 1
        BY <1>1
      <4>2. \A n \in DOMAIN logs : logs[n] \subseteq logs'[n]
        BY <2>3, WriteLogs
      <4>3. Len(history) + 1 \in logs'[active]
        BY <2>3, WriteLogs
      <4> QED
        BY <1>1, <2>1, <4>1, <4>2, <4>3 DEF ListingInv
    <3> QED
      BY <1>1, <2>1, <2>3, <3>1, <3>2, WriteLogs DEF ListingInv
  <2>4. CASE SwitchLog
    <3>1. active \in before
      BY <2>1, <2>4, SwitchLogs DEF ListingInv
    <3> QED
      BY <2>1, <2>4, <3>1, SwitchLogs DEF ListingInv
  <2> QED
    BY <1>3, <2>2, <2>3, <2>4, LogSteps
<1> QED
  BY <1>2, <1>3

-----------------------------------------------------------------------------
\* After a log is read its puts, and what was in the slots before, are in the slots.
LEMMA ReadLogShows ==
  ASSUME IInv, [Next]_vars, NEW n \in DOMAIN logs, ReadLog(n), NEW s \in 1..Len(history),
         history[s].put, s \in logs[n] \/ s <= slot[history[s].key]
  PROVE  s <= slot'[history[s].key]
<1> DEFINE k == history[s].key
<1>1. k \in Keys /\ s \in Nat /\ n \in FileNumbers
  <2>1. n \in FileNumbers
    BY DEF IInv, TypeOK, FilesTypeOK
  <2> QED
    BY <2>1, HistoryTyped DEF IInv
<1>2. slot[k] \in Nat /\ slot'[k] \in Nat
  BY <1>1, TypeStep DEF IInv, TypeOK
<1>3. slot[k] <= slot'[k]
  BY <1>1, ReadLogSlots
<1>4. CASE s \in logs[n]
  BY <1>1, <1>4, ReadLogSlots
<1>5. CASE s <= slot[k]
  <2> HIDE DEF k
  <2> QED
    BY <1>1, <1>2, <1>3, <1>5 DEF k
<1> QED
  BY <1>4, <1>5

\* Until the last log is read: a log that was read put what is new in the slots.
LEMMA LogsStep == IInv /\ OrderInv /\ ListingInv /\ LogsInv /\ [Next]_vars => LogsInv'
<1> SUFFICES ASSUME IInv, OrderInv, ListingInv, LogsInv, [Next]_vars,
                    pc' \in {"tables", "logs"}, gone' = {}, log' # {}
             PROVE  LogsInv'
  BY DEF LogsInv
<1>1. Len(history) \in Nat /\ base \in Nat /\ base <= Len(history) /\ active \in DOMAIN logs
  BY DEF IInv, TypeOK, FilesTypeOK, SlotInv
<1>2. CASE Read
  <2>1. UNCHANGED <<history, logs, active>>
    BY <1>2, ReaderStep DEF fileVars
  <2>2. CASE ListEnd
    <3>1. /\ gone = {} /\ pc = "listing" /\ base' = base /\ slot' = slot
          /\ log' \subseteq DOMAIN logs /\ DOMAIN logs \cap before \subseteq log'
      BY <2>2 DEF ListEnd
    <3> QED
      BY <1>1, <2>1, <3>1 DEF ListingInv, LogsInv
  <2>3. CASE TablesDone \/ Return \/ \E n \in FileNumbers : ReadTable(n)
    <3>1. /\ gone = {} /\ pc \in {"tables", "logs"} /\ log' = log
          /\ base' = base /\ slot' = slot
      BY <2>3 DEF TablesDone, Return, ReadTable
    <3> QED
      BY <2>1, <3>1 DEF LogsInv
  <2>4. ASSUME NEW n \in FileNumbers, ReadLog(n) PROVE LogsInv'
    <3>1. /\ gone = {} /\ pc = "logs" /\ n \in log /\ log' = log \ {n} /\ base' = base
          /\ \A m \in log : n <= m
      BY <2>4 DEF ReadLog, First
    <3>2. log \subseteq DOMAIN logs /\ n \in DOMAIN logs
      BY <3>1 DEF LogsInv
    <3>3. n # active
      <4>1. PICK m \in log' : TRUE
        OBVIOUS
      <4>2. m <= active /\ n <= m /\ m # n /\ m \in Nat /\ n \in Nat
        BY <3>1, <3>2, <4>1 DEF IInv, FilesInv, TypeOK, FilesTypeOK, FileNumbers
      <4> QED
        BY <3>2, <4>2 DEF IInv, TypeOK, FilesTypeOK, FileNumbers
    <3>4. ASSUME NEW s \in base + 1..Len(history), history[s].put,
                 s \in logs[n] \/ s <= slot[history[s].key]
          PROVE  s <= slot'[history[s].key]
      <4>1. s \in 1..Len(history)
        BY <1>1
      <4> QED
        BY <2>4, <3>2, <3>4, <4>1, ReadLogShows
    <3> QED
      BY <2>1, <3>1, <3>2, <3>3, <3>4 DEF LogsInv
  <2> QED
    BY <1>2, <2>2, <2>3, <2>4 DEF Read, ListBegin, ListFails
<1>3. CASE ~Read
  <2>1. /\ UNCHANGED <<pc, base, log, slot>> /\ gone = {} /\ pc \in {"tables", "logs"}
        /\ log \subseteq DOMAIN logs /\ log # {}
    BY <1>3, LogSteps DEF LogsInv
  <2>2. CASE /\ UNCHANGED <<history, active, DOMAIN logs>>
             /\ \A n \in DOMAIN logs : logs'[n] = logs[n]
    BY <1>1, <2>1, <2>2 DEF LogsInv
  <2>3. ASSUME NEW k \in Keys, NEW put \in BOOLEAN, Write(k, put) PROVE LogsInv'
    <3>1. ASSUME active \notin log, NEW s \in logs'[active] PROVE base < s
      <4>1. s \in logs[active] \/ s = Len(history) + 1
        BY <2>3, <3>1, WriteLogs
      <4> QED
        BY <1>1, <2>1, <3>1, <4>1 DEF LogsInv
    <3>2. ASSUME NEW s \in base + 1..Len(history) + 1
          PROVE  \/ s \in logs'[active]
                 \/ \E n \in log : s \in logs'[n]
                 \/ history'[s].put => s <= slot[history'[s].key]
      <4>1. \A n \in DOMAIN logs : logs[n] \subseteq logs'[n]
        BY <2>3, WriteLogs
      <4>2. CASE s = Len(history) + 1
        BY <2>3, <4>2, WriteLogs
      <4>3. CASE s \in base + 1..Len(history)
        <5>1. history'[s] = history[s]
          BY <1>1, <2>3, <4>3, WriteLogs
        <5> QED
          BY <1>1, <2>1, <4>1, <4>3, <5>1 DEF LogsInv
      <4> QED
        BY <1>1, <4>2, <4>3
    <3> QED
      BY <1>1, <2>1, <2>3, <3>1, <3>2, WriteLogs DEF LogsInv
  <2>4. CASE SwitchLog
    <3>1. log = {active}
      BY <2>1, <2>4, SwitchLogs
    <3> QED
      BY <2>1, <2>4, <3>1, SwitchLogs DEF LogsInv
  <2> QED
    BY <1>3, <2>2, <2>3, <2>4, LogSteps
<1> QED
  BY <1>2, <1>3

-----------------------------------------------------------------------------
\* The last log: the map cuts now if it is the active one, else where that begins.
LEMMA LastLog ==
  ASSUME IInv, OrderInv, LogsInv, [Next]_vars, NEW n \in FileNumbers, ReadLog(n),
         gone = {}, log = {n}
  PROVE  \E p \in base..Len(history) : CutAt(p)'
<1>1. Len(history) \in Nat /\ base \in Nat /\ base <= Len(history)
  BY DEF IInv, TypeOK, FilesTypeOK, SlotInv
<1>2. /\ UNCHANGED <<history, logs, active, found, base>> /\ pc = "logs"
      /\ n \in DOMAIN logs
      /\ n # active => \A s \in logs[active] : base < s
  BY DEF ReadLog, fileVars, LogsInv
<1>3. PICK q \in 0..Len(history) : logs[active] = q + 1..Len(history)
  BY DEF OrderInv
<1>4. PICK p \in 0..Len(history) : p = IF n = active THEN Len(history) ELSE q
  BY <1>1
<1>5. p \in base..Len(history)
  <2>1. CASE n = active
    BY <1>1, <1>4, <2>1
  <2>2. CASE n # active /\ q < Len(history)
    <3>1. q + 1 \in logs[active]
      BY <1>1, <1>3, <1>4, <2>2
    <3> QED
      BY <1>1, <1>2, <1>3, <1>4, <2>2, <3>1
  <2>3. CASE n # active /\ q = Len(history)
    BY <1>1, <1>3, <1>4, <2>3
  <2> QED
    BY <1>1, <1>3, <1>4, <2>1, <2>2, <2>3
<1>6. ASSUME NEW r \in 1..Len(history), n # active => \A s \in logs[active] : r < s
      PROVE  r <= p
  <2>1. CASE n # active /\ q < Len(history)
    <3>1. q + 1 \in logs[active]
      BY <1>1, <1>3, <2>1
    <3> QED
      BY <1>1, <1>3, <1>4, <1>6, <2>1, <3>1
  <2> QED
    BY <1>1, <1>3, <1>4, <2>1
<1>7. ASSUME NEW r \in logs[n] PROVE r \in 1..Len(history) /\ r <= p
  <2>1. r \in 1..Len(history) /\ (n # active => n < active)
    BY <1>2, <1>7 DEF IInv, FilesInv, TypeOK, FilesTypeOK, FileNumbers
  <2>2. n # active => \A s \in logs[active] : r < s
    BY <1>2, <1>7, <2>1 DEF IInv, FilesInv, TypeOK, FilesTypeOK
  <2> QED
    BY <1>6, <2>1, <2>2
<1>8. \A r \in found : r <= p
  BY <1>6 DEF OrderInv
<1>9. ASSUME NEW k \in Keys PROVE slot'[k] <= p
  <2>1. CASE slot'[k] \in logs[n]
    BY <1>7, <2>1
  <2>2. CASE slot'[k] = slot[k] /\ n = active
    BY <1>1, <1>4, <2>2 DEF IInv, SlotInv, TypeOK
  <2>3. CASE slot'[k] = slot[k] /\ n # active
    <3>1. PICK s \in logs[n] : TRUE
      BY <1>2, <2>3 DEF OrderInv
    <3>2. slot[k] < s /\ slot[k] \in Nat
      BY <1>2 DEF IInv, SlotInv, TypeOK
    <3>3. s \in Nat /\ s <= p /\ p \in Nat
      BY <1>1, <1>5, <1>7
    <3> QED
      BY <2>3, <3>2, <3>3
  <2> QED
    BY <2>1, <2>2, <2>3, ReadLogSlots
<1>10. ASSUME NEW s \in base + 1..p, history[s].put PROVE s <= slot'[history[s].key]
  <2>1. s \in base + 1..Len(history) /\ s \in 1..Len(history)
    BY <1>1, <1>5
  <2>2. n # active => s \notin logs[active]
    BY <1>1, <1>3, <1>4
  <2>3. s \in logs[n] \/ s <= slot[history[s].key]
    BY <1>2, <1>10, <2>1, <2>2 DEF LogsInv
  <2> QED
    BY <1>2, <1>10, <2>1, <2>3, ReadLogShows
<1>11. CutAt(p)'
  BY <1>2, <1>8, <1>9, <1>10 DEF CutAt, LiveAt
<1> QED
  BY <1>5, <1>11

\* Once there is a moment at which the map cuts, later writes leave it.
LEMMA CutStep ==
  IInv /\ OrderInv /\ ListingInv /\ LogsInv /\ CutInv /\ [Next]_vars => CutInv'
<1> SUFFICES ASSUME IInv, OrderInv, ListingInv, LogsInv, CutInv, [Next]_vars, gone' = {}
             PROVE  CutInv'
  BY DEF CutInv
<1>1. Len(history) \in Nat /\ base \in Nat /\ active \in DOMAIN logs
  BY DEF IInv, TypeOK, FilesTypeOK
<1>2. ASSUME gone = {}, CutInv, UNCHANGED <<pc, log, base, found, slot>>,
             Len(history) <= Len(history'), Len(history') \in Nat,
             \A s \in 1..Len(history) : history'[s] = history[s]
      PROVE  CutInv'
  <2>1. ASSUME NEW p \in base..Len(history), CutAt(p) PROVE CutAt(p)'
    <3>1. ASSUME NEW s \in base + 1..p, LiveAt(s, p)' PROVE s <= slot[history'[s].key]
      <4>1. s \in 1..Len(history) /\ s + 1..p \subseteq 1..Len(history)
        BY <1>1
      <4>2. LiveAt(s, p) /\ history'[s] = history[s]
        BY <1>2, <3>1, <4>1 DEF LiveAt
      <4> QED
        BY <2>1, <4>2 DEF CutAt
    <3> QED
      BY <1>2, <2>1, <3>1 DEF CutAt
  <2>2. base..Len(history) \subseteq base..Len(history')
    BY <1>1, <1>2
  <2> QED
    BY <1>2, <2>1, <2>2 DEF CutInv
<1>3. CASE Read
  <2>1. UNCHANGED <<history, logs, active>>
    BY <1>3, ReaderStep DEF fileVars
  <2>2. CASE ListBegin \/ ListFails
    BY <2>2 DEF ListBegin, ListFails, CutInv
  <2>3. CASE ListEnd
    <3>1. pc = "listing" /\ gone = {} /\ pc' = "tables" /\ DOMAIN logs \cap before \subseteq log'
      BY <2>3 DEF ListEnd
    <3> QED
      BY <3>1 DEF ListingInv, CutInv
  <2>4. CASE TablesDone \/ \E n \in FileNumbers : ReadTable(n)
    BY <2>4 DEF TablesDone, ReadTable, CutInv
  <2>5. CASE Return
    <3>1. /\ gone = {} /\ pc = "logs" /\ pc' = "done"
          /\ UNCHANGED <<log, base, found, slot, history>>
      BY <2>1, <2>5 DEF Return
    <3>2. \A p \in base..Len(history) : CutAt(p) => CutAt(p)'
      BY <3>1 DEF CutAt, LiveAt
    <3> QED
      BY <3>1, <3>2 DEF CutInv
  <2>6. ASSUME NEW n \in FileNumbers, ReadLog(n) PROVE CutInv'
    <3>1. gone = {} /\ pc' = "logs" /\ n \in log /\ log' = log \ {n} /\ base' = base
      BY <2>6 DEF ReadLog, First
    <3>2. CASE log = {n}
      BY <2>1, <2>6, <3>1, <3>2, LastLog DEF CutInv
    <3>3. CASE log # {n}
      BY <3>1, <3>3 DEF CutInv
    <3> QED
      BY <3>2, <3>3
  <2> QED
    BY <1>3, <2>2, <2>3, <2>4, <2>5, <2>6 DEF Read
<1>4. CASE ~Read
  <2>1. CASE pc' = "idle"
    BY <2>1 DEF CutInv
  <2>2. CASE pc' # "idle"
    <3>1. gone = {} /\ UNCHANGED <<pc, log, base, found, slot>>
      BY <1>4, <2>2, LogSteps
    <3>2. CASE UNCHANGED history
      BY <1>1, <1>2, <3>1, <3>2
    <3>3. ASSUME NEW k \in Keys, NEW put \in BOOLEAN, Write(k, put) PROVE CutInv'
      BY <1>1, <1>2, <3>1, <3>3, WriteLogs
    <3> QED
      BY <1>4, <2>2, <3>2, <3>3, LogSteps, SwitchLogs
  <2> QED
    BY <2>1, <2>2
<1> QED
  BY <1>3, <1>4

-----------------------------------------------------------------------------
LEMMA InitCInv == Init => CInv
<1> SUFFICES ASSUME Init PROVE CInv
  OBVIOUS
<1> USE DEF Init, FilesInit
<1>1. Len(history) = 0 /\ logs[active] = 1..0
  OBVIOUS
<1>2. \E q \in 0..Len(history) : logs[active] = q + 1..Len(history)
  BY <1>1
<1>3. OrderInv
  BY <1>2 DEF OrderInv
<1> QED
  BY <1>3 DEF CInv, ListingInv, LogsInv, CutInv

THEOREM CutInvariance == Spec => [](IInv /\ CInv)
<1>1. Init => IInv /\ CInv
  BY InitIInv, InitCInv
<1>2. IInv /\ CInv /\ [Next]_vars => (IInv /\ CInv)'
  <2>1. IInv /\ [Next]_vars => IInv'
    BY TypeStep, FilesStep, JobStep, HeldStep, SlotStep, ScanStep DEF IInv
  <2> QED
    BY <2>1, OrderStep, ListingStep, LogsStep, CutStep DEF CInv
<1> QED
  BY <1>1, <1>2, PTL DEF Spec

\* The value of a key at a moment is the live write of that key.
LEMMA LiveIsLiveAt ==
  ASSUME NEW p \in Nat, NEW k \in Keys, Live(k, p) # 0
  PROVE  LiveAt(Live(k, p), p) /\ history[Live(k, p)].key = k
<1> DEFINE s == Live(k, p)
           writes == {r \in 1..p : history[r].key = k}
<1>1. writes # {} /\ s = Newest(k, p) /\ history[s].put
  BY DEF Live, Newest
<1>2. \E r \in writes : \A q \in writes : q <= r
  <2>1. writes \in SUBSET (0..p)
    OBVIOUS
  <2> HIDE DEF writes
  <2> QED
    BY <1>1, <2>1, MaxExists
<1>3. s \in writes /\ \A q \in writes : q <= s
  BY <1>1, <1>2 DEF Newest
<1> QED
  BY <1>1, <1>3 DEF LiveAt

\* A scan during which no file is removed shows every key's value as of one moment
\* between its start and its end, and nothing written later.
THEOREM OneMoment == Spec => []ConsistentCut
<1>1. ASSUME IInv, CInv, pc = "done", gone = {}
      PROVE  \E p \in base..Len(history) :
               /\ \A r \in Result : r <= p
               /\ \A k \in Keys : Live(k, p) # 0 => Live(k, p) \in Result
  <2>1. /\ Len(history) \in Nat /\ base \in Nat /\ ldb = {} /\ log = {}
        /\ slot \in [Keys -> 0..MaxWrites]
    BY <1>1 DEF IInv, TypeOK, FilesTypeOK, SlotInv
  <2>2. PICK p \in base..Len(history) : CutAt(p)
    BY <1>1, <2>1 DEF CInv, CutInv
  <2>3. \A r \in Result : r <= p
    BY <2>2 DEF Result, CutAt
  <2>4. ASSUME NEW k \in Keys, Live(k, p) # 0 PROVE Live(k, p) \in Result
    <3>1. PICK s : s = Live(k, p)
      OBVIOUS
    <3>2. p \in Nat /\ p <= Len(history)
      BY <2>1
    <3>3. LiveAt(s, p) /\ history[s].key = k /\ s # 0
      BY <2>4, <3>1, <3>2, LiveIsLiveAt
    <3>4. s \in 1..p
      BY <3>3 DEF LiveAt
    <3>5. s \in found \/ s <= slot[k]
      <4>1. CASE s \in base + 1..p
        BY <2>2, <3>3, <4>1 DEF CutAt
      <4>2. CASE s \in 1..base
        <5>1. LiveAt(s, base)
          BY <2>1, <2>2, <3>3, <4>2 DEF LiveAt
        <5>2. Shown(s) \/ Ahead(s)
          BY <1>1, <4>2, <5>1 DEF IInv, ScanInv
        <5> QED
          BY <2>1, <3>3, <5>2 DEF Shown, Ahead
      <4> QED
        BY <2>1, <2>2, <3>4, <4>1, <4>2
    <3>6. CASE s \in found
      BY <3>1, <3>3, <3>6 DEF Result
    <3>7. CASE s <= slot[k]
      <4>1. slot[k] \in Nat /\ slot[k] # 0 /\ slot[k] <= p
        BY <2>1, <2>2, <3>4, <3>7 DEF CutAt
      <4>2. history[slot[k]].key = k
        BY <1>1, <4>1 DEF IInv, SlotInv
      <4>3. slot[k] \notin s + 1..p
        BY <3>3, <4>2 DEF LiveAt
      <4>4. slot[k] = s
        BY <3>2, <3>4, <3>7, <4>1, <4>3
      <4> QED
        BY <3>1, <3>3, <4>4 DEF Result
    <3> QED
      BY <3>5, <3>6, <3>7
  <2> QED
    BY <2>3, <2>4
<1>2. IInv /\ CInv => ConsistentCut
  BY <1>1 DEF ConsistentCut
<1> QED
  BY CutInvariance, <1>2, PTL
=============================================================================
