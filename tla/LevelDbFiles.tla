---------------------------- MODULE LevelDbFiles ----------------------------
(***************************************************************************)
(* The writer's side, outside this repository: what Chromium's LevelDB     *)
(* does to the files of the Teams IndexedDB directory while                *)
(* crates/teams-core/src/leveldb reads them without taking its LOCK.       *)
(*                                                                         *)
(* Write number s is history[s]; a file is abstracted to the set of write  *)
(* numbers it holds.  Writes go to the active log.  A full log is frozen,  *)
(* flushed to a table and removed; tables are merged into a new table that *)
(* keeps the newest write of each key, and then removed.  A table is on    *)
(* disk, but unreadable, from the moment it is created until it is whole.  *)
(***************************************************************************)
EXTENDS Naturals, Sequences

CONSTANTS Keys,        \* user keys
          MaxWrites,   \* bound: writes and deletions
          MaxFiles     \* bound: file numbers

ASSUME FilesAssumption == MaxWrites \in Nat /\ MaxFiles \in Nat \ {0}

VARIABLES history,     \* every write so far: [key, put], a deletion has ~put
          tables,      \* .ldb files: number -> [seqs, whole]
          logs,        \* .log files: number -> set of write numbers
          active,      \* number of the log being written
          nextFile,    \* next file number
          job          \* background work: [out, in, phase]

fileVars == <<history, tables, logs, active, nextFile, job>>

FileNumbers == 1..MaxFiles

\* f with x mapped to y, and f without the elements of S.
Put(f, x, y) == [z \in DOMAIN f \cup {x} |-> IF z = x THEN y ELSE f[z]]
Drop(f, S) == [z \in DOMAIN f \ S |-> f[z]]

NoJob == [out |-> 0, in |-> {}, phase |-> "none"]

FilesInit ==
  /\ history = <<>>
  /\ tables = [n \in {} |-> [seqs |-> {}, whole |-> TRUE]]
  /\ logs = [n \in {1} |-> {}]
  /\ active = 1 /\ nextFile = 2
  /\ job = NoJob

Write(k, put) ==
  /\ Len(history) < MaxWrites
  /\ history' = Append(history, [key |-> k, put |-> put])
  /\ logs' = [logs EXCEPT ![active] = @ \cup {Len(history) + 1}]
  /\ UNCHANGED <<tables, active, nextFile, job>>

\* The active log is full: a new one takes over and the old one is frozen
\* until it is flushed.
SwitchLog ==
  /\ nextFile <= MaxFiles
  /\ DOMAIN logs = {active} /\ logs[active] # {}
  /\ logs' = Put(logs, nextFile, {})
  /\ active' = nextFile
  /\ nextFile' = nextFile + 1
  /\ UNCHANGED <<history, tables, job>>

CreateTable(seqs, inputs) ==
  /\ job = NoJob /\ nextFile <= MaxFiles
  /\ tables' = Put(tables, nextFile, [seqs |-> seqs, whole |-> FALSE])
  /\ job' = [out |-> nextFile, in |-> inputs, phase |-> "write"]
  /\ nextFile' = nextFile + 1
  /\ UNCHANGED <<history, logs, active>>

\* A frozen log is written to a table, every version of it.
Flush == \E n \in DOMAIN logs \ {active} : CreateTable(logs[n], {n})

\* What a merge of the tables S keeps: the newest write of each key, but no
\* deletion when no other table can hold the deleted key.
Survivors(S) ==
  LET all == UNION {tables[n].seqs : n \in S}
      newest == {s \in all : \A r \in all : history[r].key = history[s].key => r <= s}
  IN IF S = DOMAIN tables THEN {s \in newest : history[s].put} ELSE newest

Compact == \E S \in SUBSET DOMAIN tables :
             /\ S # {} /\ \A n \in S : tables[n].whole
             /\ CreateTable(Survivors(S), S)

FinishTable ==
  /\ job.phase = "write"
  /\ tables' = [tables EXCEPT ![job.out].whole = TRUE]
  /\ job' = [job EXCEPT !.phase = "clean"]
  /\ UNCHANGED <<history, logs, active, nextFile>>

\* The inputs of finished work are deleted one by one.
Remove(n) ==
  /\ job.phase = "clean" /\ n \in job.in
  /\ tables' = Drop(tables, {n})
  /\ logs' = Drop(logs, {n})
  /\ job' = IF job.in = {n} THEN NoJob ELSE [job EXCEPT !.in = @ \ {n}]
  /\ UNCHANGED <<history, active, nextFile>>

FilesTypeOK ==
  /\ history \in Seq([key : Keys, put : BOOLEAN]) /\ Len(history) <= MaxWrites
  /\ DOMAIN tables \subseteq FileNumbers
  /\ \A n \in DOMAIN tables :
       tables[n] \in [seqs : SUBSET (1..MaxWrites), whole : BOOLEAN]
  /\ DOMAIN logs \subseteq FileNumbers
  /\ \A n \in DOMAIN logs : logs[n] \subseteq 1..MaxWrites
  /\ active \in DOMAIN logs /\ nextFile \in 2..MaxFiles + 1
  /\ job \in [out : 0..MaxFiles, in : SUBSET FileNumbers,
             phase : {"none", "write", "clean"}]
=============================================================================
