---------------------------- MODULE LevelDbScan -----------------------------
(***************************************************************************)
(* leveldb::read_dir of crates/teams-core/src/leveldb/mod.rs, interleaved  *)
(* with the writer of LevelDbFiles: list the directory, read every .ldb in *)
(* the order of its name, then every .log, and collect key -> value in one *)
(* map.  Files that cannot be read are skipped without a word.             *)
(*                                                                         *)
(* An .ldb entry's key is LevelDB's internal key (sstable.rs hands over    *)
(* the user key with its 8-byte sequence trailer), a .log entry's key is   *)
(* the user key.  So table entries never collide, neither with each other  *)
(* nor with log entries: the map is the set `found' of table entries,      *)
(* deletions among them, plus one slot per user key for the logs.          *)
(***************************************************************************)
EXTENDS LevelDbFiles

VARIABLES
  pc,       \* "idle", "listing", "tables", "logs", "done"
  before,   \* file numbers in the directory when the listing began
  ldb,      \* ldb_files not yet read
  log,      \* log_files not yet read
  found,    \* write numbers of the table entries in the map
  slot,     \* per key, the write number the logs put in the map, 0 for none
  base,     \* writes made when the scan began (history)
  gone      \* write numbers of the files removed since the scan began (history)

readVars == <<pc, before, ldb, log, found, slot, base, gone>>
vars == <<fileVars, readVars>>

Empty == [k \in Keys |-> 0]

Init ==
  /\ FilesInit
  /\ pc = "idle"
  /\ before = {} /\ ldb = {} /\ log = {}
  /\ found = {} /\ slot = Empty
  /\ base = 0 /\ gone = {}

-----------------------------------------------------------------------------
\* The directory handle is opened.  read_dir starts from an empty map.
ListBegin ==
  /\ pc \in {"idle", "done"}
  /\ pc' = "listing"
  /\ before' = DOMAIN tables \cup DOMAIN logs
  /\ found' = {} /\ slot' = Empty
  /\ base' = Len(history) /\ gone' = {}
  /\ UNCHANGED <<fileVars, ldb, log>>

\* A wrong ListEnd: only the newest .log is taken, as the one still written to.
ListsNewestLog ==
  /\ pc = "listing"
  /\ pc' = "tables"
  /\ ldb' = DOMAIN tables
  /\ log' = {n \in DOMAIN logs : \A m \in DOMAIN logs : m <= n}
  /\ UNCHANGED <<fileVars, before, found, slot, base, gone>>

\* Of the files created or removed while the listing ran it shows any subset,
\* of the others all.  (A removed file that is shown cannot be read anyway.)
ListEnd ==
  /\ pc = "listing"
  /\ pc' = "tables"
  /\ \E fresh \in SUBSET ((DOMAIN tables \cup DOMAIN logs) \ before) :
       /\ ldb' = DOMAIN tables \cap (before \cup fresh)
       /\ log' = DOMAIN logs \cap (before \cup fresh)
  /\ UNCHANGED <<fileVars, before, found, slot, base, gone>>

\* std::fs::read_dir or one of its entries fails; the ? operator returns that.
ListFails ==
  /\ pc = "listing"
  /\ pc' = "idle"
  /\ UNCHANGED <<fileVars, before, ldb, log, found, slot, base, gone>>

\* A wrong First: newest file first.
NewestFirst(S, n) == n \in S /\ \A m \in S : m <= n

\* ldb_files.sort() and log_files.sort(): the file names have six digits, so up
\* to file 999999 they sort by number.
First(S, n) == n \in S /\ \A m \in S : n <= m

\* The next .ldb: nothing comes from one that is gone or not yet whole.
ReadTable(n) ==
  /\ pc = "tables" /\ First(ldb, n)
  /\ ldb' = ldb \ {n}
  /\ found' = IF n \in DOMAIN tables /\ tables[n].whole
              THEN found \cup tables[n].seqs ELSE found
  /\ UNCHANGED <<fileVars, pc, before, log, slot, base, gone>>

TablesDone ==
  /\ pc = "tables" /\ ldb = {}
  /\ pc' = "logs"
  /\ UNCHANGED <<fileVars, before, ldb, log, found, slot, base, gone>>

\* A wrong Overlay: write numbers counted from one too high.
OverlayFromNext(seqs) ==
  [k \in Keys |->
     LET puts == {s \in seqs : history[s].key = k /\ history[s].put}
     IN IF puts = {} THEN slot[k] ELSE 1 + CHOOSE s \in puts : \A r \in puts : r <= s]

\* The last put of each key in the log wins; deletions are skipped.
Overlay(seqs) ==
  [k \in Keys |->
     LET puts == {s \in seqs : history[s].key = k /\ history[s].put}
     IN IF puts = {} THEN slot[k] ELSE CHOOSE s \in puts : \A r \in puts : r <= s]

\* The next .log, up to what has been written of it; one that is gone is skipped.
ReadLog(n) ==
  /\ pc = "logs" /\ First(log, n)
  /\ log' = log \ {n}
  /\ slot' = IF n \in DOMAIN logs THEN Overlay(logs[n]) ELSE slot
  /\ UNCHANGED <<fileVars, pc, before, ldb, found, base, gone>>

Return ==
  /\ pc = "logs" /\ log = {}
  /\ pc' = "done"
  /\ UNCHANGED <<fileVars, before, ldb, log, found, slot, base, gone>>

Read == \/ ListBegin \/ ListEnd \/ ListFails \/ TablesDone \/ Return
        \/ \E n \in FileNumbers : ReadTable(n) \/ ReadLog(n)

WriterSteps ==
  \/ /\ \/ \E k \in Keys, put \in BOOLEAN : Write(k, put)
        \/ SwitchLog \/ Flush \/ Compact \/ FinishTable
     /\ UNCHANGED readVars
  \/ \E n \in FileNumbers :
       /\ Remove(n)
       /\ gone' = gone \cup (IF n \in DOMAIN tables THEN tables[n].seqs ELSE logs[n])
       /\ UNCHANGED <<pc, before, ldb, log, found, slot, base>>

Next == Read \/ WriterSteps

Spec == Init /\ [][Next]_vars

-----------------------------------------------------------------------------
(* Properties *)

TypeOK ==
  /\ FilesTypeOK
  /\ pc \in {"idle", "listing", "tables", "logs", "done"}
  /\ before \subseteq FileNumbers
  /\ ldb \subseteq FileNumbers /\ log \subseteq FileNumbers
  /\ found \subseteq 1..MaxWrites /\ slot \in [Keys -> 0..MaxWrites]
  /\ base \in 0..MaxWrites /\ gone \subseteq 1..MaxWrites

\* The writes the returned map shows.
Result == (found \cup {slot[k] : k \in Keys}) \ {0}

\* The newest of the first p writes to key k, 0 if there is none.
Newest(k, p) ==
  LET writes == {s \in 1..p : history[s].key = k}
  IN IF writes = {} THEN 0 ELSE CHOOSE s \in writes : \A r \in writes : r <= s

\* The value key k had after the first p writes, 0 if it had none.
Live(k, p) ==
  LET s == Newest(k, p) IN IF s # 0 /\ history[s].put THEN s ELSE 0

ShowsAtLeast(k, s) ==
  \E r \in Result : history[r].key = k /\ history[r].put /\ r >= s

\* A scan misses nothing that was there when it began, neither what a frozen log
\* holds, nor a half-written table's writes, nor what is being merged, but for the
\* writes of files removed between the listing and their turn (mod.rs read_dir).
Complete ==
  pc = "done" =>
    \A k \in Keys : LET s == Live(k, base)
                    IN s # 0 => ShowsAtLeast(k, s) \/ s \in gone

\* Unless a file was removed meanwhile, a scan is a consistent cut although it reads
\* file after file: for some moment p between its start and its end it shows the
\* value every key had then, and no write made after that.
ConsistentCut ==
  pc = "done" /\ gone = {} =>
    \E p \in base..Len(history) :
      /\ \A r \in Result : r <= p
      /\ \A k \in Keys : Live(k, p) # 0 => Live(k, p) \in Result

\* "written over by .log so that the newest value wins" (mod.rs, read_dir): no
\* older value stays in the map beside a log's.  Violated: a table entry's key
\* carries the sequence trailer, so a log entry never replaces it.
NewestWins ==
  pc = "done" =>
    \A k \in Keys : slot[k] # 0 =>
      ~ \E r \in found : history[r].key = k /\ history[r].put /\ r < slot[k]
=============================================================================
