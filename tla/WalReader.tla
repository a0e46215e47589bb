----------------------------- MODULE WalReader ------------------------------
(***************************************************************************)
(* scan_log and scan_batch of crates/teams-core/src/leveldb/log.rs, on a   *)
(* log that LevelDB is still appending to: std::fs::read returns some      *)
(* prefix of it, cut anywhere, also inside a header or a fragment.         *)
(*                                                                         *)
(* The log is a sequence of cells, in blocks of Block cells.  A record's   *)
(* header takes Header cells, the first of which carries its type and      *)
(* length; a batch's data are its own header, one cell, and then each of   *)
(* its entries in as many cells as its size.  Checksums, which the code    *)
(* does not look at, and the bytes of keys and values are left out.        *)
(***************************************************************************)
EXTENDS Naturals, FiniteSets, SequencesExt, Slices

CONSTANTS
  Block,      \* cells in a block (code: 32768 bytes)
  Header,     \* cells in a record header (code: 7 bytes)
  Shapes,     \* the batches written: sequences of [put, size]
  MaxBatches  \* bound: batches in the log

ASSUME WalAssumption ==
  /\ Header \in Nat \ {0} /\ Block \in Nat /\ Header < Block
  /\ Shapes \subseteq Seq([put : BOOLEAN, size : Nat]) /\ MaxBatches \in Nat

VARIABLES
  log,      \* the cells of the log
  batches,  \* the batches begun, in order: [entries, end], end 0 while unfinished
  written,  \* data cells of the last batch already in the log
  begin,    \* no record of the last batch is in the log yet
  pc,       \* the reader: "idle", "scan", "done"
  n,        \* length of the prefix it works on
  block,    \* block_start
  p,        \* position in the block
  fragment, \* the data of FIRST and MIDDLE records
  emitted   \* the pairs handed to the callback: <<batch, entry>>

writerVars == <<log, batches, written, begin>>
readerVars == <<pc, n, block, p, fragment, emitted>>
vars == <<writerVars, readerVars>>

Zero == [kind |-> "zero", type |-> "NONE", len |-> 0]
HeadCell(type, len) == [kind |-> "head", type |-> type, len |-> len]
Rest == [kind |-> "rest", type |-> "NONE", len |-> 0]
Data(b, i) == [kind |-> "data", batch |-> b, pos |-> i]
Cells(x, k) == [i \in 1..k |-> x]

Init ==
  /\ log = <<>> /\ batches = <<>> /\ written = 0 /\ begin = TRUE
  /\ pc = "idle" /\ n = 0 /\ block = 0 /\ p = 0
  /\ fragment = <<>> /\ emitted = <<>>

-----------------------------------------------------------------------------
(* The writer (LevelDB, outside this repository) *)

\* The cells of the first k entries of a batch, its header included.
Size(entries, k) ==
  LET upTo[i \in 0..Len(entries)] == IF i = 0 THEN 1 ELSE upTo[i - 1] + entries[i].size
  IN upTo[k]
Total(entries) == Size(entries, Len(entries))

Unfinished == batches # <<>> /\ Last(batches).end = 0

BeginBatch(entries) ==
  /\ ~Unfinished /\ Len(batches) < MaxBatches
  /\ batches' = Append(batches, [entries |-> entries, end |-> 0])
  /\ written' = 0 /\ begin' = TRUE
  /\ UNCHANGED <<log, readerVars>>

\* What is left of a block after k cells; a tail too short for a header is skipped.
Left(k) == Block - (k % Block)
Pad(k) == IF Left(k) < Header THEN Left(k) ELSE 0

\* The next physical record: the block's tail, if skipped, is filled with zeros, the
\* data go as far as the block does, perhaps not at all.
WriteRecord ==
  /\ Unfinished
  /\ LET b == Len(batches)
         pad == Pad(Len(log))
         room == Left(Len(log) + pad) - Header
         want == Total(batches[b].entries) - written
         len == IF want < room THEN want ELSE room
         type == IF len = want THEN IF begin THEN "FULL" ELSE "LAST"
                 ELSE IF begin THEN "FIRST" ELSE "MIDDLE"
         next == log \o Cells(Zero, pad) \o <<HeadCell(type, len)>>
                     \o Cells(Rest, Header - 1)
                     \o [i \in 1..len |-> Data(b, written + i)]
     IN /\ log' = next
        /\ written' = written + len /\ begin' = FALSE
        /\ batches' = IF len = want THEN [batches EXCEPT ![b].end = Len(next)]
                      ELSE batches
  /\ UNCHANGED readerVars

-----------------------------------------------------------------------------
(* The reader *)

ReadFile ==
  /\ pc \in {"idle", "done"}
  /\ \E k \in 0..Len(log) : n' = k /\ pc' = IF k = 0 THEN "done" ELSE "scan"
  /\ block' = 0 /\ p' = 0 /\ fragment' = <<>> /\ emitted' = <<>>
  /\ UNCHANGED writerVars

\* block.len()
BlockLen == IF n - block < Block THEN n - block ELSE Block
HasHeader == p + Header <= BlockLen
Record == log[block + p + 1]

\* A wrong DataEnd: the header is not counted.
DataEndFromHeader == p + Record.len

DataEnd == p + Header + Record.len
Padding == Record.kind = "zero"
Cut == DataEnd > BlockLen

RecordData == SubSeq(log, block + p + Header + 1, block + DataEnd)

\* The puts among the first k entries of batch b, in order.
PutsOf(b, k) ==
  Kept([j \in 1..k |-> <<b, j>>], {j \in 1..k : batches[b].entries[j].put})

\* scan_batch: the puts among the entries that are there in whole; an entry that is
\* cut ends the batch.
Emit(data) ==
  IF data = <<>> THEN <<>>
  ELSE LET b == data[1].batch
           entries == batches[b].entries
           there == {j \in DOMAIN entries : Size(entries, j) <= Len(data)}
       IN PutsOf(b, Cardinality(there))

\* A wrong NextBlock: a cut record is tried again.
NextBlockUnlessCut ==
  /\ pc = "scan" /\ (HasHeader => Padding \/ Cut)
  /\ LET stay == HasHeader /\ Cut IN
       /\ block' = IF stay THEN block ELSE block + Block
       /\ p' = IF stay THEN p ELSE 0
  /\ pc' = IF block' < n THEN "scan" ELSE "done"
  /\ UNCHANGED <<writerVars, n, fragment, emitted>>

\* The block is used up, or ends in zeros or in a cut record.
NextBlock ==
  /\ pc = "scan" /\ (HasHeader => Padding \/ Cut)
  /\ block' = block + Block /\ p' = 0
  /\ pc' = IF block' < n THEN "scan" ELSE "done"
  /\ UNCHANGED <<writerVars, n, fragment, emitted>>

\* The record at p is of this type and there in whole.
NextRecord(type) ==
  /\ pc = "scan" /\ HasHeader /\ ~Padding /\ ~Cut /\ Record.type = type
  /\ p' = DataEnd
  /\ UNCHANGED <<writerVars, pc, n, block>>

Full ==
  /\ NextRecord("FULL")
  /\ emitted' = emitted \o Emit(RecordData)
  /\ UNCHANGED fragment

First ==
  /\ NextRecord("FIRST")
  /\ fragment' = RecordData
  /\ UNCHANGED emitted

\* A wrong Middle: the part replaces what was collected.
MiddleReplaces ==
  /\ NextRecord("MIDDLE")
  /\ fragment' = RecordData
  /\ UNCHANGED emitted

Middle ==
  /\ NextRecord("MIDDLE")
  /\ fragment' = fragment \o RecordData
  /\ UNCHANGED emitted

LastPart ==
  /\ NextRecord("LAST")
  /\ emitted' = emitted \o Emit(fragment \o RecordData)
  /\ fragment' = <<>>

Scan == NextBlock \/ Full \/ First \/ Middle \/ LastPart

Next == WriteRecord \/ (\E entries \in Shapes : BeginBatch(entries))
          \/ ReadFile \/ Scan

Spec == Init /\ [][Next]_vars

\* scan_log runs to its end.
FairSpec == Spec /\ WF_vars(Scan)

-----------------------------------------------------------------------------
(* Properties *)

\* The reader never loses the record boundaries: where it looks for a header,
\* one begins or the block is padded; it stays inside the block; and what it has
\* collected is a beginning of one batch's data.
TypeOK ==
  /\ n \in 0..Len(log) /\ pc \in {"idle", "scan", "done"} /\ p \in 0..Block
  /\ pc = "scan" => /\ block < n /\ p <= BlockLen
                    /\ HasHeader => Record.kind \in {"head", "zero"}
  /\ \A i \in DOMAIN fragment : fragment[i] = Data(fragment[1].batch, i)

\* The puts of the batches that lie in the first k cells, in order.
Puts(k) ==
  FlattenSeq([b \in DOMAIN batches |->
    IF batches[b].end \in 1..k THEN PutsOf(b, Len(batches[b].entries)) ELSE <<>>])

\* However the file is cut, the scan hands over exactly the puts of the batches
\* that are there in whole, each once and in order: "even if the tail is cut off,
\* it reads what it can and stops" (log.rs, scan_log), and no batch in part.
TailIsExact == pc = "done" => emitted = Puts(n)

\* Every scan ends, whatever the writer does meanwhile.
ScanEnds == pc = "scan" ~> pc = "done"
=============================================================================
