--------------------------- MODULE WalReaderProofs ---------------------------
(***************************************************************************)
(* Proofs about WalReader, for every size of blocks and headers, every set *)
(* of batches and every number of them: the scan of a log that is cut      *)
(* anywhere hands over the puts of the batches that are there in whole.    *)
(***************************************************************************)
EXTENDS WalReader, SequenceLemmas

-----------------------------------------------------------------------------
(* Where records lie in blocks *)

LEMMA Remainders ==
  ASSUME NEW B \in Nat \ {0}, NEW q \in Nat
  PROVE  /\ q % B \in 0..B - 1
         /\ \A r \in 0..B - 1 : (q % B) + r < B => (q + r) % B = (q % B) + r
         /\ (q + (B - (q % B))) % B = 0
         /\ q % B = 0 => (q + B) % B = 0 /\ \A r \in 0..B - 1 : (q + r) % B = r
<1>1. q % B \in 0..B - 1
  OBVIOUS
<1>2. ASSUME NEW r \in 0..B - 1, (q % B) + r < B PROVE (q + r) % B = (q % B) + r
  BY <1>2
<1>3. (q + (B - (q % B))) % B = 0
  OBVIOUS
<1>4. ASSUME q % B = 0 PROVE (q + B) % B = 0
  <2>1. B - 0 = B
    OBVIOUS
  <2>2. (q + (B - 0)) % B = 0
    BY ONLY <1>3, <1>4, Zenon
  <2> QED
    BY ONLY <2>1, <2>2, Zenon
<1>5. ASSUME q % B = 0, NEW r \in 0..B - 1 PROVE (q + r) % B = r
  <2>1. (q % B) + r < B /\ (q % B) + r = r
    BY <1>5
  <2> QED
    BY <1>2, <2>1
<1> QED
  BY <1>1, <1>2, <1>3, <1>4, <1>5

\* A header fits where the skipped tail of a block ends.
LEMMA Room ==
  ASSUME NEW q \in Nat
  PROVE  /\ Left(q) \in 1..Block /\ Pad(q) \in Nat /\ Pad(q) < Header
         /\ Pad(q) > 0 => Pad(q) = Left(q)
         /\ Pad(q) = 0 => Header <= Left(q)
         /\ Left(q + Pad(q)) \in Header..Block
<1>1. Block \in Nat \ {0} /\ Header \in Nat \ {0} /\ Header < Block
  BY WalAssumption
<1>2. Left(q) \in 1..Block
  BY <1>1, Remainders DEF Left
<1>3. Pad(q) = IF Left(q) < Header THEN Left(q) ELSE 0
  BY DEF Pad
<1>4. CASE Left(q) < Header
  <2>0. Pad(q) = Left(q)
    BY <1>3, <1>4
  <2>1. (q + (Block - (q % Block))) % Block = 0
    BY <1>1, Remainders
  <2>2. (q + Pad(q)) % Block = 0
    BY ONLY <2>0, <2>1, Zenon DEF Left
  <2>3. Left(q + Pad(q)) = Block
    BY <1>1, <2>2 DEF Left
  <2> QED
    BY <1>1, <1>2, <1>3, <1>4, <2>3
<1>5. CASE ~(Left(q) < Header)
  <2>1. Pad(q) = 0 /\ q + 0 = q
    BY <1>3, <1>5
  <2> QED
    BY <1>1, <1>2, <1>5, <2>1
<1> QED
  BY <1>4, <1>5

\* The same for a position in the block that begins at s.
LEMMA InBlock ==
  ASSUME NEW s \in Nat, s % Block = 0
  PROVE  /\ \A r \in 0..Block - 1 : Left(s + r) = Block - r
         /\ Left(s + Block) = Block /\ (s + Block) % Block = 0
<1>1. Block \in Nat \ {0}
  BY WalAssumption
<1>2. (s + Block) % Block = 0 /\ \A r \in 0..Block - 1 : (s + r) % Block = r
  <2>1. /\ s % Block \in 0..Block - 1
        /\ s % Block = 0 => (s + Block) % Block = 0 /\ \A r \in 0..Block - 1 : (s + r) % Block = r
    BY ONLY <1>1, s \in Nat, Remainders
  <2> QED
    BY ONLY <2>1, s % Block = 0, Zenon
<1>3. (s + Block) % Block = 0
  BY <1>2
<1>4. \A r \in 0..Block - 1 : Left(s + r) = Block - r
  BY <1>2 DEF Left
<1>5. Left(s + Block) = Block
  <2>1. Left(s + Block) = Block - 0 /\ Block - 0 = Block
    BY <1>1, <1>3 DEF Left
  <2> QED
    BY <2>1
<1> QED
  BY <1>3, <1>4, <1>5

-----------------------------------------------------------------------------
(* The writer's batches *)

Entry == [put : BOOLEAN, size : Nat]

\* The sizes of the beginnings of a batch, and that they grow.
Sizes(f, entries, m) ==
  \A i \in 0..m : f[i] = IF i = 0 THEN 1 ELSE f[i - 1] + entries[i].size

LEMMA SizesExist ==
  ASSUME NEW entries \in Seq(Entry)
  PROVE  \E f \in [0..Len(entries) -> Nat] : Sizes(f, entries, Len(entries))
<1>1. Len(entries) \in Nat /\ \A i \in 1..Len(entries) : entries[i].size \in Nat
  <2>1. Len(entries) \in Nat
    BY LenProperties
  <2>2. ASSUME NEW i \in 1..Len(entries) PROVE entries[i].size \in Nat
    <3>1. entries[i] \in Entry
      BY ElementOfSeq
    <3> QED
      BY <3>1 DEF Entry
  <2> QED
    BY <2>1, <2>2
<1> DEFINE T == {m \in Nat : m <= Len(entries) => \E f \in [0..m -> Nat] : Sizes(f, entries, m)}
<1>2. 0 \in T
  <2>1. [i \in 0..0 |-> 1] \in [0..0 -> Nat] /\ Sizes([i \in 0..0 |-> 1], entries, 0)
    BY DEF Sizes
  <2> QED
    BY <2>1
<1>3. ASSUME NEW m \in Nat, m \in T PROVE m + 1 \in T
  <2>0. m + 1 \in Nat
    OBVIOUS
  <2>1. SUFFICES ASSUME m + 1 <= Len(entries)
                 PROVE  \E f \in [0..m + 1 -> Nat] : Sizes(f, entries, m + 1)
    BY <2>0, Zenon
  <2>2. m \in Nat /\ m <= Len(entries) /\ m + 1 \in 1..Len(entries)
    <3>1. \A i, k \in Nat : i + 1 <= k => i <= k /\ i + 1 \in 1..k
      OBVIOUS
    <3> HIDE DEF T
    <3> QED
      BY ONLY <1>1, <1>3, <2>1, <3>1, m \in Nat
  <2>3. PICK f \in [0..m -> Nat] : Sizes(f, entries, m)
    <3>1. m <= Len(entries) => \E f \in [0..m -> Nat] : Sizes(f, entries, m)
      BY <1>3, Zenon
    <3> HIDE DEF T
    <3> QED
      BY <2>2, <3>1
  <2> DEFINE g == [i \in 0..m + 1 |-> IF i <= m THEN f[i] ELSE f[m] + entries[m + 1].size]
  <2>4. f[m] + entries[m + 1].size \in Nat
    BY <1>1, <2>2
  <2>5. g \in [0..m + 1 -> Nat]
    <3>1. \A i \in 0..m + 1 : i <= m => f[i] \in Nat
      BY <2>2
    <3> QED
      BY <2>4, <3>1
  <2>6. ASSUME NEW i \in 0..m + 1
        PROVE  g[i] = IF i = 0 THEN 1 ELSE g[i - 1] + entries[i].size
    <3>1. CASE i <= m
      <4>1. i \in 0..m /\ (i # 0 => i - 1 \in 0..m /\ i - 1 <= m)
        BY <2>2, <3>1
      <4>2. g[i] = f[i] /\ (i # 0 => g[i - 1] = f[i - 1])
        BY <2>2, <4>1
      <4> QED
        BY <2>3, <4>1, <4>2 DEF Sizes
    <3>2. CASE i = m + 1
      <4>1. i - 1 = m /\ i # 0 /\ ~(i <= m)
        BY <2>2, <3>2
      <4>2. g[m] = f[m] /\ g[i] = f[m] + entries[i].size
        BY <2>2, <3>2, <4>1
      <4> QED
        BY <4>1, <4>2
    <3> QED
      BY <2>2, <3>1, <3>2
  <2> QED
    BY <2>5, <2>6 DEF Sizes
<1>4. \A m \in Nat : m \in T
  <2>1. T \in SUBSET Nat
    OBVIOUS
  <2> HIDE DEF T
  <2> QED
    BY <1>2, <1>3, <2>1, NatSetInduction
<1> QED
  BY <1>1, <1>4

LEMMA SizeGrows ==
  ASSUME NEW entries \in Seq(Entry)
  PROVE  /\ Total(entries) \in Nat /\ Total(entries) > 0
         /\ \A k \in 1..Len(entries) : Size(entries, k) \in Nat /\ Size(entries, k) <= Total(entries)
<1> DEFINE Body(f) == [i \in 0..Len(entries) |->
                         IF i = 0 THEN 1 ELSE f[i - 1] + entries[i].size]
           F == CHOOSE f : f = Body(f)
           N == Len(entries)
<1>1. N \in Nat /\ \A i \in 1..N : entries[i].size \in Nat
  <2>1. N \in Nat
    BY LenProperties
  <2>2. ASSUME NEW i \in 1..N PROVE entries[i].size \in Nat
    <3>1. entries[i] \in Entry
      BY ElementOfSeq
    <3> QED
      BY <3>1 DEF Entry
  <2> QED
    BY <2>1, <2>2
<1>2. PICK f \in [0..N -> Nat] : Sizes(f, entries, N)
  BY SizesExist
<1>3. f = Body(f)
  BY <1>2 DEF Sizes
<1>4. F = Body(F)
  BY <1>3
<1>5. \A k \in 0..N : Size(entries, k) = F[k]
  BY DEF Size
<1> HIDE DEF F
<1>6. /\ F[0] = 1
      /\ \A i \in 1..N : F[i] = F[i - 1] + entries[i].size
  BY <1>1, <1>4
<1> HIDE DEF N
<1> DEFINE T == {m \in Nat : m <= N => /\ F[m] \in Nat /\ F[m] > 0
                                       /\ \A k \in 0..m : F[k] \in Nat /\ F[k] <= F[m]}
<1>7. 0 \in T
  BY <1>6
<1>8. ASSUME NEW m \in Nat, m \in T PROVE m + 1 \in T
  <2>0. m + 1 \in Nat
    OBVIOUS
  <2>1. SUFFICES ASSUME m + 1 <= N
                 PROVE  /\ F[m + 1] \in Nat /\ F[m + 1] > 0
                        /\ \A k \in 0..m + 1 : F[k] \in Nat /\ F[k] <= F[m + 1]
    BY <2>0, Zenon
  <2>2. m <= N /\ m + 1 \in 1..N /\ (m + 1) - 1 = m
    <3>1. \A i, k \in Nat : i + 1 <= k => i <= k /\ i + 1 \in 1..k /\ (i + 1) - 1 = i
      OBVIOUS
    <3> QED
      BY ONLY <1>1, <2>1, <3>1, m \in Nat
  <2>3. F[m] \in Nat /\ F[m] > 0 /\ \A k \in 0..m : F[k] \in Nat /\ F[k] <= F[m]
    BY <1>8, <2>2
  <2>4. F[m + 1] = F[m] + entries[m + 1].size /\ entries[m + 1].size \in Nat
    BY <1>1, <1>6, <2>2
  <2>5. F[m + 1] \in Nat /\ F[m + 1] > 0 /\ F[m] <= F[m + 1]
    BY ONLY <2>3, <2>4
  <2>6. ASSUME NEW k \in 0..m PROVE F[k] \in Nat /\ F[k] <= F[m + 1]
    <3>1. F[k] <= F[m] /\ F[k] \in Nat
      BY <2>3
    <3> QED
      BY <2>3, <2>5, <3>1
  <2>7. ASSUME NEW k \in 0..m + 1 PROVE F[k] \in Nat /\ F[k] <= F[m + 1]
    <3>1. k \in 0..m \/ k = m + 1
      BY <2>2
    <3> QED
      BY <2>5, <2>6, <3>1
  <2> QED
    BY <2>5, <2>7
<1>9. \A m \in Nat : m \in T
  <2>1. T \in SUBSET Nat
    OBVIOUS
  <2> HIDE DEF T
  <2> QED
    BY <1>7, <1>8, <2>1, NatSetInduction
<1>10. \A m \in 0..N : /\ F[m] \in Nat /\ F[m] > 0
                       /\ \A k \in 0..m : F[k] \in Nat /\ F[k] <= F[m]
  BY <1>1, <1>9
<1>11. N \in 0..N /\ \A k \in 1..N : k \in 0..N
  BY <1>1
<1>12. Total(entries) = F[N]
  BY <1>5, <1>11 DEF Total, N
<1> QED
  BY <1>5, <1>10, <1>11, <1>12 DEF N

-----------------------------------------------------------------------------
(* The invariant *)

Cell == [kind : {"head", "zero", "rest"}, type : {"FULL", "FIRST", "MIDDLE", "LAST", "NONE"},
         len : Nat]
          \cup [kind : {"data"}, batch : Nat, pos : Nat]

\* Batches before the last one are finished, and end where the log has reached.
WriterInv ==
  /\ log \in Seq(Cell) /\ batches \in Seq([entries : Shapes, end : Nat])
  /\ written \in Nat /\ begin \in BOOLEAN
  /\ \A c \in DOMAIN batches : /\ batches[c].end <= Len(log)
                               /\ c < Len(batches) => batches[c].end > 0
  /\ Unfinished => /\ written <= Total(batches[Len(batches)].entries)
                   /\ begin => written = 0

\* A place where a record ended: `had' cells of `batch' are before it, and if it is
\* open a record of it.
Mark == [at : Nat, batch : Nat, had : Nat, open : BOOLEAN]

Start == [at |-> 0, batch |-> 1, had |-> 0, open |-> FALSE]

Tip == [at    |-> Len(log),
        batch |-> IF Unfinished THEN Len(batches) ELSE Len(batches) + 1,
        had   |-> IF Unfinished THEN written ELSE 0,
        open  |-> Unfinished /\ ~begin]

\* The record after mark m has len cells of data; what is before it is skipped.
Begins(m) == m.at + Pad(m.at)
Ends(m, len) == Begins(m) + Header + len
Whole(m, len) == m.had + len = Total(batches[m.batch].entries)

Follows(m, len) ==
  /\ m.batch \in DOMAIN batches /\ m.had + len <= Total(batches[m.batch].entries)
  /\ Header + len <= Left(Begins(m)) /\ Ends(m, len) <= Len(log)
  /\ log[Begins(m) + 1] =
       HeadCell(IF Whole(m, len) THEN IF m.open THEN "LAST" ELSE "FULL"
                ELSE IF m.open THEN "MIDDLE" ELSE "FIRST", len)
  /\ \A j \in 1..len : log[Begins(m) + Header + j] = Data(m.batch, m.had + j)
  /\ Whole(m, len) => batches[m.batch].end = Ends(m, len)

After(m, len) == [at    |-> Ends(m, len),
                  batch |-> IF Whole(m, len) THEN m.batch + 1 ELSE m.batch,
                  had   |-> IF Whole(m, len) THEN 0 ELSE m.had + len,
                  open  |-> ~Whole(m, len)]

\* From mark to mark the log is a sequence of records, and the batches before a
\* mark's are those that end before the mark.
MarkOK(m, marks) ==
  /\ m.at <= Len(log) /\ m.batch \in 1..Len(batches) + 1 /\ (~m.open => m.had = 0)
  /\ m.at = Len(log) => m = Tip
  /\ m.at < Len(log) => \E len \in Nat : Follows(m, len) /\ After(m, len) \in marks
  /\ \A c \in DOMAIN batches : c < m.batch <=> batches[c].end \in 1..m.at

MarksInv(marks) == Start \in marks /\ Tip \in marks /\ \A m \in marks : MarkOK(m, marks)

DataOf(b, k) == [i \in 1..k |-> Data(b, i)]
PutsUpTo(b) == FlattenSeq([c \in 1..b |-> PutsOf(c, Len(batches[c].entries))])

\* The reader is at a mark, or has skipped what is before the next record.
ReaderAt(m) == block + p = m.at \/ (p = 0 /\ block = Begins(m))

ReaderInv(marks) ==
  /\ pc \in {"idle", "scan", "done"} /\ n \in 0..Len(log)
  /\ block \in Nat /\ block % Block = 0 /\ p \in 0..Block
  /\ \E b, k \in Nat : fragment = DataOf(b, k)
  /\ pc = "scan" =>
       /\ block < n /\ p <= BlockLen
       /\ \E m \in marks : /\ ReaderAt(m) /\ fragment = DataOf(m.batch, m.had)
                           /\ emitted = PutsUpTo(m.batch - 1)
  /\ pc = "done" =>
       \E b \in 0..Len(batches) :
         /\ emitted = PutsUpTo(b)
         /\ \A c \in DOMAIN batches : c <= b <=> batches[c].end \in 1..n

IInv == WriterInv /\ \E marks \in SUBSET Mark : MarksInv(marks) /\ ReaderInv(marks)

-----------------------------------------------------------------------------
(* Parts of sequences *)

\* A stretch of a sequence.
LEMMA Stretch ==
  ASSUME NEW S, NEW s \in Seq(S), NEW q \in Nat, NEW k \in Nat, q + k <= Len(s)
  PROVE  SubSeq(s, q + 1, q + k) = [j \in 1..k |-> s[q + j]]
<1>1. Len(s) \in Nat
  BY LenProperties
<1> DEFINE t == SubSeq(s, q + 1, q + k)
<1>2. /\ DOMAIN t = 1..k
      /\ \A j \in 1..k : t[j] = s[q + j]
      /\ t \in Seq(S) /\ Len(t) = k
  <2>1. \A i \in (q + 1)..(q + k) : i \in 1..Len(s)
    BY <1>1
  <2>2. q + 1 \in 1..Len(s) + 1 /\ q + k \in 0..Len(s)
    BY <1>1
  <2> QED
    BY <1>1, <2>1, <2>2, SubSeqProperties
<1>3. t = [j \in DOMAIN t |-> t[j]]
  <2>1. t \in [1..Len(t) -> S]
    BY <1>2, LenProperties
  <2> QED
    BY <2>1
<1> QED
  BY ONLY <1>2, <1>3

\* Cells of a batch that follow one another.
LEMMA DataJoin ==
  ASSUME NEW b \in Nat, NEW k \in Nat, NEW len \in Nat
  PROVE  DataOf(b, k) \o [j \in 1..len |-> Data(b, k + j)] = DataOf(b, k + len)
<1>1. \A i \in Nat : Data(b, i) \in Cell
  BY DEF Data, Cell
<1> DEFINE f == DataOf(b, k)
           g == [j \in 1..len |-> Data(b, k + j)]
           h == DataOf(b, k + len)
<1>2. f \in [1..k -> Cell] /\ g \in [1..len -> Cell] /\ h \in [1..k + len -> Cell]
  <2>1. \A j \in Nat : k + j \in Nat
    OBVIOUS
  <2> QED
    BY <1>1, <2>1 DEF DataOf
<1>3. /\ \A i \in 1..k : f[i] = Data(b, i)
      /\ \A i \in 1..len : g[i] = Data(b, k + i)
      /\ \A i \in 1..k + len : h[i] = Data(b, i)
  BY DEF DataOf
<1> HIDE DEF f, g, h
<1>4. /\ f \in Seq(Cell) /\ g \in Seq(Cell) /\ h \in Seq(Cell)
      /\ Len(f) = k /\ Len(g) = len /\ Len(h) = k + len
  <2>1. \A m \in Nat : \A s \in [1..m -> Cell] : s \in Seq(Cell)
    BY SeqDef
  <2>2. f \in Seq(Cell) /\ g \in Seq(Cell) /\ h \in Seq(Cell)
    BY <1>2, <2>1
  <2> QED
    BY <1>2, <2>2, LenProperties
<1>5. /\ f \o g \in Seq(Cell) /\ Len(f \o g) = k + len
      /\ \A i \in 1..k + len : (f \o g)[i] = IF i <= k THEN f[i] ELSE g[i - k]
  BY ONLY <1>4, ConcatProperties
<1>6. ASSUME NEW i \in 1..k + len PROVE (f \o g)[i] = h[i]
  <2>1. CASE i <= k
    BY <1>3, <1>5, <2>1
  <2>2. CASE ~(i <= k)
    <3>1. i - k \in 1..len /\ k + (i - k) = i
      BY <2>2
    <3>2. g[i - k] = Data(b, i)
      BY <1>3, <3>1
    <3> QED
      BY <1>3, <1>5, <2>2, <3>2
  <2> QED
    BY <2>1, <2>2
<1>7. f \o g = h
  BY ONLY <1>4, <1>5, <1>6, SeqEqual
<1> QED
  BY <1>7 DEF f, g, h

\* A sequence of cells of one batch.
LEMMA DataSeq ==
  ASSUME NEW b \in Nat, NEW k \in Nat
  PROVE  /\ DataOf(b, k) \in Seq(Cell) /\ Len(DataOf(b, k)) = k
         /\ DOMAIN DataOf(b, k) = 1..k /\ (DataOf(b, k) = <<>> <=> k = 0)
         /\ \A i \in 1..k : DataOf(b, k)[i] = Data(b, i)
<1>1. \A i \in Nat : Data(b, i) \in Cell
  BY DEF Data, Cell
<1>2. DataOf(b, k) \in [1..k -> Cell] /\ \A i \in 1..k : DataOf(b, k)[i] = Data(b, i)
  BY <1>1 DEF DataOf
<1>3. DataOf(b, k) \in Seq(Cell)
  <2>1. \A m \in Nat : \A s \in [1..m -> Cell] : s \in Seq(Cell)
    BY SeqDef
  <2> QED
    BY <1>2, <2>1
<1>4. Len(DataOf(b, k)) = k /\ DOMAIN DataOf(b, k) = 1..k
  BY <1>2, <1>3, LenProperties
<1>5. DataOf(b, k) = <<>> <=> k = 0
  BY <1>3, <1>4, EmptySeq
<1> QED
  BY <1>2, <1>3, <1>4, <1>5

-----------------------------------------------------------------------------
(* The puts of batches *)

\* The entries of a batch.
LEMMA Batches ==
  ASSUME WriterInv, NEW b \in DOMAIN batches
  PROVE  /\ Len(batches) \in Nat /\ DOMAIN batches = 1..Len(batches) /\ b \in Nat /\ b > 0
         /\ batches[b].entries \in Seq(Entry) /\ batches[b].end \in Nat
         /\ batches[b] \in [entries : Shapes, end : Nat]
<1>1. Len(batches) \in Nat /\ DOMAIN batches = 1..Len(batches)
      /\ batches[b] \in [entries : Shapes, end : Nat]
  <2>1. batches \in Seq([entries : Shapes, end : Nat])
    BY DEF WriterInv
  <2> QED
    BY <2>1, LenProperties, ElementOfSeq
<1>2. Shapes \subseteq Seq(Entry)
  BY WalAssumption DEF Entry
<1> QED
  BY <1>1, <1>2

LEMMA PutsSeq ==
  ASSUME NEW b \in Nat, NEW k \in Nat
  PROVE  PutsOf(b, k) \in Seq(Nat \X Nat)
<1> DEFINE s == [j \in 1..k |-> <<b, j>>]
           keep == {j \in 1..k : batches[b].entries[j].put}
<1>1. s \in [1..k -> Nat \X Nat]
  OBVIOUS
<1>2. s \in Seq(Nat \X Nat)
  <2>1. \A m \in Nat : \A t \in [1..m -> Nat \X Nat] : t \in Seq(Nat \X Nat)
    BY SeqDef
  <2> QED
    BY <1>1, <2>1
<1>3. keep \subseteq DOMAIN s
  OBVIOUS
<1> HIDE DEF s, keep
<1>4. Kept(s, keep) \in Seq(Nat \X Nat)
  BY ONLY <1>2, <1>3, KeptElements
<1> QED
  BY ONLY <1>4 DEF PutsOf, s, keep

\* The puts of one batch more.
LEMMA PutsNext ==
  ASSUME WriterInv, NEW b \in DOMAIN batches
  PROVE  PutsUpTo(b) = PutsUpTo(b - 1) \o PutsOf(b, Len(batches[b].entries))
<1> DEFINE puts == [c \in 1..b |-> PutsOf(c, Len(batches[c].entries))]
           less == [c \in 1..b - 1 |-> PutsOf(c, Len(batches[c].entries))]
<1>1. b \in Nat /\ b > 0 /\ b - 1 \in Nat /\ (b - 1) + 1 = b /\ \A c \in 1..b : c \in DOMAIN batches
  BY Batches
<1>2. \A c \in 1..b : PutsOf(c, Len(batches[c].entries)) \in Seq(Nat \X Nat)
  <2>1. ASSUME NEW c \in 1..b PROVE PutsOf(c, Len(batches[c].entries)) \in Seq(Nat \X Nat)
    <3>1. batches[c].entries \in Seq(Entry) /\ c \in Nat
      BY <1>1, Batches
    <3>2. Len(batches[c].entries) \in Nat
      BY <3>1, LenProperties
    <3> QED
      BY <3>1, <3>2, PutsSeq
  <2> QED
    BY <2>1
<1>3. puts \in [1..b -> Seq(Nat \X Nat)] /\ less \in [1..b - 1 -> Seq(Nat \X Nat)]
      /\ b \in 1..b /\ \A c \in 1..b - 1 : c \in 1..b
  <2>1. b \in 1..b /\ \A c \in 1..b - 1 : c \in 1..b
    BY <1>1
  <2>2. puts \in [1..b -> Seq(Nat \X Nat)]
    BY <1>2
  <2>3. less \in [1..b - 1 -> Seq(Nat \X Nat)]
    BY <1>2, <2>1
  <2> QED
    BY <2>1, <2>2, <2>3
<1>4. puts[b] = PutsOf(b, Len(batches[b].entries))
      /\ \A c \in 1..b - 1 : less[c] = puts[c]
  BY <1>3
<1>5. FlattenSeq(puts) = PutsUpTo(b) /\ FlattenSeq(less) = PutsUpTo(b - 1)
  BY DEF PutsUpTo
<1> HIDE DEF puts, less
<1>6. /\ puts \in Seq(Seq(Nat \X Nat)) /\ less \in Seq(Seq(Nat \X Nat))
      /\ Len(puts) = b /\ Len(less) = b - 1
  <2>1. \A m \in Nat : \A t \in [1..m -> Seq(Nat \X Nat)] : t \in Seq(Seq(Nat \X Nat))
    BY SeqDef
  <2>2. puts \in Seq(Seq(Nat \X Nat)) /\ less \in Seq(Seq(Nat \X Nat))
    BY <1>1, <1>3, <2>1
  <2> QED
    BY <1>1, <1>3, <2>2, LenProperties
<1>7. puts[b] \in Seq(Nat \X Nat)
  BY <1>3
<1>8. puts = Append(less, puts[b])
  <2> DEFINE more == Append(less, puts[b])
  <2>1. /\ more \in Seq(Seq(Nat \X Nat)) /\ Len(more) = b
        /\ \A c \in 1..b - 1 : more[c] = less[c]
        /\ more[b] = puts[b]
    BY <1>1, <1>6, <1>7, AppendProperties
  <2> HIDE DEF more
  <2>2. \A c \in 1..b : puts[c] = more[c]
    <3>1. \A c \in 1..b : c = b \/ c \in 1..b - 1
      BY <1>1
    <3> QED
      BY <1>4, <2>1, <3>1
  <2>3. puts = more
    BY ONLY <1>6, <2>1, <2>2, SeqEqual
  <2> QED
    BY <2>3 DEF more
<1>9. FlattenSeq(puts) = FlattenSeq(less) \o puts[b]
  BY ONLY <1>6, <1>7, <1>8, FlattenAppend
<1> QED
  BY ONLY <1>4, <1>5, <1>9

LEMMA NoPuts == PutsUpTo(0) = <<>>
<1>1. [c \in 1..0 |-> PutsOf(c, Len(batches[c].entries))] = <<>>
  OBVIOUS
<1>2. FlattenSeq(<<>>) = <<>>
  BY DEF FlattenSeq
<1> QED
  BY <1>1, <1>2 DEF PutsUpTo

\* What scan_batch hands over of a whole batch.
LEMMA EmitWhole ==
  ASSUME WriterInv, NEW b \in DOMAIN batches
  PROVE  Emit(DataOf(b, Total(batches[b].entries))) = PutsOf(b, Len(batches[b].entries))
<1> DEFINE entries == batches[b].entries
           data == DataOf(b, Total(entries))
           there == {j \in DOMAIN entries : Size(entries, j) <= Len(data)}
<1>1. entries \in Seq(Entry) /\ b \in Nat
  BY Batches
<1>2. /\ Total(entries) \in Nat /\ Total(entries) > 0
      /\ \A k \in 1..Len(entries) : Size(entries, k) <= Total(entries)
  BY <1>1, SizeGrows
<1>3. Len(data) = Total(entries) /\ data # <<>> /\ data[1] = Data(b, 1)
  <2>1. 1 \in 1..Total(entries) /\ Total(entries) # 0
    BY <1>2
  <2>2. \A k \in Nat : /\ Len(DataOf(b, k)) = k /\ (DataOf(b, k) = <<>> <=> k = 0)
                       /\ \A i \in 1..k : DataOf(b, k)[i] = Data(b, i)
    BY <1>1, DataSeq
  <2> HIDE DEF entries
  <2> QED
    BY <1>2, <2>1, <2>2
<1>4. data[1].batch = b
  BY <1>3 DEF Data
<1>5. Len(entries) \in Nat /\ DOMAIN entries = 1..Len(entries)
  BY <1>1, LenProperties
<1>6. there = 1..Len(entries)
  BY <1>2, <1>3, <1>5
<1>7. Cardinality(there) = Len(entries)
  BY <1>5, <1>6, UpToCardinality
<1>8. Emit(data) = PutsOf(b, Cardinality(there))
  BY <1>3, <1>4 DEF Emit
<1> QED
  BY <1>7, <1>8

\* Batches stay as they are but for the end of the last one, and one may be added.
SameEntries ==
  /\ Len(batches) \in Nat /\ DOMAIN batches = 1..Len(batches)
  /\ \A c \in DOMAIN batches : batches'[c].entries = batches[c].entries

LEMMA PutsKept ==
  ASSUME SameEntries, NEW b \in 0..Len(batches)
  PROVE  PutsUpTo(b)' = PutsUpTo(b)
<1>1. \A c \in 1..b : batches'[c].entries = batches[c].entries
  BY DEF SameEntries
<1>2. \A c \in 1..b, k \in Nat : PutsOf(c, k)' = PutsOf(c, k)
  BY <1>1 DEF PutsOf
<1>3. \A c \in 1..b : PutsOf(c, Len(batches[c].entries))' = PutsOf(c, Len(batches[c].entries))
  BY <1>1 DEF PutsOf
<1> QED
  BY <1>3 DEF PutsUpTo

-----------------------------------------------------------------------------
(* Where the reader stands *)

\* Of a block, the reader either has room for a header, and the next record begins
\* where it is, or it goes on at the next block, where the skipped tail has ended.
LEMMA AtMark ==
  ASSUME NEW m \in Mark, block \in Nat, block % Block = 0, p \in 0..Block, ReaderAt(m)
  PROVE  /\ Begins(m) \in Nat /\ m.at \in Nat /\ m.at <= block + p /\ block + p <= Begins(m)
         /\ p + Header <= Block => block + p = Begins(m) /\ Left(Begins(m)) = Block - p
         /\ ~(p + Header <= Block) => m.at = block + Block \/ Begins(m) = block + Block
<1>1. Block \in Nat \ {0} /\ Header \in Nat \ {0} /\ Header < Block
  BY WalAssumption
<1>2. /\ m.at \in Nat /\ Pad(m.at) \in Nat /\ Begins(m) = m.at + Pad(m.at)
      /\ Pad(m.at) > 0 => Pad(m.at) = Left(m.at)
      /\ Pad(m.at) = 0 => Header <= Left(m.at)
      /\ Pad(m.at) < Header
  <2>1. m.at \in Nat
    BY DEF Mark
  <2> QED
    BY <2>1, Room DEF Begins
<1>3. \A r \in 0..Block - 1 : Left(block + r) = Block - r
  BY InBlock
<1>4. CASE block + p = m.at
  <2>1. CASE p = Block
    BY <1>1, <1>2, <1>4, <2>1
  <2>2. CASE p # Block
    <3>1. p \in 0..Block - 1
      BY <1>1, <2>2
    <3>2. Left(m.at) = Block - p
      BY <1>3, <1>4, <3>1
    <3>3. CASE Pad(m.at) = 0
      <4>1. Begins(m) = m.at /\ p + Header <= Block
        BY <1>1, <1>2, <3>2, <3>3
      <4> QED
        BY <1>1, <1>2, <1>4, <3>2, <4>1
    <3>4. CASE Pad(m.at) > 0
      <4>1. Begins(m) = block + Block /\ ~(p + Header <= Block)
        BY <1>1, <1>2, <1>4, <3>2, <3>4
      <4> QED
        BY <1>1, <1>2, <1>4, <4>1
    <3> QED
      BY <1>2, <3>3, <3>4
  <2> QED
    BY <2>1, <2>2
<1>5. CASE p = 0 /\ block = Begins(m)
  <2>1. 0 \in 0..Block - 1 /\ block + 0 = block
    BY <1>1
  <2>2. Left(block) = Block
    <3>1. Left(block + 0) = Block - 0 /\ Block - 0 = Block
      BY <1>1, <1>3, <2>1
    <3> QED
      BY <2>1, <3>1
  <2>3. Left(Begins(m)) = Block - p /\ p + Header <= Block
    <3>1. Block - p = Block /\ p + Header <= Block
      BY <1>1, <1>5
    <3> QED
      BY <1>5, <2>2, <3>1
  <2>4. block + p = Begins(m) /\ m.at <= block + p /\ block + p <= Begins(m) /\ Begins(m) \in Nat
    BY <1>2, <1>5
  <2> QED
    BY <1>2, <2>3, <2>4
<1> QED
  BY <1>4, <1>5 DEF ReaderAt

TypeOfRecord(m, len) ==
  IF Whole(m, len) THEN IF m.open THEN "LAST" ELSE "FULL"
  ELSE IF m.open THEN "MIDDLE" ELSE "FIRST"

\* What the reader finds where it has a header before it.
Finds(m, len) ==
  /\ Follows(m, len) /\ block + p = Begins(m)
  /\ Record = HeadCell(TypeOfRecord(m, len), len)
  /\ DataEnd \in Nat /\ DataEnd <= Block /\ block + DataEnd = Ends(m, len)

LEMMA FindsRecord ==
  ASSUME NEW marks, marks \subseteq Mark, MarksInv(marks), NEW m \in marks, Len(log) \in Nat,
         n \in 0..Len(log), block \in Nat, block % Block = 0, p \in 0..Block, ReaderAt(m),
         HasHeader
  PROVE  \E len \in Nat : Finds(m, len) /\ After(m, len) \in marks
<1>1. Block \in Nat \ {0} /\ Header \in Nat \ {0} /\ Header < Block
  BY WalAssumption
<1>2. p + Header <= Block /\ block + p + Header <= n
  BY <1>1 DEF HasHeader, BlockLen
<1>3. /\ m.at \in Nat /\ m.at <= block + p
      /\ block + p = Begins(m) /\ Left(Begins(m)) = Block - p
  BY <1>2, AtMark
<1>4. m.at < Len(log)
  BY <1>1, <1>2, <1>3
<1>5. PICK len \in Nat : Follows(m, len) /\ After(m, len) \in marks
  BY <1>4 DEF MarksInv, MarkOK
<1>6. Record = HeadCell(TypeOfRecord(m, len), len)
  BY <1>3, <1>5 DEF Follows, Record, TypeOfRecord
<1>7. Record.len = len
  BY <1>6 DEF HeadCell
<1>8. Header + len <= Left(Begins(m))
  BY <1>5 DEF Follows
<1>9. DataEnd \in Nat /\ DataEnd <= Block /\ block + DataEnd = Ends(m, len)
  BY <1>1, <1>3, <1>7, <1>8 DEF DataEnd, Ends
<1> QED
  BY <1>3, <1>5, <1>6, <1>9 DEF Finds

\* The data of a record that is there in whole, with what was collected before.
LEMMA FindsData ==
  ASSUME WriterInv, NEW m \in Mark, NEW len \in Nat, Finds(m, len),
         block \in Nat, p \in 0..Block
  PROVE  /\ RecordData = [j \in 1..len |-> Data(m.batch, m.had + j)]
         /\ RecordData \in Seq(Cell)
         /\ DataOf(m.batch, m.had) \o RecordData = DataOf(m.batch, m.had + len)
         /\ m.had = 0 => RecordData = DataOf(m.batch, len)
<1>1. Header \in Nat /\ m.batch \in Nat /\ m.had \in Nat /\ Block \in Nat
  BY WalAssumption DEF Mark
<1>2. log \in Seq(Cell) /\ Len(log) \in Nat
  BY LenProperties DEF WriterInv
<1>3. /\ Ends(m, len) = Begins(m) + Header + len /\ Ends(m, len) <= Len(log)
      /\ \A j \in 1..len : log[Begins(m) + Header + j] = Data(m.batch, m.had + j)
      /\ block + p = Begins(m) /\ block + DataEnd = Ends(m, len)
  BY DEF Finds, Follows, Ends
<1> DEFINE q == Begins(m) + Header
<1>4. q \in Nat /\ q + len = block + DataEnd /\ q + len <= Len(log)
  BY <1>1, <1>3
<1>5. RecordData = SubSeq(log, q + 1, q + len)
  BY <1>3, <1>4 DEF RecordData
<1> HIDE DEF q
<1>6. RecordData = [j \in 1..len |-> log[q + j]]
  BY ONLY <1>2, <1>4, <1>5, Stretch, len \in Nat
<1>7. \A j \in 1..len : log[q + j] = Data(m.batch, m.had + j)
  BY <1>3 DEF q
<1>8. RecordData = [j \in 1..len |-> Data(m.batch, m.had + j)]
  BY <1>6, <1>7
<1>9. DataOf(m.batch, m.had) \o RecordData = DataOf(m.batch, m.had + len)
  BY ONLY <1>1, <1>8, DataJoin, len \in Nat
<1>10. ASSUME m.had = 0 PROVE RecordData = DataOf(m.batch, len)
  <2>1. \A j \in 1..len : m.had + j = j
    BY <1>10
  <2> QED
    BY <1>8, <2>1 DEF DataOf
<1>11. RecordData \in Seq(Cell)
  <2>1. \A j \in 1..len : Data(m.batch, m.had + j) \in Cell
    BY <1>1 DEF Data, Cell
  <2>2. RecordData \in [1..len -> Cell]
    BY <1>8, <2>1
  <2> QED
    BY <2>2, SeqDef
<1> QED
  BY <1>8, <1>9, <1>10, <1>11

-----------------------------------------------------------------------------
(* The steps of the reader *)

\* A mark's batch is one of the batches, or the one to come.
LEMMA MarkBatch ==
  ASSUME WriterInv, NEW marks, marks \subseteq Mark, MarksInv(marks), NEW m \in marks
  PROVE  /\ Len(batches) \in Nat /\ Len(log) \in Nat /\ DOMAIN batches = 1..Len(batches)
         /\ m.at \in 0..Len(log) /\ m.batch \in 1..Len(batches) + 1 /\ m.had \in Nat
         /\ m.batch - 1 \in 0..Len(batches) /\ (m.batch - 1) + 1 = m.batch
         /\ \A c \in DOMAIN batches : c < m.batch <=> c <= m.batch - 1
<1>1. Len(batches) \in Nat /\ Len(log) \in Nat /\ DOMAIN batches = 1..Len(batches)
  BY LenProperties DEF WriterInv
<1>2. m.at <= Len(log) /\ m.batch \in 1..Len(batches) + 1
  BY DEF MarksInv, MarkOK
<1>3. m.at \in Nat /\ m.had \in Nat
  BY DEF Mark
<1> QED
  BY <1>1, <1>2, <1>3

LEMMA SameWriter ==
  ASSUME WriterInv, NEW marks, marks \subseteq Mark, MarksInv(marks), UNCHANGED writerVars
  PROVE  /\ WriterInv' /\ MarksInv(marks)' /\ Len(log)' = Len(log) /\ Len(batches)' = Len(batches)
         /\ log' = log /\ batches' = batches
         /\ \A b \in 0..Len(batches) : PutsUpTo(b)' = PutsUpTo(b)
<1>1. log' = log /\ batches' = batches /\ written' = written /\ begin' = begin
  BY DEF writerVars
<1>2. Unfinished' = Unfinished
  BY <1>1 DEF Unfinished
<1>3. WriterInv'
  BY <1>1, <1>2 DEF WriterInv
<1>4. Tip' = Tip
  BY <1>1, <1>2 DEF Tip
<1>5. \A m, len : Follows(m, len)' <=> Follows(m, len)
  BY <1>1 DEF Follows, Whole
<1>6. \A m, len : After(m, len)' = After(m, len)
  BY <1>1 DEF After, Whole
<1>7. ASSUME NEW m \in marks PROVE MarkOK(m, marks)'
  <2>1. MarkOK(m, marks)
    BY DEF MarksInv
  <2> QED
    BY <1>1, <1>4, <1>5, <1>6, <2>1 DEF MarkOK
<1>8. MarksInv(marks)'
  BY <1>4, <1>7 DEF MarksInv
<1>9. SameEntries
  BY <1>1, LenProperties DEF SameEntries, WriterInv
<1> QED
  BY <1>1, <1>3, <1>8, <1>9, PutsKept

LEMMA ReadNextBlock ==
  ASSUME WriterInv, NEW marks, marks \subseteq Mark, MarksInv(marks), ReaderInv(marks), NextBlock
  PROVE  ReaderInv(marks)'
<1>1. /\ Len(log)' = Len(log) /\ Len(batches)' = Len(batches) /\ batches' = batches
      /\ \A b \in 0..Len(batches) : PutsUpTo(b)' = PutsUpTo(b)
  BY SameWriter DEF NextBlock
<1>2. /\ pc = "scan" /\ (HasHeader => Padding \/ Cut)
      /\ block' = block + Block /\ p' = 0 /\ pc' = (IF block' < n THEN "scan" ELSE "done")
      /\ n' = n /\ fragment' = fragment /\ emitted' = emitted
  BY DEF NextBlock
<1>3. Block \in Nat \ {0} /\ Header \in Nat \ {0} /\ Header < Block
  BY WalAssumption
<1>4. /\ n \in 0..Len(log) /\ block \in Nat /\ block % Block = 0 /\ p \in 0..Block
      /\ block < n /\ p <= BlockLen
  BY <1>2 DEF ReaderInv
<1>5. PICK m \in marks : /\ ReaderAt(m) /\ fragment = DataOf(m.batch, m.had)
                         /\ emitted = PutsUpTo(m.batch - 1)
  BY <1>2 DEF ReaderInv
<1>6. /\ Len(batches) \in Nat /\ Len(log) \in Nat /\ DOMAIN batches = 1..Len(batches)
      /\ m \in Mark /\ m.at \in 0..Len(log) /\ m.batch - 1 \in 0..Len(batches)
      /\ m.batch \in Nat
      /\ \A c \in DOMAIN batches : c < m.batch <=> c <= m.batch - 1
  BY MarkBatch DEF Mark
<1>7. /\ Begins(m) \in Nat /\ m.at <= block + p /\ block + p <= Begins(m)
      /\ ~(p + Header <= Block) => m.at = block + Block \/ Begins(m) = block + Block
  BY <1>4, <1>5, <1>6, AtMark
<1>8. block' \in Nat /\ block' % Block = 0 /\ p' \in 0..Block
  <2>1. (block + Block) % Block = 0
    BY <1>4, InBlock
  <2>2. block' % Block = 0
    BY ONLY <1>2, <2>1, Zenon
  <2>3. block' \in Nat /\ p' \in 0..Block
    BY <1>2, <1>3, <1>4
  <2> QED
    BY <2>2, <2>3
<1>9. HasHeader => Cut
  <2>1. SUFFICES ASSUME HasHeader PROVE ~Padding
    BY <1>2
  <2>2. PICK len \in Nat : Finds(m, len)
    BY <1>4, <1>5, <1>6, <2>1, FindsRecord
  <2>3. Record.kind = "head"
    BY <2>2 DEF Finds, HeadCell
  <2> QED
    BY <2>3 DEF Padding
<1>10. CASE block' < n
  <2>1. BlockLen = Block
    BY <1>2, <1>3, <1>4, <1>10 DEF BlockLen
  <2>2. ~HasHeader
    <3>1. SUFFICES ASSUME HasHeader PROVE FALSE
      OBVIOUS
    <3>2. PICK len \in Nat : Finds(m, len)
      BY <1>4, <1>5, <1>6, <3>1, FindsRecord
    <3>3. DataEnd \in Nat /\ DataEnd <= Block /\ DataEnd > BlockLen
      BY <1>9, <3>1, <3>2 DEF Finds, Cut
    <3> QED
      BY <1>3, <2>1, <3>3
  <2>3. ~(p + Header <= Block)
    BY <2>1, <2>2 DEF HasHeader
  <2>4. m.at = block + Block \/ Begins(m) = block + Block
    BY <1>7, <2>3
  <2>5. block' + p' = block + Block
    BY <1>2, <1>3, <1>4
  <2>6. ReaderAt(m)'
    BY <1>2, <2>4, <2>5 DEF ReaderAt, Begins
  <2>7. p' <= BlockLen'
    BY <1>2, <1>3, <1>4, <1>8, <1>10 DEF BlockLen
  <2>8. pc' = "scan"
    BY <1>2, <1>10
  <2>9. emitted' = PutsUpTo(m.batch - 1)'
    BY <1>1, <1>2, <1>5, <1>6
  <2>10. \E b, k \in Nat : fragment' = DataOf(b, k)
    BY <1>2 DEF ReaderInv
  <2>11. \E x \in marks : /\ ReaderAt(x)' /\ fragment' = DataOf(x.batch, x.had)
                          /\ emitted' = PutsUpTo(x.batch - 1)'
    BY <1>2, <1>5, <2>6, <2>9
  <2> QED
    BY <1>1, <1>2, <1>4, <1>8, <1>10, <2>7, <2>8, <2>10, <2>11 DEF ReaderInv
<1>11. CASE ~(block' < n)
  <2>1. BlockLen = n - block /\ m.at <= n
    BY <1>2, <1>3, <1>4, <1>6, <1>7, <1>11 DEF BlockLen
  <2>2. ASSUME m.at < Len(log)
        PROVE  \E len \in Nat : Follows(m, len) /\ After(m, len) \in marks /\ Ends(m, len) > n
    <3>1. CASE HasHeader
      <4>1. PICK len \in Nat : Finds(m, len) /\ After(m, len) \in marks
        BY <1>4, <1>5, <1>6, <3>1, FindsRecord
      <4>2. DataEnd \in Nat /\ DataEnd > n - block /\ block + DataEnd = Ends(m, len)
        BY <1>9, <2>1, <3>1, <4>1 DEF Finds, Cut
      <4>3. Ends(m, len) > n
        BY <1>4, <1>6, <4>2
      <4> QED
        BY <4>1, <4>3 DEF Finds
    <3>2. CASE ~HasHeader
      <4>1. PICK len \in Nat : Follows(m, len) /\ After(m, len) \in marks
        BY <2>2 DEF MarksInv, MarkOK
      <4>2. p + Header > n - block
        BY <1>3, <1>4, <1>6, <2>1, <3>2 DEF HasHeader
      <4>3. Begins(m) + Header + len > n
        BY <1>3, <1>4, <1>6, <1>7, <4>2
      <4> QED
        BY <4>1, <4>3 DEF Ends
    <3> QED
      BY <3>1, <3>2
  <2>3. \A c \in DOMAIN batches : batches[c].end \in Nat
    BY Batches
  <2>4. \A c \in DOMAIN batches : c < m.batch <=> batches[c].end \in 1..m.at
    BY DEF MarksInv, MarkOK
  <2>5. ASSUME NEW c \in DOMAIN batches
        PROVE  c <= m.batch - 1 <=> batches[c].end \in 1..n
    <3>1. CASE c < m.batch
      <4>1. batches[c].end \in 1..n
        BY <1>4, <1>6, <2>1, <2>4, <3>1
      <4> QED
        BY <1>6, <3>1, <4>1
    <3>2. CASE ~(c < m.batch) /\ m.at = Len(log)
      <4>1. batches[c].end \notin 1..m.at /\ n = m.at
        BY <1>4, <1>6, <2>1, <2>4, <3>2
      <4> QED
        BY <1>6, <3>2, <4>1
    <3>3. CASE ~(c < m.batch) /\ m.at < Len(log)
      <4>1. PICK len \in Nat : /\ Follows(m, len) /\ After(m, len) \in marks
                               /\ Ends(m, len) > n
        BY <2>2, <3>3
      <4>2. ASSUME Whole(m, len), c = m.batch PROVE batches[c].end \notin 1..n
        BY <1>4, <1>6, <2>3, <4>1, <4>2 DEF Follows
      <4>3. ASSUME ~(Whole(m, len) /\ c = m.batch) PROVE batches[c].end \notin 1..n
        <5>1. ~(c < After(m, len).batch)
          BY <1>6, <3>3, <4>3 DEF After
        <5>2. batches[c].end \notin 1..After(m, len).at
          BY <4>1, <5>1 DEF MarksInv, MarkOK
        <5>3. batches[c].end \notin 1..Ends(m, len)
          BY <5>2 DEF After
        <5>4. Ends(m, len) \in Nat
          BY <1>3, <1>7 DEF Ends
        <5> QED
          BY <1>4, <1>6, <2>3, <4>1, <5>3, <5>4
      <4> QED
        BY <1>6, <3>3, <4>2, <4>3
    <3> QED
      BY <1>6, <3>1, <3>2, <3>3
  <2>6. pc' = "done"
    BY <1>2, <1>11
  <2>7. emitted' = PutsUpTo(m.batch - 1)'
    BY <1>1, <1>2, <1>5, <1>6
  <2>8. \E b \in 0..Len(batches') :
          /\ emitted' = PutsUpTo(b)'
          /\ \A c \in DOMAIN batches' : c <= b <=> batches'[c].end \in 1..n'
    BY <1>1, <1>2, <1>6, <2>5, <2>7
  <2>9. \E b, k \in Nat : fragment' = DataOf(b, k)
    BY <1>2 DEF ReaderInv
  <2> QED
    BY <1>1, <1>2, <1>4, <1>8, <2>6, <2>8, <2>9 DEF ReaderInv
<1> QED
  BY <1>10, <1>11

\* A record that is there in whole takes the reader to the next mark.
Advances(type, m, next, len) ==
  /\ Follows(m, len) /\ next = After(m, len) /\ type = TypeOfRecord(m, len)
  /\ ReaderAt(next)'
  /\ fragment = DataOf(m.batch, m.had) /\ emitted = PutsUpTo(m.batch - 1)
  /\ DataOf(m.batch, m.had) \o RecordData = DataOf(m.batch, m.had + len)
  /\ m.had = 0 => RecordData = DataOf(m.batch, len)

LEMMA ReadRecord ==
  ASSUME WriterInv, NEW marks, marks \subseteq Mark, MarksInv(marks), ReaderInv(marks),
         NEW type, NextRecord(type)
  PROVE  \E m, next \in marks, len \in Nat : Advances(type, m, next, len)
<1>1. /\ pc = "scan" /\ HasHeader /\ ~Cut /\ Record.type = type
      /\ p' = DataEnd /\ block' = block
  BY DEF NextRecord
<1>2. /\ n \in 0..Len(log) /\ block \in Nat /\ block % Block = 0 /\ p \in 0..Block
  BY <1>1 DEF ReaderInv
<1>3. PICK m \in marks : /\ ReaderAt(m) /\ fragment = DataOf(m.batch, m.had)
                         /\ emitted = PutsUpTo(m.batch - 1)
  BY <1>1 DEF ReaderInv
<1>4. m \in Mark /\ Len(log) \in Nat
  BY MarkBatch
<1>5. PICK len \in Nat, next \in marks : Finds(m, len) /\ next = After(m, len)
  BY <1>1, <1>2, <1>3, <1>4, FindsRecord
<1>6. type = TypeOfRecord(m, len)
  BY <1>1, <1>5 DEF Finds, HeadCell
<1>7. ReaderAt(next)'
  <2>1. block' + p' = Ends(m, len)
    BY <1>1, <1>5 DEF Finds
  <2>2. next.at = Ends(m, len)
    BY <1>5 DEF After
  <2> QED
    BY <2>1, <2>2 DEF ReaderAt
<1>8. /\ DataOf(m.batch, m.had) \o RecordData = DataOf(m.batch, m.had + len)
      /\ m.had = 0 => RecordData = DataOf(m.batch, len)
  BY <1>2, <1>4, <1>5, FindsData
<1>9. Advances(type, m, next, len)
  BY <1>3, <1>5, <1>6, <1>7, <1>8 DEF Finds, Advances
<1> QED
  BY <1>9

\* Where the reader is then, the invariant holds if it has what belongs to the mark.
LEMMA ReaderGoesOn ==
  ASSUME WriterInv, NEW marks, marks \subseteq Mark, MarksInv(marks), ReaderInv(marks),
         NEW type, NextRecord(type), NEW m \in marks,
         ReaderAt(m)', fragment' = DataOf(m.batch, m.had), emitted' = PutsUpTo(m.batch - 1)
  PROVE  ReaderInv(marks)'
<1>1. /\ Len(log)' = Len(log)
      /\ \A b \in 0..Len(batches) : PutsUpTo(b)' = PutsUpTo(b)
  BY SameWriter DEF NextRecord
<1>2. /\ pc = "scan" /\ HasHeader /\ ~Cut /\ pc' = pc /\ n' = n
      /\ p' = DataEnd /\ block' = block
  BY DEF NextRecord
<1>3. Block \in Nat \ {0} /\ Header \in Nat \ {0} /\ Header < Block
  BY WalAssumption
<1>4. /\ n \in 0..Len(log) /\ block \in Nat /\ block % Block = 0 /\ p \in 0..Block
      /\ block < n /\ p <= BlockLen
  BY <1>2 DEF ReaderInv
<1>5. PICK x \in marks : ReaderAt(x)
  BY <1>2 DEF ReaderInv
<1>6. /\ m \in Mark /\ x \in Mark /\ Len(log) \in Nat /\ m.batch - 1 \in 0..Len(batches)
      /\ m.batch \in Nat /\ m.had \in Nat
  BY MarkBatch DEF Mark
<1>7. PICK len \in Nat : Finds(x, len)
  BY <1>2, <1>4, <1>5, <1>6, FindsRecord
<1>8. p' \in 0..Block /\ p' <= BlockLen' /\ BlockLen' = BlockLen
  <2>1. DataEnd \in Nat /\ DataEnd <= Block /\ BlockLen \in Nat
    BY <1>3, <1>4, <1>6, <1>7 DEF Finds, BlockLen
  <2>2. DataEnd <= BlockLen
    <3>1. ~(DataEnd > BlockLen)
      BY <1>2 DEF Cut
    <3> QED
      BY <2>1, <3>1
  <2>3. BlockLen' = BlockLen
    BY <1>2 DEF BlockLen
  <2> QED
    BY <1>2, <1>3, <2>1, <2>2, <2>3
<1>9. emitted' = PutsUpTo(m.batch - 1)'
  BY <1>1, <1>6
<1> QED
  BY <1>1, <1>2, <1>4, <1>6, <1>8, <1>9 DEF ReaderInv

LEMMA ReadFull ==
  ASSUME WriterInv, NEW marks, marks \subseteq Mark, MarksInv(marks), ReaderInv(marks), Full
  PROVE  ReaderInv(marks)'
<1>1. /\ NextRecord("FULL") /\ fragment' = fragment
      /\ emitted' = emitted \o Emit(RecordData)
  BY DEF Full
<1>2. PICK m, next \in marks, len \in Nat : Advances("FULL", m, next, len)
  BY <1>1, ReadRecord
<1>3. Whole(m, len) /\ ~m.open
  BY <1>2 DEF TypeOfRecord, Advances
<1>4. m.had = 0 /\ m.batch \in DOMAIN batches /\ m.batch \in Nat
  BY <1>2, <1>3 DEF MarksInv, MarkOK, Follows, Mark, Advances
<1>5. len = Total(batches[m.batch].entries)
  BY <1>3, <1>4 DEF Whole
<1>6. emitted' = PutsUpTo(m.batch)
  <2>1. Emit(RecordData) = PutsOf(m.batch, Len(batches[m.batch].entries))
    BY <1>2, <1>4, <1>5, EmitWhole DEF Advances
  <2> QED
    BY <1>1, <1>2, <1>4, <2>1, PutsNext DEF Advances
<1>7. next.batch = m.batch + 1 /\ next.had = 0 /\ next.batch - 1 = m.batch /\ next.batch \in Nat
  BY <1>2, <1>3, <1>4 DEF After, Advances
<1>8. fragment' = DataOf(next.batch, next.had)
  BY <1>1, <1>2, <1>4, <1>7, DataSeq DEF Advances
<1> QED
  BY <1>1, <1>2, <1>6, <1>7, <1>8, ReaderGoesOn DEF Advances

LEMMA ReadLastPart ==
  ASSUME WriterInv, NEW marks, marks \subseteq Mark, MarksInv(marks), ReaderInv(marks), LastPart
  PROVE  ReaderInv(marks)'
<1>1. /\ NextRecord("LAST") /\ fragment' = <<>>
      /\ emitted' = emitted \o Emit(fragment \o RecordData)
  BY DEF LastPart
<1>2. PICK m, next \in marks, len \in Nat : Advances("LAST", m, next, len)
  BY <1>1, ReadRecord
<1>3. Whole(m, len)
  BY <1>2 DEF TypeOfRecord, Advances
<1>4. m.batch \in DOMAIN batches /\ m.batch \in Nat
  BY <1>2 DEF Follows, Mark, Advances
<1>5. m.had + len = Total(batches[m.batch].entries)
  BY <1>3 DEF Whole
<1>6. emitted' = PutsUpTo(m.batch)
  <2>1. Emit(fragment \o RecordData) = PutsOf(m.batch, Len(batches[m.batch].entries))
    BY <1>2, <1>4, <1>5, EmitWhole DEF Advances
  <2> QED
    BY <1>1, <1>2, <1>4, <2>1, PutsNext DEF Advances
<1>7. next.batch = m.batch + 1 /\ next.had = 0 /\ next.batch - 1 = m.batch /\ next.batch \in Nat
  BY <1>2, <1>3, <1>4 DEF After, Advances
<1>8. fragment' = DataOf(next.batch, next.had)
  BY <1>1, <1>7, DataSeq
<1> QED
  BY <1>1, <1>2, <1>6, <1>7, <1>8, ReaderGoesOn DEF Advances

LEMMA ReadFirst ==
  ASSUME WriterInv, NEW marks, marks \subseteq Mark, MarksInv(marks), ReaderInv(marks), First
  PROVE  ReaderInv(marks)'
<1>1. NextRecord("FIRST") /\ fragment' = RecordData /\ emitted' = emitted
  BY DEF First
<1>2. PICK m, next \in marks, len \in Nat : Advances("FIRST", m, next, len)
  BY <1>1, ReadRecord
<1>3. ~Whole(m, len) /\ ~m.open
  BY <1>2 DEF TypeOfRecord, Advances
<1>4. m.had = 0
  BY <1>3 DEF MarksInv, MarkOK
<1>5. next.batch = m.batch /\ next.had = len
  BY <1>2, <1>3, <1>4 DEF After, Advances
<1> QED
  BY <1>1, <1>2, <1>4, <1>5, ReaderGoesOn DEF Advances

LEMMA ReadMiddle ==
  ASSUME WriterInv, NEW marks, marks \subseteq Mark, MarksInv(marks), ReaderInv(marks), Middle
  PROVE  ReaderInv(marks)'
<1>1. NextRecord("MIDDLE") /\ fragment' = fragment \o RecordData /\ emitted' = emitted
  BY DEF Middle
<1>2. PICK m, next \in marks, len \in Nat : Advances("MIDDLE", m, next, len)
  BY <1>1, ReadRecord
<1>3. ~Whole(m, len)
  BY <1>2 DEF TypeOfRecord, Advances
<1>4. next.batch = m.batch /\ next.had = m.had + len
  BY <1>2, <1>3 DEF After, Advances
<1> QED
  BY <1>1, <1>2, <1>4, ReaderGoesOn DEF Advances

LEMMA ReadAgain ==
  ASSUME WriterInv, NEW marks, marks \subseteq Mark, MarksInv(marks), ReaderInv(marks), ReadFile
  PROVE  ReaderInv(marks)'
<1>1. /\ n' \in 0..Len(log) /\ pc' = (IF n' = 0 THEN "done" ELSE "scan")
      /\ block' = 0 /\ p' = 0 /\ fragment' = <<>> /\ emitted' = <<>>
  BY DEF ReadFile
<1>2. /\ Len(log)' = Len(log) /\ Len(batches)' = Len(batches) /\ batches' = batches
      /\ \A b \in 0..Len(batches) : PutsUpTo(b)' = PutsUpTo(b)
  BY SameWriter DEF ReadFile
<1>3. /\ Start \in marks /\ Start.at = 0 /\ Start.batch = 1 /\ Start.had = 0
      /\ Start.batch - 1 = 0
  BY DEF MarksInv, Start
<1>4. Len(batches) \in Nat /\ Len(log) \in Nat /\ DOMAIN batches = 1..Len(batches)
  BY <1>3, MarkBatch
<1>5. Block \in Nat \ {0}
  BY WalAssumption
<1>6. 0 \in 0..Len(batches) /\ emitted' = PutsUpTo(0)'
  BY <1>1, <1>2, <1>4, NoPuts
<1>7. fragment' = DataOf(1, 0)
  BY <1>1, DataSeq
<1>8. block' \in Nat /\ block' % Block = 0 /\ p' \in 0..Block
  <2>1. 0 % Block = 0
    BY <1>5
  <2> QED
    BY <1>1, <1>5, <2>1
<1>9. ASSUME n' # 0
      PROVE  /\ block' < n' /\ p' <= BlockLen' /\ ReaderAt(Start)'
             /\ fragment' = DataOf(Start.batch, Start.had)
             /\ emitted' = PutsUpTo(Start.batch - 1)'
  <2>1. BlockLen' \in Nat /\ block' < n'
    <3>1. block' < n' /\ n' - block' \in Nat
      <4>1. \A k \in Nat : \A i \in 0..k : i # 0 => 0 < i /\ i - 0 \in Nat
        OBVIOUS
      <4>2. n' \in 0..Len(log) /\ n' # 0 /\ Len(log) \in Nat /\ block' = 0
        BY <1>1, <1>4, <1>9
      <4> QED
        BY ONLY <4>1, <4>2
    <3>2. BlockLen' = IF n' - block' < Block THEN n' - block' ELSE Block
      BY DEF BlockLen
    <3> QED
      BY <1>5, <3>1, <3>2
  <2>2. ReaderAt(Start)'
    BY <1>1, <1>3 DEF ReaderAt, Start
  <2>3. emitted' = PutsUpTo(Start.batch - 1)'
    BY <1>6 DEF Start
  <2> QED
    BY <1>1, <1>3, <1>7, <2>1, <2>2, <2>3
<1>10. ASSUME n' = 0, NEW c \in DOMAIN batches'
       PROVE  c <= 0 <=> batches'[c].end \in 1..n'
  BY <1>2, <1>4, <1>10
<1> QED
  BY <1>1, <1>2, <1>3, <1>4, <1>6, <1>7, <1>8, <1>9, <1>10 DEF ReaderInv

-----------------------------------------------------------------------------
(* The steps of the writer *)

Types == {"FULL", "FIRST", "MIDDLE", "LAST"}

\* u is the k cells of s and the l cells of t.
JoinOf(u, s, t, k, l) ==
  /\ u \in Seq(Cell) /\ Len(u) = k + l
  /\ \A i \in 1..k + l : u[i] = IF i <= k THEN s[i] ELSE t[i - k]

LEMMA Joined ==
  ASSUME NEW s \in Seq(Cell), NEW t \in Seq(Cell), NEW k, NEW l, Len(s) = k, Len(t) = l
  PROVE  JoinOf(s \o t, s, t, k, l)
BY ConcatProperties DEF JoinOf

\* The log with one more record.
LogWith(pad, type, len, b, had) ==
  log \o Cells(Zero, pad) \o <<HeadCell(type, len)>> \o Cells(Rest, Header - 1)
      \o [i \in 1..len |-> Data(b, had + i)]

HasOneMore(next, pad, type, len, b, had) ==
  /\ next \in Seq(Cell) /\ Len(next) = Len(log) + pad + Header + len
  /\ \A i \in 1..Len(log) : next[i] = log[i]
  /\ next[Len(log) + pad + 1] = HeadCell(type, len)
  /\ \A j \in 1..len : next[Len(log) + pad + Header + j] = Data(b, had + j)

LEMMA OneRecordMore ==
  ASSUME log \in Seq(Cell), NEW pad \in Nat, NEW type \in Types, NEW len \in Nat,
         NEW b \in Nat, NEW had \in Nat
  PROVE  HasOneMore(LogWith(pad, type, len, b, had), pad, type, len, b, had)
<1>1. Header \in Nat \ {0} /\ Header - 1 \in Nat /\ Len(log) \in Nat
  BY LenProperties, WalAssumption
<1> DEFINE zeros == Cells(Zero, pad)
           head == <<HeadCell(type, len)>>
           rest == Cells(Rest, Header - 1)
           data == [i \in 1..len |-> Data(b, had + i)]
<1>2. \A m \in Nat : \A t \in [1..m -> Cell] : t \in Seq(Cell) /\ Len(t) = m
  <2>1. \A m \in Nat : \A t \in [1..m -> Cell] : t \in Seq(Cell)
    BY SeqDef
  <2> QED
    BY <2>1, LenProperties
<1>3. zeros \in Seq(Cell) /\ Len(zeros) = pad
  <2>1. Zero \in Cell
    BY DEF Zero, Cell
  <2>2. zeros \in [1..pad -> Cell]
    BY <2>1 DEF Cells
  <2> QED
    BY <1>2, <2>2
<1>4. rest \in Seq(Cell) /\ Len(rest) = Header - 1
  <2>1. Rest \in Cell
    BY DEF Rest, Cell
  <2>2. rest \in [1..Header - 1 -> Cell]
    BY <2>1 DEF Cells
  <2> QED
    BY <1>1, <1>2, <2>2
<1>5. data \in Seq(Cell) /\ Len(data) = len /\ \A j \in 1..len : data[j] = Data(b, had + j)
  <2>1. \A j \in 1..len : Data(b, had + j) \in Cell
    BY DEF Data, Cell
  <2>2. data \in [1..len -> Cell]
    BY <2>1
  <2> QED
    BY <1>2, <2>2
<1>6. head \in Seq(Cell) /\ Len(head) = 1 /\ head[1] = HeadCell(type, len)
  <2>1. HeadCell(type, len) \in Cell
    BY DEF HeadCell, Cell, Types
  <2> HIDE DEF HeadCell
  <2> QED
    BY <2>1
<1> HIDE DEF zeros, head, rest, data
<1> DEFINE L == Len(log)
           s1 == log \o zeros
           s2 == s1 \o head
           s3 == s2 \o rest
           s4 == s3 \o data
<1>7. /\ s1 \in Seq(Cell) /\ Len(s1) = L + pad
      /\ \A i \in 1..L : s1[i] = log[i]
  <2>1. /\ s1 \in Seq(Cell) /\ Len(s1) = L + pad
        /\ \A i \in 1..L + pad : s1[i] = IF i <= L THEN log[i] ELSE zeros[i - L]
    BY <1>3, ConcatProperties
  <2> HIDE DEF s1
  <2> QED
    BY <1>1, <2>1
<1> HIDE DEF s1
<1>8. /\ s2 \in Seq(Cell) /\ Len(s2) = L + pad + 1
      /\ \A i \in 1..L + pad : s2[i] = s1[i]
      /\ s2[L + pad + 1] = HeadCell(type, len)
  <2>0. JoinOf(s2, s1, head, L + pad, 1)
    BY ONLY <1>6, <1>7, Joined
  <2>1. /\ s2 \in Seq(Cell) /\ Len(s2) = L + pad + 1
        /\ \A i \in 1..L + pad + 1 : s2[i] = IF i <= L + pad THEN s1[i] ELSE head[i - (L + pad)]
    BY ONLY <2>0 DEF JoinOf
  <2> HIDE DEF s2
  <2> QED
    BY <1>1, <1>6, <2>1
<1> HIDE DEF s2
<1>9. /\ s3 \in Seq(Cell) /\ Len(s3) = L + pad + Header
      /\ \A i \in 1..L + pad + 1 : s3[i] = s2[i]
  <2>0. JoinOf(s3, s2, rest, L + pad + 1, Header - 1)
    BY ONLY <1>1, <1>4, <1>8, Joined
  <2>1. /\ s3 \in Seq(Cell) /\ Len(s3) = (L + pad + 1) + (Header - 1)
        /\ \A i \in 1..(L + pad + 1) + (Header - 1) :
             s3[i] = IF i <= L + pad + 1 THEN s2[i] ELSE rest[i - (L + pad + 1)]
    BY ONLY <2>0 DEF JoinOf
  <2> HIDE DEF s3
  <2> QED
    BY <1>1, <2>1
<1> HIDE DEF s3
<1>10. /\ s4 \in Seq(Cell) /\ Len(s4) = L + pad + Header + len
       /\ \A i \in 1..L + pad + Header : s4[i] = s3[i]
       /\ \A j \in 1..len : s4[L + pad + Header + j] = Data(b, had + j)
  <2>0. JoinOf(s4, s3, data, L + pad + Header, len)
    BY ONLY <1>5, <1>9, Joined
  <2>1. /\ s4 \in Seq(Cell) /\ Len(s4) = L + pad + Header + len
        /\ \A i \in 1..L + pad + Header + len :
             s4[i] = IF i <= L + pad + Header THEN s3[i] ELSE data[i - (L + pad + Header)]
    BY ONLY <2>0 DEF JoinOf
  <2> HIDE DEF s4
  <2>2. \A i \in 1..L + pad + Header : s4[i] = s3[i]
    BY <1>1, <2>1
  <2>3. ASSUME NEW j \in 1..len PROVE s4[L + pad + Header + j] = Data(b, had + j)
    <3> DEFINE i == L + pad + Header + j
    <3>1. i \in 1..L + pad + Header + len /\ ~(i <= L + pad + Header)
          /\ i - (L + pad + Header) = j
      BY <1>1
    <3> HIDE DEF i
    <3>2. s4[i] = data[j]
      BY <2>1, <3>1
    <3> QED
      BY <1>5, <3>2 DEF i
  <2> QED
    BY <2>1, <2>2, <2>3
<1>11. LogWith(pad, type, len, b, had) = s4
  BY DEF LogWith, s1, s2, s3, zeros, head, rest, data
<1> HIDE DEF s4
<1>12. \A i \in 1..L : s4[i] = log[i]
  <2>1. \A i \in 1..L : i \in 1..L + pad /\ i \in 1..L + pad + 1 /\ i \in 1..L + pad + Header
    BY <1>1
  <2> QED
    BY <1>7, <1>8, <1>9, <1>10, <2>1
<1>13. s4[L + pad + 1] = HeadCell(type, len)
  <2>1. L + pad + 1 \in 1..L + pad + 1 /\ L + pad + 1 \in 1..L + pad + Header
    BY <1>1
  <2> QED
    BY <1>8, <1>9, <1>10, <2>1
<1> QED
  BY <1>10, <1>11, <1>12, <1>13 DEF HasOneMore

\* A step of the writer that changes nothing in the first n cells and leaves the
\* batches that end there as they are is none to the reader.
LEMMA ReaderKept ==
  ASSUME WriterInv, NEW marks, NEW more, marks \subseteq Mark, MarksInv(marks), ReaderInv(marks),
         marks \subseteq more, UNCHANGED readerVars, SameEntries,
         Len(log)' \in Nat, Len(log) <= Len(log)',
         Len(batches)' \in Nat, Len(batches) <= Len(batches)', DOMAIN batches' = 1..Len(batches)',
         \A c \in DOMAIN batches' :
           batches'[c].end \in 1..n <=> c \in DOMAIN batches /\ batches[c].end \in 1..n
  PROVE  ReaderInv(more)'
<1>1. /\ pc' = pc /\ n' = n /\ block' = block /\ p' = p /\ fragment' = fragment
      /\ emitted' = emitted
  BY DEF readerVars
<1>2. Len(log) \in Nat /\ Len(batches) \in Nat /\ DOMAIN batches = 1..Len(batches)
  BY LenProperties DEF WriterInv
<1>3. /\ pc' \in {"idle", "scan", "done"} /\ n' \in 0..Len(log)'
      /\ block' \in Nat /\ block' % Block = 0 /\ p' \in 0..Block
      /\ \E b, k \in Nat : fragment' = DataOf(b, k)
  <2>1. n \in 0..Len(log) /\ block % Block = 0
    BY DEF ReaderInv
  <2>2. n' \in 0..Len(log)'
    BY <1>1, <1>2, <2>1
  <2>3. block' % Block = 0
    BY ONLY <1>1, <2>1, Zenon
  <2> QED
    BY <1>1, <2>2, <2>3 DEF ReaderInv
<1>4. ASSUME pc' = "scan"
      PROVE  /\ block' < n' /\ p' <= BlockLen'
             /\ \E m \in more : /\ ReaderAt(m)' /\ fragment' = DataOf(m.batch, m.had)
                               /\ emitted' = PutsUpTo(m.batch - 1)'
  <2>1. /\ block < n /\ p <= BlockLen
        /\ \E m \in marks : /\ ReaderAt(m) /\ fragment = DataOf(m.batch, m.had)
                            /\ emitted = PutsUpTo(m.batch - 1)
    BY <1>1, <1>4 DEF ReaderInv
  <2>2. BlockLen' = BlockLen
    BY <1>1 DEF BlockLen
  <2>3. PICK m \in marks : /\ ReaderAt(m) /\ fragment = DataOf(m.batch, m.had)
                           /\ emitted = PutsUpTo(m.batch - 1)
    BY <2>1
  <2>4. ReaderAt(m)'
    BY <1>1, <2>3 DEF ReaderAt
  <2>5. m.batch - 1 \in 0..Len(batches)
    BY MarkBatch
  <2>6. PutsUpTo(m.batch - 1)' = PutsUpTo(m.batch - 1)
    BY <2>5, PutsKept
  <2> QED
    BY <1>1, <2>1, <2>2, <2>3, <2>4, <2>6
<1>5. ASSUME pc' = "done"
      PROVE  \E b \in 0..Len(batches)' :
               /\ emitted' = PutsUpTo(b)'
               /\ \A c \in DOMAIN batches' : c <= b <=> batches'[c].end \in 1..n'
  <2>1. PICK b \in 0..Len(batches) :
          /\ emitted = PutsUpTo(b)
          /\ \A c \in DOMAIN batches : c <= b <=> batches[c].end \in 1..n
    BY <1>1, <1>5 DEF ReaderInv
  <2>2. PutsUpTo(b)' = PutsUpTo(b)
    BY PutsKept
  <2>3. ASSUME NEW c \in DOMAIN batches'
        PROVE  c <= b <=> batches'[c].end \in 1..n'
    <3>1. CASE c \in DOMAIN batches
      BY <1>1, <2>1, <3>1
    <3>2. CASE c \notin DOMAIN batches
      <4>1. ~(c <= b)
        BY <1>2, <2>1, <3>2
      <4> QED
        BY <1>1, <3>2, <4>1
    <3> QED
      BY <3>1, <3>2
  <2>4. b \in 0..Len(batches)'
    BY <1>2
  <2> QED
    BY <1>1, <2>1, <2>2, <2>3, <2>4
<1> QED
  BY <1>3, <1>4, <1>5 DEF ReaderInv

\* Where the writer has got to, in the two cases.
LEMMA TipOf ==
  ASSUME WriterInv
  PROVE  /\ Tip \in Mark /\ Tip.at = Len(log)
         /\ Unfinished => /\ Tip.batch = Len(batches) /\ Tip.had = written
                          /\ (Tip.open <=> ~begin) /\ Len(batches) \in DOMAIN batches
                          /\ batches[Len(batches)].end = 0
         /\ ~Unfinished => /\ Tip.batch = Len(batches) + 1 /\ Tip.had = 0 /\ ~Tip.open
                           /\ \A c \in DOMAIN batches : batches[c].end > 0
<1>1. /\ Len(log) \in Nat /\ Len(batches) \in Nat /\ DOMAIN batches = 1..Len(batches)
      /\ batches = <<>> <=> Len(batches) = 0
  BY LenProperties, EmptySeq DEF WriterInv
<1>2. written \in Nat /\ begin \in BOOLEAN
  BY DEF WriterInv
<1>3. Tip \in Mark /\ Tip.at = Len(log)
  <2>1. (Unfinished /\ ~begin) \in BOOLEAN
    OBVIOUS
  <2>2. (IF Unfinished THEN Len(batches) ELSE Len(batches) + 1) \in Nat
    BY <1>1
  <2>3. (IF Unfinished THEN written ELSE 0) \in Nat
    BY <1>2
  <2> QED
    BY <1>1, <2>1, <2>2, <2>3 DEF Tip, Mark
<1>4. ASSUME Unfinished
      PROVE  /\ Tip.batch = Len(batches) /\ Tip.had = written /\ (Tip.open <=> ~begin)
             /\ Len(batches) \in DOMAIN batches /\ batches[Len(batches)].end = 0
  <2>1. batches # <<>> /\ batches[Len(batches)].end = 0
    BY <1>4 DEF Unfinished, Last
  <2>2. Len(batches) \in DOMAIN batches
    BY <1>1, <2>1
  <2>3. Tip.batch = Len(batches) /\ Tip.had = written /\ (Tip.open <=> ~begin)
    BY <1>2, <1>4 DEF Tip
  <2> QED
    BY <2>1, <2>2, <2>3
<1>5. ASSUME ~Unfinished
      PROVE  /\ Tip.batch = Len(batches) + 1 /\ Tip.had = 0 /\ ~Tip.open
             /\ \A c \in DOMAIN batches : batches[c].end > 0
  <2>1. Tip.batch = Len(batches) + 1 /\ Tip.had = 0 /\ ~Tip.open
    BY <1>5 DEF Tip
  <2>2. ASSUME NEW c \in DOMAIN batches PROVE batches[c].end > 0
    <3>1. CASE c < Len(batches)
      BY <3>1 DEF WriterInv
    <3>2. CASE c = Len(batches)
      <4>1. batches[c].end # 0
        BY <1>1, <1>5, <3>2 DEF Unfinished, Last
      <4>2. batches[c].end \in Nat
        BY Batches
      <4> QED
        BY <4>1, <4>2
    <3> QED
      BY <1>1, <3>1, <3>2
  <2> QED
    BY <2>1, <2>2
<1> QED
  BY <1>3, <1>4, <1>5

\* A batch begun leaves the marks as they are.
LEMMA WriteBatch ==
  ASSUME WriterInv, NEW marks, marks \subseteq Mark, MarksInv(marks), ReaderInv(marks),
         NEW entries \in Shapes, BeginBatch(entries)
  PROVE  WriterInv' /\ MarksInv(marks)' /\ ReaderInv(marks)'
<1> DEFINE batch == [entries |-> entries, end |-> 0]
           N == Len(batches)
           S == [entries : Shapes, end : Nat]
<1>1. /\ ~Unfinished /\ batches' = Append(batches, batch) /\ written' = 0 /\ begin' = TRUE
      /\ log' = log /\ UNCHANGED readerVars
  BY DEF BeginBatch
<1>2. /\ log \in Seq(Cell) /\ Len(log) \in Nat /\ batches \in Seq(S)
      /\ N \in Nat /\ DOMAIN batches = 1..N
  BY LenProperties DEF WriterInv
<1>3. /\ batches' \in Seq(S) /\ Len(batches)' = N + 1
      /\ \A c \in 1..N : batches'[c] = batches[c]
      /\ batches'[N + 1] = batch
  <2>1. batch \in S
    OBVIOUS
  <2> QED
    BY <1>1, <1>2, <2>1, AppendProperties
<1>4. DOMAIN batches' = 1..N + 1 /\ batches' # <<>>
  <2>1. DOMAIN batches' = 1..N + 1
    BY <1>3, LenProperties
  <2>2. batches' # <<>>
    BY <1>2, <1>3, EmptySeq
  <2> QED
    BY <2>1, <2>2
<1>5. batch.end = 0 /\ batch.entries = entries
  OBVIOUS
<1> HIDE DEF batch, S
<1>6. \A c \in DOMAIN batches : batches[c].end > 0 /\ batches[c].end <= Len(log)
  BY <1>1, TipOf DEF WriterInv
<1>7. Unfinished'
  BY <1>3, <1>4, <1>5 DEF Unfinished, Last
<1>8. Tip' = Tip
  <2>1. Tip' = [at |-> Len(log), batch |-> N + 1, had |-> 0, open |-> FALSE]
    BY <1>1, <1>3, <1>7 DEF Tip
  <2>2. Tip = [at |-> Len(log), batch |-> N + 1, had |-> 0, open |-> FALSE]
    BY <1>1 DEF Tip
  <2> QED
    BY <2>1, <2>2
<1>9. WriterInv'
  <2>1. ASSUME NEW c \in DOMAIN batches'
        PROVE  batches'[c].end <= Len(log)' /\ (c < Len(batches)' => batches'[c].end > 0)
    <3>1. CASE c \in 1..N
      BY <1>1, <1>2, <1>3, <1>6, <3>1
    <3>2. CASE c = N + 1
      BY <1>1, <1>2, <1>3, <1>5, <3>2
    <3> QED
      BY <1>2, <1>4, <3>1, <3>2
  <2>2. written' \in Nat /\ begin' \in BOOLEAN /\ written' = 0
    BY <1>1
  <2>3. written' <= Total(batches'[Len(batches)'].entries)
    <3>1. entries \in Seq(Entry)
      BY WalAssumption DEF Entry
    <3>2. Total(entries) \in Nat
      BY <3>1, SizeGrows
    <3> QED
      BY <1>3, <1>5, <2>2, <3>2
  <2> QED
    BY <1>1, <1>2, <1>3, <2>1, <2>2, <2>3 DEF WriterInv, S
<1>10. ASSUME NEW m \in marks PROVE MarkOK(m, marks)'
  <2>1. MarkOK(m, marks) /\ m.batch \in 1..N + 1 /\ m.at \in Nat
    BY MarkBatch DEF MarksInv
  <2>2. \A len \in Nat : Follows(m, len) => Follows(m, len)' /\ After(m, len)' = After(m, len)
    <3>1. SUFFICES ASSUME NEW len \in Nat, Follows(m, len)
                   PROVE  Follows(m, len)' /\ After(m, len)' = After(m, len)
      OBVIOUS
    <3>2. m.batch \in DOMAIN batches
      BY <3>1 DEF Follows
    <3>3. batches'[m.batch] = batches[m.batch] /\ m.batch \in DOMAIN batches'
      BY <1>2, <1>3, <1>4, <3>2
    <3>4. Whole(m, len)' <=> Whole(m, len)
      BY <3>3 DEF Whole
    <3>5. Follows(m, len)'
      BY <1>1, <3>1, <3>3, <3>4 DEF Follows
    <3>6. After(m, len)' = After(m, len)
      BY <3>4 DEF After
    <3> QED
      BY <3>5, <3>6
  <2>3. /\ m.at <= Len(log)' /\ m.batch \in 1..Len(batches)' + 1 /\ (~m.open => m.had = 0)
        /\ (m.at = Len(log)' => m = Tip')
    BY <1>1, <1>2, <1>3, <1>8, <2>1 DEF MarkOK
  <2>4. m.at < Len(log)' => \E len \in Nat : Follows(m, len)' /\ After(m, len)' \in marks
    BY <1>1, <2>1, <2>2 DEF MarkOK
  <2>5. ASSUME NEW c \in DOMAIN batches' PROVE c < m.batch <=> batches'[c].end \in 1..m.at
    <3>1. CASE c \in 1..N
      BY <1>2, <1>3, <2>1, <3>1 DEF MarkOK
    <3>2. CASE c = N + 1
      BY <1>2, <1>3, <1>5, <2>1, <3>2
    <3> QED
      BY <1>2, <1>4, <3>1, <3>2
  <2> QED
    BY <2>3, <2>4, <2>5 DEF MarkOK
<1>11. MarksInv(marks)'
  BY <1>8, <1>10 DEF MarksInv
<1>12. SameEntries
  BY <1>2, <1>3 DEF SameEntries
<1>13. ASSUME NEW c \in DOMAIN batches'
       PROVE  batches'[c].end \in 1..n <=> c \in DOMAIN batches /\ batches[c].end \in 1..n
  <2>1. CASE c \in 1..N
    BY <1>2, <1>3, <2>1
  <2>2. CASE c = N + 1
    <3>1. batches'[c].end = 0 /\ c \notin DOMAIN batches
      BY <1>2, <1>3, <1>5, <2>2
    <3> QED
      BY <3>1
  <2> QED
    BY <1>2, <1>4, <2>1, <2>2
<1>14. ReaderInv(marks)'
  <2>1. /\ Len(log)' \in Nat /\ Len(log) <= Len(log)' /\ Len(batches)' \in Nat
        /\ Len(batches) <= Len(batches)' /\ DOMAIN batches' = 1..Len(batches)'
    BY <1>1, <1>2, <1>3, <1>4
  <2> QED
    BY <1>1, <1>12, <1>13, <2>1, ReaderKept
<1> QED
  BY <1>9, <1>11, <1>14

\* What a record does that is written after tip, with len cells of data.
Appends(tip, len) ==
  /\ tip \in Mark /\ tip = Tip /\ Unfinished /\ UNCHANGED readerVars
  /\ log' \in Seq(Cell) /\ Len(log)' \in Nat /\ Len(log)' = Ends(tip, len) /\ Len(log) < Len(log)'
  /\ \A i \in 1..Len(log) : log'[i] = log[i]
  /\ log'[Begins(tip) + 1] = HeadCell(TypeOfRecord(tip, len), len)
  /\ \A j \in 1..len : log'[Begins(tip) + Header + j] = Data(tip.batch, tip.had + j)
  /\ Header + len <= Left(Begins(tip))
  /\ tip.had + len <= Total(batches[tip.batch].entries)
  /\ written' = tip.had + len /\ written' \in Nat /\ begin' = FALSE
  /\ batches' \in Seq([entries : Shapes, end : Nat])
  /\ Len(batches)' = Len(batches) /\ DOMAIN batches' = DOMAIN batches
  /\ \A c \in DOMAIN batches : batches'[c].entries = batches[c].entries
  /\ \A c \in DOMAIN batches : c # tip.batch => batches'[c].end = batches[c].end
  /\ batches'[tip.batch].end = IF Whole(tip, len) THEN Len(log)' ELSE 0

LEMMA WriteAppends ==
  ASSUME WriterInv, WriteRecord
  PROVE  \E tip \in Mark, len \in Nat : Appends(tip, len)
<1> DEFINE b == Len(batches)
           S == [entries : Shapes, end : Nat]
           total == Total(batches[b].entries)
           pad == Pad(Len(log))
           room == Left(Len(log) + pad) - Header
           want == total - written
           len == IF want < room THEN want ELSE room
           type == IF len = want THEN IF begin THEN "FULL" ELSE "LAST"
                   ELSE IF begin THEN "FIRST" ELSE "MIDDLE"
           next == LogWith(pad, type, len, b, written)
<1>1. /\ Unfinished /\ log' = next /\ written' = written + len /\ begin' = FALSE
      /\ batches' = (IF len = want THEN [batches EXCEPT ![b].end = Len(next)] ELSE batches)
      /\ UNCHANGED readerVars
  BY DEF WriteRecord, LogWith
<1>2. /\ log \in Seq(Cell) /\ Len(log) \in Nat /\ batches \in Seq(S) /\ b \in Nat
      /\ DOMAIN batches = 1..b /\ written \in Nat /\ written <= total
  BY <1>1, LenProperties DEF WriterInv
<1>3. Header \in Nat \ {0} /\ Block \in Nat
  BY WalAssumption
<1>4. PICK tip \in Mark : tip = Tip
  BY TipOf
<1>5. /\ tip.at = Len(log) /\ tip.batch = b /\ tip.had = written /\ (tip.open <=> ~begin)
      /\ b \in DOMAIN batches /\ batches[b].end = 0
  BY <1>1, <1>4, TipOf
<1>6. batches[b] \in S /\ batches[b].entries \in Seq(Entry)
  BY <1>5, Batches
<1>7. total \in Nat
  BY <1>6, SizeGrows
<1>8. pad \in Nat /\ Left(Len(log) + pad) \in Header..Block
  BY <1>2, Room
<1> HIDE DEF pad, total
<1>9. /\ len \in Nat /\ len <= want /\ Header + len <= Left(Len(log) + pad)
      /\ written + len <= total /\ (len = want <=> written + len = total)
  <2>1. room \in Nat /\ want \in Nat /\ Left(Len(log) + pad) = Header + room
    BY <1>2, <1>3, <1>7, <1>8
  <2> HIDE DEF room
  <2> QED
    BY <1>2, <1>3, <1>7, <2>1
<1>10. Begins(tip) = Len(log) + pad /\ Ends(tip, len) = Len(log) + pad + Header + len
  BY <1>5 DEF Begins, Ends, pad
<1>11. Whole(tip, len) <=> len = want
  BY <1>5, <1>9 DEF Whole, total
<1>12. type = TypeOfRecord(tip, len)
  BY <1>5, <1>11 DEF TypeOfRecord
<1>13. type \in Types
  BY DEF Types
<1> HIDE DEF len, type, want
<1>14. /\ next \in Seq(Cell) /\ Len(next) = Len(log) + pad + Header + len
       /\ \A i \in 1..Len(log) : next[i] = log[i]
       /\ next[Len(log) + pad + 1] = HeadCell(type, len)
       /\ \A j \in 1..len : next[Len(log) + pad + Header + j] = Data(b, written + j)
  <2>1. HasOneMore(next, pad, type, len, b, written)
    BY ONLY <1>2, <1>8, <1>9, <1>13, OneRecordMore
  <2> QED
    BY ONLY <2>1 DEF HasOneMore
<1> HIDE DEF next
<1>15. Len(log)' = Len(next) /\ Len(next) \in Nat /\ Len(log) < Len(next)
  BY <1>1, <1>2, <1>3, <1>8, <1>9, <1>14
<1>16. /\ batches' \in Seq(S) /\ Len(batches)' = b
       /\ \A c \in 1..b : batches'[c].entries = batches[c].entries
       /\ \A c \in 1..b : c # b => batches'[c].end = batches[c].end
       /\ batches'[b].end = IF len = want THEN Len(next) ELSE 0
  <2>1. CASE len = want
    <3> DEFINE new == [batches[b] EXCEPT !.end = Len(next)]
    <3>1. new \in S /\ new.entries = batches[b].entries /\ new.end = Len(next)
      BY <1>6, <1>15
    <3>2. batches' = [batches EXCEPT ![b] = new]
      BY <1>1, <2>1
    <3> HIDE DEF new
    <3>3. /\ [batches EXCEPT ![b] = new] \in Seq(S)
          /\ Len([batches EXCEPT ![b] = new]) = b
          /\ \A c \in 1..b : [batches EXCEPT ![b] = new][c] = IF c = b THEN new ELSE batches[c]
      BY <1>2, <1>5, <3>1, ExceptSeq
    <3>4. /\ batches' \in Seq(S) /\ Len(batches') = b
          /\ \A c \in 1..b : batches'[c] = IF c = b THEN new ELSE batches[c]
      BY ONLY <3>2, <3>3, Zenon
    <3> QED
      BY <1>2, <1>5, <2>1, <3>1, <3>4
  <2>2. CASE len # want
    BY <1>1, <1>2, <1>5, <2>2
  <2> QED
    BY <2>1, <2>2
<1>17. DOMAIN batches' = DOMAIN batches
  BY <1>2, <1>16, LenProperties
<1>18. /\ log'[Begins(tip) + 1] = HeadCell(TypeOfRecord(tip, len), len)
       /\ \A j \in 1..len : log'[Begins(tip) + Header + j] = Data(tip.batch, tip.had + j)
       /\ \A i \in 1..Len(log) : log'[i] = log[i]
  BY <1>1, <1>5, <1>10, <1>12, <1>14
<1>19. written' = tip.had + len /\ written' \in Nat
  BY <1>1, <1>2, <1>5, <1>9
<1>20. /\ Header + len <= Left(Begins(tip))
       /\ tip.had + len <= Total(batches[tip.batch].entries)
  BY <1>5, <1>9, <1>10 DEF total
<1>21. batches'[tip.batch].end = IF Whole(tip, len) THEN Len(log)' ELSE 0
  BY <1>5, <1>11, <1>15, <1>16
<1>22. Appends(tip, len)
  BY <1>1, <1>2, <1>4, <1>5, <1>10, <1>14, <1>15, <1>16, <1>17, <1>18, <1>19, <1>20, <1>21
     DEF Appends, S
<1> QED
  BY <1>9, <1>22

\* The writer's invariant, and what the record's end is.
LEMMA WriterGoesOn ==
  ASSUME WriterInv, NEW tip, NEW len \in Nat, Appends(tip, len)
  PROVE  WriterInv' /\ Tip' = After(tip, len) /\ tip.batch = Len(batches) /\ tip.at = Len(log)
         /\ batches[tip.batch].end = 0 /\ tip.batch \in DOMAIN batches
<1> DEFINE b == Len(batches)
<1>1. /\ Len(log) \in Nat /\ b \in Nat /\ DOMAIN batches = 1..b
      /\ Len(log)' \in Nat /\ Len(log) < Len(log)' /\ Len(batches)' = b
      /\ DOMAIN batches' = 1..b
  BY LenProperties DEF WriterInv, Appends
<1>2. /\ tip.at = Len(log) /\ tip.batch = b /\ tip.had = written /\ b \in DOMAIN batches
      /\ batches[b].end = 0 /\ tip.had \in Nat
  BY TipOf DEF Appends, Mark
<1>3. batches'[b].end = (IF Whole(tip, len) THEN Len(log)' ELSE 0) /\ Len(log)' = Ends(tip, len)
      /\ written' = tip.had + len /\ written' \in Nat /\ begin' = FALSE
  BY <1>2 DEF Appends
<1>4. batches' # <<>> /\ Last(batches)' = batches'[b]
  BY <1>1, <1>2, EmptySeq DEF Last
<1>5. Unfinished' <=> ~Whole(tip, len)
  BY <1>1, <1>3, <1>4 DEF Unfinished
<1>6. Tip' = After(tip, len)
  <2>1. CASE Whole(tip, len)
    <3>1. Tip' = [at |-> Len(log)', batch |-> b + 1, had |-> 0, open |-> FALSE]
      BY <1>1, <1>5, <2>1 DEF Tip
    <3>2. After(tip, len) = [at |-> Len(log)', batch |-> b + 1, had |-> 0, open |-> FALSE]
      BY <1>2, <1>3, <2>1 DEF After
    <3> QED
      BY <3>1, <3>2
  <2>2. CASE ~Whole(tip, len)
    <3>1. Tip' = [at |-> Len(log)', batch |-> b, had |-> written', open |-> TRUE]
      BY <1>1, <1>3, <1>5, <2>2 DEF Tip
    <3>2. After(tip, len) = [at |-> Len(log)', batch |-> b, had |-> written', open |-> TRUE]
      BY <1>2, <1>3, <2>2 DEF After
    <3> QED
      BY <3>1, <3>2
  <2> QED
    BY <2>1, <2>2
<1>7. ASSUME NEW c \in DOMAIN batches'
      PROVE  batches'[c].end <= Len(log)' /\ (c < Len(batches)' => batches'[c].end > 0)
  <2>1. CASE c = b
    BY <1>1, <1>3, <2>1
  <2>2. CASE c # b
    <3>1. batches'[c].end = batches[c].end /\ c \in DOMAIN batches
      BY <1>1, <1>2, <2>2 DEF Appends
    <3>2. batches[c].end \in Nat /\ batches[c].end <= Len(log) /\ c < b /\ batches[c].end > 0
      BY <1>1, <2>2, <3>1, Batches DEF WriterInv
    <3> QED
      BY <1>1, <3>1, <3>2
  <2> QED
    BY <2>1, <2>2
<1>8. written' <= Total(batches'[Len(batches)'].entries)
  <2>1. batches'[b].entries = batches[b].entries
    BY <1>2 DEF Appends
  <2>2. tip.had + len <= Total(batches[b].entries)
    BY <1>2 DEF Appends
  <2> QED
    BY <1>1, <1>3, <2>1, <2>2
<1>9. log' \in Seq(Cell) /\ batches' \in Seq([entries : Shapes, end : Nat])
  BY DEF Appends
<1>10. WriterInv'
  BY <1>3, <1>7, <1>8, <1>9 DEF WriterInv
<1> QED
  BY <1>2, <1>6, <1>10

\* What followed a mark before still does.
LEMMA FollowsKept ==
  ASSUME WriterInv, NEW tip, NEW len \in Nat, Appends(tip, len), NEW m \in Mark, NEW k \in Nat,
         Follows(m, k)
  PROVE  Follows(m, k)' /\ After(m, k)' = After(m, k)
<1>1. /\ m.batch \in DOMAIN batches /\ m.had + k <= Total(batches[m.batch].entries)
      /\ Header + k <= Left(Begins(m)) /\ Ends(m, k) <= Len(log)
      /\ log[Begins(m) + 1] = HeadCell(TypeOfRecord(m, k), k)
      /\ \A j \in 1..k : log[Begins(m) + Header + j] = Data(m.batch, m.had + j)
      /\ Whole(m, k) => batches[m.batch].end = Ends(m, k)
  BY DEF Follows, TypeOfRecord
<1>2. /\ Len(log) \in Nat /\ Len(log)' \in Nat /\ Len(log) < Len(log)'
      /\ DOMAIN batches' = DOMAIN batches
      /\ \A i \in 1..Len(log) : log'[i] = log[i]
      /\ batches'[m.batch].entries = batches[m.batch].entries
  BY <1>1, LenProperties DEF WriterInv, Appends
<1>3. Header \in Nat \ {0}
  BY WalAssumption
<1>4. Begins(m) \in Nat /\ Ends(m, k) = Begins(m) + Header + k
  BY Room DEF Begins, Ends, Mark
<1>5. Begins(m) + 1 \in 1..Len(log) /\ \A j \in 1..k : Begins(m) + Header + j \in 1..Len(log)
  <2>1. \A q, l \in Nat : \A h \in Nat \ {0} :
          q + h + k <= l => q + 1 \in 1..l /\ \A j \in 1..k : q + h + j \in 1..l
    OBVIOUS
  <2>2. Begins(m) + Header + k <= Len(log)
    BY <1>1, <1>4
  <2> QED
    BY ONLY <1>2, <1>3, <1>4, <2>1, <2>2
<1>6. Whole(m, k)' <=> Whole(m, k)
  BY <1>2 DEF Whole
<1>7. ASSUME Whole(m, k) PROVE batches'[m.batch].end = Ends(m, k)
  <2>1. batches[m.batch].end # 0
    BY <1>1, <1>3, <1>4, <1>7
  <2>2. m.batch # tip.batch
    BY <2>1, WriterGoesOn
  <2>3. batches'[m.batch].end = batches[m.batch].end
    BY <1>1, <2>2 DEF Appends
  <2> QED
    BY <1>1, <1>7, <2>3
<1>8. TypeOfRecord(m, k)' = TypeOfRecord(m, k)
  BY <1>6 DEF TypeOfRecord
<1>9. /\ log'[Begins(m) + 1] = HeadCell(TypeOfRecord(m, k)', k)
      /\ \A j \in 1..k : log'[Begins(m) + Header + j] = Data(m.batch, m.had + j)
  BY <1>1, <1>2, <1>5, <1>8
<1>10. Ends(m, k) <= Len(log)'
  BY <1>1, <1>2, <1>3, <1>4
<1>11. Follows(m, k)'
  BY <1>1, <1>2, <1>6, <1>7, <1>9, <1>10 DEF Follows, TypeOfRecord
<1>12. After(m, k)' = After(m, k)
  BY <1>6 DEF After
<1> QED
  BY <1>11, <1>12

\* The record just written follows the mark it was written after.
LEMMA FollowsTip ==
  ASSUME WriterInv, NEW tip, NEW len \in Nat, Appends(tip, len)
  PROVE  Follows(tip, len)' /\ After(tip, len)' = After(tip, len)
<1>1. tip.batch \in DOMAIN batches
  BY WriterGoesOn
<1>2. batches'[tip.batch].entries = batches[tip.batch].entries /\ DOMAIN batches' = DOMAIN batches
  BY <1>1 DEF Appends
<1>3. Whole(tip, len)' <=> Whole(tip, len)
  BY <1>2 DEF Whole
<1>4. TypeOfRecord(tip, len)' = TypeOfRecord(tip, len)
  BY <1>3 DEF TypeOfRecord
<1>5. Len(log)' \in Nat /\ Ends(tip, len) = Len(log)'
  BY DEF Appends
<1>6. Follows(tip, len)'
  <2>1. /\ tip.batch \in DOMAIN batches'
        /\ tip.had + len <= Total(batches'[tip.batch].entries)
        /\ Header + len <= Left(Begins(tip)) /\ Ends(tip, len) <= Len(log)'
    BY <1>1, <1>2, <1>5 DEF Appends
  <2>2. /\ log'[Begins(tip) + 1] = HeadCell(TypeOfRecord(tip, len)', len)
        /\ \A j \in 1..len : log'[Begins(tip) + Header + j] = Data(tip.batch, tip.had + j)
    BY <1>4 DEF Appends
  <2>3. Whole(tip, len)' => batches'[tip.batch].end = Ends(tip, len)
    BY <1>3, <1>5 DEF Appends
  <2> QED
    BY <2>1, <2>2, <2>3 DEF Follows, TypeOfRecord
<1>7. After(tip, len)' = After(tip, len)
  BY <1>3 DEF After
<1> QED
  BY <1>6, <1>7

\* A record written adds its end to the marks.
LEMMA WriteOne ==
  ASSUME WriterInv, NEW marks, marks \subseteq Mark, MarksInv(marks), ReaderInv(marks), WriteRecord
  PROVE  WriterInv' /\ \E more \in SUBSET Mark : MarksInv(more)' /\ ReaderInv(more)'
<1>1. PICK tip \in Mark, len \in Nat : Appends(tip, len)
  BY WriteAppends
<1>2. /\ WriterInv' /\ Tip' = After(tip, len) /\ tip.batch = Len(batches) /\ tip.at = Len(log)
      /\ batches[tip.batch].end = 0 /\ tip.batch \in DOMAIN batches /\ tip = Tip
  BY <1>1, WriterGoesOn DEF Appends
<1>3. PICK top \in Mark : top = Tip'
  <2>1. Ends(tip, len) \in Nat /\ tip.batch \in Nat /\ tip.had + len \in Nat
    BY <1>1 DEF Appends, Mark
  <2>2. After(tip, len) \in Mark
    BY <2>1 DEF After, Mark
  <2> QED
    BY <1>2, <2>2
<1> DEFINE more == marks \cup {top}
<1>4. more \in SUBSET Mark
  OBVIOUS
<1>5. /\ Len(log) \in Nat /\ Len(log)' \in Nat /\ Len(log) < Len(log)' /\ Len(log)' = Ends(tip, len)
      /\ Len(batches) \in Nat /\ Len(batches)' = Len(batches)
      /\ DOMAIN batches = 1..Len(batches) /\ DOMAIN batches' = DOMAIN batches
      /\ \A c \in DOMAIN batches : batches'[c].entries = batches[c].entries
      /\ \A c \in DOMAIN batches : c # tip.batch => batches'[c].end = batches[c].end
      /\ batches'[tip.batch].end = IF Whole(tip, len) THEN Len(log)' ELSE 0
  BY <1>1, LenProperties DEF WriterInv, Appends
<1>6. top = After(tip, len) /\ top.at = Len(log)'
  BY <1>2, <1>3, <1>5 DEF After
<1>7. ASSUME NEW m \in marks PROVE MarkOK(m, more)'
  <2>1. MarkOK(m, marks) /\ m \in Mark /\ m.at \in Nat /\ m.at < Len(log)'
    BY <1>5, MarkBatch DEF MarksInv
  <2>2. /\ m.at <= Len(log)' /\ m.batch \in 1..Len(batches)' + 1 /\ (~m.open => m.had = 0)
        /\ (m.at = Len(log)' => m = Tip')
    BY <1>5, <2>1 DEF MarkOK
  <2>3. \E k \in Nat : Follows(m, k)' /\ After(m, k)' \in more
    <3>1. CASE m.at = Len(log)
      <4>1. m = tip
        BY <1>2, <2>1, <3>1 DEF MarkOK
      <4>2. Follows(tip, len)' /\ After(tip, len)' = top
        BY <1>1, <1>6, FollowsTip
      <4> QED
        BY <4>1, <4>2
    <3>2. CASE m.at < Len(log)
      <4>1. PICK k \in Nat : Follows(m, k) /\ After(m, k) \in marks
        BY <2>1, <3>2 DEF MarkOK
      <4>2. Follows(m, k)' /\ After(m, k)' = After(m, k)
        BY <1>1, <2>1, <4>1, FollowsKept
      <4> QED
        BY <4>1, <4>2
    <3>3. m.at = Len(log) \/ m.at < Len(log)
      BY <1>5, <2>1 DEF MarkOK
    <3> QED
      BY <3>1, <3>2, <3>3
  <2>4. ASSUME NEW c \in DOMAIN batches' PROVE c < m.batch <=> batches'[c].end \in 1..m.at
    <3>1. c \in DOMAIN batches /\ (c < m.batch <=> batches[c].end \in 1..m.at)
      BY <1>5, <2>1 DEF MarkOK
    <3>2. CASE c = tip.batch
      <4>1. batches[c].end \notin 1..m.at
        BY <1>2, <3>2
      <4>2. batches'[c].end \notin 1..m.at
        BY <1>5, <2>1, <3>2
      <4> QED
        BY <3>1, <4>1, <4>2
    <3>3. CASE c # tip.batch
      BY <1>5, <3>1, <3>3
    <3> QED
      BY <3>2, <3>3
  <2> HIDE DEF more
  <2> QED
    BY <2>2, <2>3, <2>4 DEF MarkOK
<1>8. MarkOK(top, more)'
  <2>1. CASE Whole(tip, len)
    <3>1. top.batch = Len(batches) + 1 /\ top.had = 0
      BY <1>2, <1>6, <2>1 DEF After
    <3>2. ASSUME NEW c \in DOMAIN batches' PROVE c < top.batch /\ batches'[c].end \in 1..top.at
      <4>1. c \in 1..Len(batches) /\ c < top.batch
        BY <1>5, <3>1
      <4>2. batches'[c].end \in 1..top.at
        <5>1. CASE c = tip.batch
          BY <1>5, <1>6, <2>1, <5>1
        <5>2. CASE c # tip.batch
          <6>1. batches'[c].end = batches[c].end /\ c < Len(batches) /\ c \in DOMAIN batches
            BY <1>2, <1>5, <4>1, <5>2
          <6>2. batches[c].end \in Nat /\ batches[c].end > 0 /\ batches[c].end <= Len(log)
            BY <6>1, Batches DEF WriterInv
          <6> QED
            BY <1>5, <1>6, <6>1, <6>2
        <5> QED
          BY <5>1, <5>2
      <4> QED
        BY <4>1, <4>2
    <3> HIDE DEF more
    <3> QED
      BY <1>3, <1>5, <1>6, <3>1, <3>2 DEF MarkOK
  <2>2. CASE ~Whole(tip, len)
    <3>1. top.batch = Len(batches) /\ top.open
      BY <1>2, <1>6, <2>2 DEF After
    <3>2. ASSUME NEW c \in DOMAIN batches' PROVE c < top.batch <=> batches'[c].end \in 1..top.at
      <4>1. CASE c = tip.batch
        BY <1>2, <1>5, <2>2, <3>1, <4>1
      <4>2. CASE c # tip.batch
        <5>1. batches'[c].end = batches[c].end /\ c < Len(batches) /\ c \in DOMAIN batches
          BY <1>2, <1>5, <4>2
        <5>2. batches[c].end \in Nat /\ batches[c].end > 0 /\ batches[c].end <= Len(log)
          BY <5>1, Batches DEF WriterInv
        <5> QED
          BY <1>5, <1>6, <3>1, <5>1, <5>2
      <4> QED
        BY <4>1, <4>2
    <3>3. top.batch \in 1..Len(batches)' + 1
      BY <1>2, <1>5, <3>1
    <3> HIDE DEF more
    <3> QED
      BY <1>3, <1>5, <1>6, <3>1, <3>2, <3>3 DEF MarkOK
  <2> QED
    BY <2>1, <2>2
<1>9. MarksInv(more)'
  <2>1. Start \in more /\ Tip' \in more
    BY <1>3 DEF MarksInv
  <2>2. \A m \in more : MarkOK(m, more)'
    <3>1. \A m \in more : m \in marks \/ m = top
      OBVIOUS
    <3> HIDE DEF more
    <3> QED
      BY <1>7, <1>8, <3>1
  <2> HIDE DEF more
  <2> QED
    BY <2>1, <2>2 DEF MarksInv
<1>10. ASSUME NEW c \in DOMAIN batches'
       PROVE  batches'[c].end \in 1..n <=> c \in DOMAIN batches /\ batches[c].end \in 1..n
  <2>1. c \in DOMAIN batches /\ n \in 0..Len(log)
    BY <1>5 DEF ReaderInv
  <2>2. CASE c = tip.batch
    BY <1>2, <1>5, <2>1, <2>2
  <2>3. CASE c # tip.batch
    BY <1>5, <2>1, <2>3
  <2> QED
    BY <2>2, <2>3
<1>11. ReaderInv(more)'
  <2>1. SameEntries
    BY <1>5 DEF SameEntries
  <2>2. UNCHANGED readerVars /\ marks \subseteq more
    BY <1>1 DEF Appends
  <2>3. /\ Len(log)' \in Nat /\ Len(log) <= Len(log)' /\ Len(batches)' \in Nat
        /\ Len(batches) <= Len(batches)' /\ DOMAIN batches' = 1..Len(batches)'
    BY <1>5
  <2> HIDE DEF more
  <2> QED
    BY <1>10, <2>1, <2>2, <2>3, ReaderKept
<1> QED
  BY <1>2, <1>4, <1>9, <1>11

-----------------------------------------------------------------------------
(* The invariant holds always *)

LEMMA Begin == Init => IInv
<1> SUFFICES ASSUME Init PROVE IInv
  OBVIOUS
<1>1. /\ log = <<>> /\ batches = <<>> /\ written = 0 /\ begin = TRUE /\ pc = "idle" /\ n = 0
      /\ block = 0 /\ p = 0 /\ fragment = <<>> /\ emitted = <<>>
  BY DEF Init
<1>2. /\ log \in Seq(Cell) /\ batches \in Seq([entries : Shapes, end : Nat])
      /\ Len(log) = 0 /\ Len(batches) = 0 /\ DOMAIN batches = {}
  BY <1>1
<1>3. ~Unfinished
  BY <1>1 DEF Unfinished
<1>4. WriterInv
  BY <1>1, <1>2, <1>3 DEF WriterInv
<1>5. Tip = Start /\ Start \in Mark
  <2>1. (Unfinished /\ ~begin) = FALSE
    BY <1>3
  <2>2. Tip = [at |-> 0, batch |-> 1, had |-> 0, open |-> FALSE]
    <3>1. Len(log) = 0 /\ Len(batches) + 1 = 1
      BY <1>2
    <3> QED
      BY ONLY <1>3, <2>1, <3>1, Zenon DEF Tip
  <2> QED
    BY <2>2 DEF Start, Mark
<1>6. MarkOK(Start, {Start})
  <2>1. Start.at = 0 /\ Start.batch = 1 /\ Start.had = 0
    BY DEF Start
  <2> QED
    BY <1>2, <1>5, <2>1 DEF MarkOK
<1>7. MarksInv({Start})
  BY <1>5, <1>6 DEF MarksInv
<1>8. ReaderInv({Start})
  <2>1. Block \in Nat \ {0} /\ 0 % Block = 0
    BY WalAssumption
  <2>2. fragment = DataOf(1, 0)
    BY <1>1, DataSeq
  <2> QED
    BY <1>1, <1>2, <2>1, <2>2 DEF ReaderInv
<1> QED
  BY <1>4, <1>5, <1>7, <1>8 DEF IInv

LEMMA Step == IInv /\ [Next]_vars => IInv'
<1> SUFFICES ASSUME IInv, [Next]_vars PROVE IInv'
  OBVIOUS
<1>1. WriterInv
  BY DEF IInv
<1>2. PICK marks \in SUBSET Mark : MarksInv(marks) /\ ReaderInv(marks)
  BY DEF IInv
<1>3. ASSUME UNCHANGED writerVars, ReaderInv(marks)' PROVE IInv'
  BY <1>1, <1>2, <1>3, SameWriter DEF IInv
<1>4. CASE WriteRecord
  BY <1>1, <1>2, <1>4, WriteOne DEF IInv
<1>5. ASSUME NEW entries \in Shapes, BeginBatch(entries) PROVE IInv'
  BY <1>1, <1>2, <1>5, WriteBatch DEF IInv
<1>6. CASE ReadFile
  BY <1>1, <1>2, <1>3, <1>6, ReadAgain DEF ReadFile
<1>7. CASE NextBlock
  BY <1>1, <1>2, <1>3, <1>7, ReadNextBlock DEF NextBlock
<1>8. CASE Full
  BY <1>1, <1>2, <1>3, <1>8, ReadFull DEF Full, NextRecord
<1>9. CASE First
  BY <1>1, <1>2, <1>3, <1>9, ReadFirst DEF First, NextRecord
<1>10. CASE Middle
  BY <1>1, <1>2, <1>3, <1>10, ReadMiddle DEF Middle, NextRecord
<1>11. CASE LastPart
  BY <1>1, <1>2, <1>3, <1>11, ReadLastPart DEF LastPart, NextRecord
<1>12. CASE UNCHANGED vars
  <2>1. UNCHANGED writerVars /\ UNCHANGED readerVars
    BY <1>12 DEF vars
  <2>2. /\ Len(log)' = Len(log) /\ Len(batches)' = Len(batches) /\ batches' = batches
    BY <1>1, <1>2, <2>1, SameWriter
  <2>3. Len(log) \in Nat /\ Len(batches) \in Nat /\ DOMAIN batches = 1..Len(batches)
    BY <1>1, LenProperties DEF WriterInv
  <2>4. SameEntries
    BY <2>2, <2>3 DEF SameEntries
  <2>5. ReaderInv(marks)'
    BY <1>1, <1>2, <2>1, <2>2, <2>3, <2>4, ReaderKept
  <2> QED
    BY <1>3, <2>1, <2>5
<1> QED
  BY <1>4, <1>5, <1>6, <1>7, <1>8, <1>9, <1>10, <1>11, <1>12 DEF Next, Scan

LEMMA ImpliesTypeOK == IInv => TypeOK
<1> SUFFICES ASSUME IInv PROVE TypeOK
  OBVIOUS
<1>1. PICK marks \in SUBSET Mark : MarksInv(marks) /\ ReaderInv(marks)
  BY DEF IInv
<1>2. /\ n \in 0..Len(log) /\ pc \in {"idle", "scan", "done"} /\ p \in 0..Block
      /\ block \in Nat /\ block % Block = 0
  BY <1>1 DEF ReaderInv
<1>3. ASSUME pc = "scan"
      PROVE  block < n /\ p <= BlockLen /\ (HasHeader => Record.kind \in {"head", "zero"})
  <2>1. block < n /\ p <= BlockLen
    BY <1>1, <1>3 DEF ReaderInv
  <2>2. ASSUME HasHeader PROVE Record.kind = "head"
    <3>1. PICK m \in marks : ReaderAt(m)
      BY <1>1, <1>3 DEF ReaderInv
    <3>2. Len(log) \in Nat
      BY LenProperties DEF IInv, WriterInv
    <3>3. PICK len \in Nat : Finds(m, len)
      BY <1>1, <1>2, <2>2, <3>1, <3>2, FindsRecord
    <3> QED
      BY <3>3 DEF Finds, HeadCell
  <2> QED
    BY <2>1, <2>2
<1>4. ASSUME NEW i \in DOMAIN fragment PROVE fragment[i] = Data(fragment[1].batch, i)
  <2>1. PICK b, k \in Nat : fragment = DataOf(b, k)
    BY <1>1 DEF ReaderInv
  <2>2. DOMAIN fragment = 1..k /\ \A j \in 1..k : fragment[j] = Data(b, j)
    BY <2>1, DataSeq
  <2>3. i \in 1..k /\ 1 \in 1..k
    BY <2>2
  <2>4. fragment[1].batch = b
    BY <2>2, <2>3 DEF Data
  <2> QED
    BY <2>2, <2>3, <2>4
<1> QED
  BY <1>2, <1>3, <1>4 DEF TypeOK

LEMMA ImpliesTailIsExact == IInv => TailIsExact
<1> SUFFICES ASSUME IInv, pc = "done" PROVE emitted = Puts(n)
  BY DEF TailIsExact
<1>1. WriterInv
  BY DEF IInv
<1>2. PICK b \in 0..Len(batches) :
        /\ emitted = PutsUpTo(b)
        /\ \A c \in DOMAIN batches : c <= b <=> batches[c].end \in 1..n
  BY DEF IInv, ReaderInv
<1>3. Len(batches) \in Nat /\ DOMAIN batches = 1..Len(batches)
  BY <1>1, LenProperties DEF WriterInv
<1> DEFINE whole(c) == PutsOf(c, Len(batches[c].entries))
           seqs == [c \in DOMAIN batches |-> IF batches[c].end \in 1..n THEN whole(c) ELSE <<>>]
<1>4. \A c \in DOMAIN batches : whole(c) \in Seq(Nat \X Nat)
  <2>1. ASSUME NEW c \in DOMAIN batches PROVE whole(c) \in Seq(Nat \X Nat)
    <3>1. batches[c].entries \in Seq(Entry) /\ c \in Nat
      BY <1>1, Batches
    <3>2. Len(batches[c].entries) \in Nat
      BY <3>1, LenProperties
    <3> QED
      BY <3>1, <3>2, PutsSeq
  <2> QED
    BY <2>1
<1>5. /\ Puts(n) = FlattenSeq(seqs)
      /\ PutsUpTo(b) = FlattenSeq([c \in 1..b |-> whole(c)])
  BY DEF Puts, PutsUpTo
<1> HIDE DEF whole
<1>6. /\ \A c \in 1..b : seqs[c] = whole(c)
      /\ \A c \in b + 1..Len(batches) : seqs[c] = <<>>
  <2>1. ASSUME NEW c \in 1..b PROVE seqs[c] = whole(c)
    <3>1. c \in DOMAIN batches /\ c <= b
      BY <1>3
    <3> QED
      BY <1>2, <3>1
  <2>2. ASSUME NEW c \in b + 1..Len(batches) PROVE seqs[c] = <<>>
    <3>1. c \in DOMAIN batches /\ ~(c <= b)
      BY <1>3
    <3> QED
      BY <1>2, <3>1
  <2> QED
    BY <2>1, <2>2
<1>7. seqs \in Seq(Seq(Nat \X Nat)) /\ Len(seqs) = Len(batches)
  <2>1. <<>> \in Seq(Nat \X Nat)
    OBVIOUS
  <2>2. seqs \in [1..Len(batches) -> Seq(Nat \X Nat)]
    BY <1>3, <1>4, <2>1
  <2> HIDE DEF seqs
  <2>3. \A m \in Nat : \A t \in [1..m -> Seq(Nat \X Nat)] : t \in Seq(Seq(Nat \X Nat))
    BY SeqDef
  <2>4. seqs \in Seq(Seq(Nat \X Nat))
    BY <1>3, <2>2, <2>3
  <2> QED
    BY <1>3, <2>2, <2>4, LenProperties
<1> HIDE DEF seqs
<1>8. FlattenSeq(seqs) = FlattenSeq([c \in 1..b |-> seqs[c]])
  <2>1. b \in 0..Len(seqs) /\ \A c \in b + 1..Len(seqs) : seqs[c] = <<>>
    BY <1>6, <1>7
  <2> QED
    BY ONLY <1>7, <2>1, FlattenTail
<1>9. [c \in 1..b |-> seqs[c]] = [c \in 1..b |-> whole(c)]
  BY <1>6
<1> QED
  BY <1>2, <1>5, <1>8, <1>9

\* The reader never loses the record boundaries of a log that is being written:
\* where it looks for a header one begins, and what it has collected is a beginning
\* of one batch (scan_log).
THEOREM BoundariesKept == Spec => []TypeOK
<1>1. Spec => []IInv
  BY Begin, Step, PTL DEF Spec
<1> QED
  BY <1>1, ImpliesTypeOK, PTL

\* Of a log cut anywhere, also while the writer goes on, scan_log hands over the
\* puts of the batches that are there in whole, each once and in order, and nothing
\* of the batch that is cut.
THEOREM WholeBatches == Spec => []TailIsExact
<1>1. Spec => []IInv
  BY Begin, Step, PTL DEF Spec
<1> QED
  BY <1>1, ImpliesTailIsExact, PTL
=============================================================================
