------------------------------ MODULE SsTable -------------------------------
(***************************************************************************)
(* crates/teams-core/src/leveldb/sstable.rs: all records of a table file,  *)
(* as the bytes give them.  A handle is <<offset, size>>, an entry         *)
(* <<key, value>>; offsets count from 0 as in the file, positions from 1.  *)
(***************************************************************************)
EXTENDS Bytes

CONSTANTS FooterSize,     \* 48 in the code
          RestartInterval \* of LevelDB's writer (16 by default)

ASSUME SsTableAssumption == FooterSize \in Nat /\ RestartInterval \in Nat \ {0}

\* snap::raw::Decoder on a stream of one literal: its length, the tag of a
\* literal with a one-byte length, that length less one, the bytes.
Decompress(raw) ==
  LET n == ReadVarint(raw, 1)
  IN IF n.ok /\ Len(raw) = n.used + 2 + n.value /\ raw[n.used + 1] = 240
        /\ raw[n.used + 2] + 1 = n.value
     THEN Found(SubSeq(raw, n.used + 3, Len(raw)), Len(raw)) ELSE Nothing

\* read_block_handle
ReadHandle(buf, pos) ==
  LET offset == ReadVarint(buf, pos)
      size == ReadVarint(buf, pos + offset.used)
  IN IF offset.ok /\ size.ok
     THEN Found(<<offset.value, size.value>>, offset.used + size.used) ELSE Nothing

\* read_block: the byte after the block says how it is compressed.
ReadBlock(file, handle) ==
  LET end == handle[1] + handle[2]
      raw == SubSeq(file, handle[1] + 1, end)
  IN IF end >= Len(file) THEN Nothing
     ELSE CASE file[end + 1] = 0 -> Found(raw, end)
            [] file[end + 1] = 1 -> Decompress(raw)
            [] OTHER -> Nothing

\* A wrong Rebuild: the key is extended without being cut first.
Extend(key, shared, suffix) == key \o suffix

\* key.truncate(shared), then extend
Rebuild(key, shared, suffix) == SubSeq(key, 1, shared) \o suffix

\* One entry of a block at p, after an entry with the given key.
ReadEntry(block, p, key) ==
  LET shared == ReadVarint(block, p)
      fresh == ReadVarint(block, p + shared.used)
      len == ReadVarint(block, p + shared.used + fresh.used)
      at == p + shared.used + fresh.used + len.used
  IN IF /\ shared.ok /\ fresh.ok /\ len.ok /\ shared.value <= Len(key)
        /\ Has(block, at, fresh.value + len.value)
     THEN Found(<<Rebuild(key, shared.value, Slice(block, at, fresh.value)),
                  Slice(block, at + fresh.value, len.value)>>,
                at + fresh.value + len.value - p)
     ELSE Nothing

\* iter_block: the entries handed over, up to the first that does not parse.  The
\* count of restart points has four bytes: with one in the last, the array it counts
\* is longer than any block below 64 MB.
IterBlock(block) ==
  LET restarts == ReadLe(block, Len(block) - 3, 3)
      From[p \in Nat, key \in Seq(0..255)] ==
        LET e == ReadEntry(block, p, key)
        IN IF p > Len(block) - 4 - 4 * restarts \/ ~e.ok THEN <<>>
           ELSE <<e.value>> \o From[p + e.used, e.value[1]]
  IN IF Len(block) < 4 \/ Last(block) # 0 THEN <<>> ELSE From[1, <<>>]

\* The data blocks the index names and read_block can read.
DataBlocks(file, index) ==
  LET handles == [i \in DOMAIN index |-> ReadHandle(index[i][2], 1)]
      blocks == [i \in DOMAIN index |->
                   IF handles[i].ok THEN ReadBlock(file, handles[i].value) ELSE Nothing]
  IN SelectSeq(blocks, LAMBDA b : b.ok)

\* scan_table
ScanTable(file) ==
  LET footer == Len(file) - FooterSize + 1
      meta == ReadHandle(file, footer)
      index == ReadHandle(file, footer + meta.used)
      block == ReadBlock(file, index.value)
      data == DataBlocks(file, IterBlock(block.value))
  IN IF Len(file) >= FooterSize /\ meta.ok /\ index.ok /\ block.ok
     THEN FlattenSeq([i \in DOMAIN data |-> IterBlock(data[i].value)]) ELSE <<>>

-----------------------------------------------------------------------------
(* The writer: LevelDB's BlockBuilder and TableBuilder. *)

\* How many leading bytes two keys share.
SharedBytes(a, b) == Len(LongestCommonPrefix({a, b}))

EncodeU32(n) == <<n % 256, (n \div 256) % 256, 0, 0>>

\* A block: entries with the shared part of the key left out but at the restart
\* points, then the restart points and their number.
BuildBlock(entries) ==
  LET Shared(i) == IF (i - 1) % RestartInterval = 0 THEN 0
                   ELSE SharedBytes(entries[i - 1][1], entries[i][1])
      Encoded(i) == LET key == entries[i][1]  value == entries[i][2]
                    IN EncodeVarint(Shared(i)) \o EncodeVarint(Len(key) - Shared(i))
                         \o EncodeVarint(Len(value))
                         \o SubSeq(key, Shared(i) + 1, Len(key)) \o value
      Offset(i) == Len(FlattenSeq([j \in 1..(i - 1) |-> Encoded(j)]))
      restarts == SelectSeq([i \in DOMAIN entries |-> i],
                            LAMBDA i : (i - 1) % RestartInterval = 0)
  IN FlattenSeq([i \in DOMAIN entries |-> Encoded(i)])
       \o FlattenSeq([k \in DOMAIN restarts |-> EncodeU32(Offset(restarts[k]))])
       \o EncodeU32(Len(restarts))

\* A stored block with its trailer: a byte for the compression and a checksum.
Stored(block, type) ==
  (IF type = 1 THEN EncodeVarint(Len(block)) \o <<240, Len(block) - 1>> \o block ELSE block)
    \o <<type, 0, 0, 0, 0>>

EncodeHandle(offset, stored) == EncodeVarint(offset) \o EncodeVarint(Len(stored) - 5)

\* A table of the given blocks, each [entries, type]: data, metaindex, index, footer.
BuildTable(blocks) ==
  LET data == [i \in DOMAIN blocks |-> Stored(BuildBlock(blocks[i].entries), blocks[i].type)]
      Offset(i) == Len(FlattenSeq([j \in 1..(i - 1) |-> data[j]]))
      all == FlattenSeq(data)
      meta == Stored(BuildBlock(<<>>), 0)
      index == Stored(BuildBlock([i \in DOMAIN blocks |->
                 <<Last(blocks[i].entries)[1], EncodeHandle(Offset(i), data[i])>>]), 0)
      handles == EncodeHandle(Len(all), meta) \o EncodeHandle(Len(all \o meta), index)
  IN all \o meta \o index \o handles \o Zeros(FooterSize - 8 - Len(handles))
       \o <<87, 251, 128, 139, 36, 117, 71, 219>>

\* The entries of the blocks whose compression the reader knows.
Readable(blocks) ==
  LET known == SelectSeq(blocks, LAMBDA b : b.type \in {0, 1})
  IN FlattenSeq([i \in DOMAIN known |-> known[i].entries])
=============================================================================
