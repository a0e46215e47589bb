------------------------------- MODULE Bytes --------------------------------
(***************************************************************************)
(* crates/teams-core/src/varint.rs and the fixed-width integers of         *)
(* idb.rs, over sequences of bytes; positions count from 1.  WordBits is   *)
(* 64 in the code: any width that is one more than a multiple of seven     *)
(* has the same boundary, where the last group keeps a single bit.         *)
(***************************************************************************)
EXTENDS Naturals, SequencesExt

CONSTANT WordBits  \* the width of the code's u64

ASSUME BytesAssumption == WordBits \in Nat /\ WordBits % 7 = 1

Nothing == [ok |-> FALSE]
Found(value, used) == [ok |-> TRUE, value |-> value, used |-> used]

\* buf.get(pos..pos + n) is Some.
Has(buf, pos, n) == pos + n <= Len(buf) + 1
Slice(buf, pos, n) == SubSeq(buf, pos, pos + n - 1)

Power2[k \in Nat] == IF k = 0 THEN 1 ELSE 2 * Power2[k - 1]

\* The number whose digits to the base, least first, the bytes hold.
Value(bytes, base) ==
  LET OfLast[k \in 0..Len(bytes)] ==
        IF k = 0 THEN 0 ELSE (bytes[Len(bytes) + 1 - k] % base) + base * OfLast[k - 1]
  IN OfLast[Len(bytes)]

\* A wrong ReadVarint: one byte.
ReadByte(buf, pos) ==
  IF Has(buf, pos, 1) THEN Found(buf[pos] % 128, 1) ELSE Nothing

\* read_varint: the groups up to the first byte below 0x80, least first; bits
\* beyond the word are lost, and a byte that would begin beyond it is refused.
ReadVarint(buf, pos) ==
  LET ends == {i \in pos..Len(buf) : buf[i] < 128}
      used == (CHOOSE i \in ends : \A j \in ends : i <= j) - pos + 1
  IN IF ends = {} \/ 7 * (used - 1) >= WordBits THEN Nothing
     ELSE Found(Value(Slice(buf, pos, used), 128) % Power2[WordBits], used)

\* read_le, read_u32_le, decode_int_le
ReadLe(buf, pos, n) == Value(Slice(buf, pos, n), 256)

IsHigh(u) == u \in 55296..56319
IsLow(u) == u \in 56320..57343

\* Half of a surrogate pair without the other half, at i of s.
Lone(s, i) == \/ IsHigh(s[i]) /\ ~(i < Len(s) /\ IsLow(s[i + 1]))
              \/ IsLow(s[i]) /\ ~(i > 1 /\ IsHigh(s[i - 1]))

-----------------------------------------------------------------------------
(* The writers of these formats: LevelDB and Chromium. *)

\* The digits of n, least first.
Digits(n, base) ==
  LET Of[m \in Nat] == IF m < base THEN <<m>> ELSE <<m % base>> \o Of[m \div base]
  IN Of[n]

EncodeVarint(n) ==
  LET d == Digits(n, 128) IN [i \in DOMAIN d |-> IF i < Len(d) THEN 128 + d[i] ELSE d[i]]

EncodeInt(n) == Digits(n, 256)

Zeros(n) == [i \in 1..n |-> 0]
=============================================================================
