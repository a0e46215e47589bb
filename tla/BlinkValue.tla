----------------------------- MODULE BlinkValue -----------------------------
(***************************************************************************)
(* crates/teams-core/src/v8.rs: the value of an IndexedDB record, written  *)
(* by V8's serializer in Blink's envelope.  A value is <<tag, content>>:   *)
(* strings are sequences of UTF-16 units, objects sets of <<name, value>>, *)
(* doubles their eight bytes.  Left out: the tag S (UTF-8 strings), which  *)
(* V8 no longer writes, and doubles as names.                              *)
(***************************************************************************)
EXTENDS Bytes, Integers

Null == <<"null", 0>>
At(value, next) == [ok |-> TRUE, value |-> value, next |-> next]

Positions(buf, from, byte) == {i \in from..Len(buf) : buf[i] = byte}

\* A wrong FindStart: what follows the last FF.
LastVersion(buf) ==
  IF Positions(buf, 1, 255) = {} THEN Nothing ELSE Found(Max(Positions(buf, 1, 255)) + 2, 2)

\* find_v8_start: past the first FF after Blink's FF 15; without that header, past
\* the last FF.
FindStart(buf) ==
  LET header == {i \in Positions(buf, 1, 255) : i < Len(buf) /\ buf[i + 1] = 21}
      version == Positions(buf, Min(header) + 2, 255)
      last == Positions(buf, 1, 255)
  IN IF header # {}
     THEN IF version # {} /\ Min(version) < Len(buf) THEN Found(Min(version) + 2, 2) ELSE Nothing
     ELSE IF last # {} THEN Found(Max(last) + 2, 2) ELSE Nothing

\* skip_padding: zeros, and FF with the version after it.
SkipPadding(buf, from) ==
  LET Skip[i \in Nat] == IF i > Len(buf) THEN i
                         ELSE CASE buf[i] = 0 -> Skip[i + 1]
                                [] buf[i] = 255 -> Skip[i + 2]
                                [] OTHER -> i
  IN Skip[from]

ZigZag(n) == IF n % 2 = 0 THEN n \div 2 ELSE -((n + 1) \div 2)

\* serde_json has no NaN and no infinity: they become null.
Double(bytes) == IF bytes[8] % 128 = 127 /\ bytes[7] >= 240 THEN Null ELSE <<"double", bytes>>

\* from_utf16_lossy
Lossy(s) == <<"string", [i \in DOMAIN s |-> IF Lone(s, i) THEN 65533 ELSE s[i]]>>
UnitsLe(bytes) == [i \in 1..(Len(bytes) \div 2) |-> bytes[2 * i - 1] + 256 * bytes[2 * i]]

\* n.to_string() of a name that is a number.
Decimal(n) == LET d == Digits(n, 10) IN [i \in DOMAIN d |-> 48 + d[Len(d) + 1 - i]]
Name(key) == IF key[1] = "string" THEN key[2]
             ELSE IF key[2] < 0 THEN <<45>> \o Decimal(-key[2]) ELSE Decimal(key[2])

\* The map of names and values read in turns: a name that is neither a string nor a
\* number drops the pair, a later pair replaces an earlier one.
Members(list) ==
  LET named == {i \in 1..(Len(list) \div 2) : list[2 * i - 1][1] \in {"string", "number"}}
      name == [i \in named |-> Name(list[2 * i - 1])]
  IN {<<name[i], list[2 * i]>> : i \in {j \in named : \A k \in named : k > j => name[k] # name[j]}}

\* What the content read after a tag stands for: T, F, 0 and _, I, U, N and D, the
\* strings " and c, the reference ^, the object o, the arrays A and a.
Meaning(tag, content) ==
  CASE tag \in {84, 70} -> <<"bool", tag = 84>>
    [] tag \in {48, 95, 94} -> Null
    [] tag = 73 -> <<"number", ZigZag(content)>>
    [] tag = 85 -> <<"number", content>>
    [] tag \in {78, 68} -> Double(content)
    [] tag = 34 -> <<"string", content>>
    [] tag = 99 -> Lossy(UnitsLe(content))
    [] tag \in {111, 97} -> <<"object", Members(content)>>
    [] tag = 65 -> <<"array", content>>

\* The closing byte, and the varints after the tag and after the closing byte.
Closing == [tag \in {111, 65, 97} |->
              CASE tag = 111 -> <<123, 0, 1>> [] tag = 65 -> <<36, 1, 2>> [] tag = 97 -> <<64, 1, 2>>]

\* V8Reader::varint and the next n bytes: what is at i, and where what follows begins.
VarintAt(buf, i) ==
  LET n == ReadVarint(buf, i) IN IF n.ok THEN At(n.value, i + n.used) ELSE Nothing
Take(buf, i, n) == IF Has(buf, i, n) THEN At(Slice(buf, i, n), i + n) ELSE Nothing

\* read_value, from the padding before it: V[i, 0] is the value at i; V[i, close] the
\* values up to the byte close, which the loops of the objects and arrays read.
ReadValue(buf, start) ==
  LET Past(i, n) == CASE n = 0 -> At(0, i)
                      [] n = 1 -> VarintAt(buf, i)
                      [] n = 2 -> IF VarintAt(buf, i).ok THEN VarintAt(buf, VarintAt(buf, i).next)
                                  ELSE Nothing
      V[i \in Nat, close \in 0..255] ==
        LET p == SkipPadding(buf, i)
            tag == buf[p]
            size == VarintAt(buf, p + 1)
            first == V[p, 0]
            rest == V[first.next, close]
            before == Past(p + 1, Closing[tag][2])
            list == V[before.next, Closing[tag][1]]
            after == Past(list.next, Closing[tag][3])
            content ==
              CASE tag \in {84, 70, 48, 95} -> At(0, p + 1)
                [] tag \in {73, 85, 94} -> size
                [] tag \in {78, 68} -> Take(buf, p + 1, 8)
                [] tag \in {34, 99} /\ size.ok -> Take(buf, size.next, size.value)
                [] tag \in DOMAIN Closing /\ before.ok /\ list.ok /\ after.ok
                     /\ (tag = 65 \/ Len(list.value) % 2 = 0) -> At(list.value, after.next)
                [] OTHER -> Nothing
        IN CASE p > Len(buf) -> Nothing
             [] p <= Len(buf) /\ close = 0 ->
                  IF content.ok THEN At(Meaning(tag, content.value), content.next) ELSE Nothing
             [] p <= Len(buf) /\ close # 0 /\ tag = close -> At(<<>>, p + 1)
             [] OTHER -> IF first.ok /\ rest.ok
                         THEN At(<<first.value>> \o rest.value, rest.next) ELSE Nothing
  IN V[start, 0]

\* V8Reader::decode
DecodeValue(buf) ==
  IF FindStart(buf).ok THEN ReadValue(buf, FindStart(buf).value) ELSE Nothing

-----------------------------------------------------------------------------
(* The writer, V8's serializer: what it writes is <<value, bytes>>.  Of what JSON  *)
(* cannot hold, the value is what the decoder means to leave: null for undefined,  *)
(* for an object met before and for infinity, U+FFFD for half a surrogate pair.    *)

Tagged(tag, value, bytes) == <<value, <<tag>> \o bytes>>
BytesOf(list) == FlattenSeq([i \in DOMAIN list |-> list[i][2]])

Int32(n) == Tagged(73, <<"number", n>>, EncodeVarint(IF n < 0 THEN -2 * n - 1 ELSE 2 * n))
Uint32(n) == Tagged(85, <<"number", n>>, EncodeVarint(n))
Latin1(s) == Tagged(34, <<"string", s>>, EncodeVarint(Len(s)) \o s)
Date(bytes) == Tagged(68, <<"double", bytes>>, bytes)
Literal(tag, value) == Tagged(tag, value, <<>>)
Reference(id) == Tagged(94, Null, EncodeVarint(id))

\* A string of two-byte units, after a byte of padding where its offset needs one.
Utf16(s, pad) ==
  <<Lossy(s), Zeros(pad) \o <<99>> \o EncodeVarint(2 * Len(s))
                \o FlattenSeq([i \in DOMAIN s |-> <<s[i] % 256, s[i] \div 256>>])>>

\* Members are pairs <<name, what is written for it>>; names are written as strings or
\* as numbers.
Object(members, tag, count) ==
  LET value == <<"object", {<<Name(members[i][1][1]), members[i][2][1]>> : i \in DOMAIN members}>>
      bytes == FlattenSeq([i \in DOMAIN members |-> members[i][1][2] \o members[i][2][2]])
      n == EncodeVarint(Len(members))
  IN IF tag = 111 THEN Tagged(111, value, bytes \o <<123>> \o n)
     ELSE Tagged(97, value, EncodeVarint(count) \o bytes \o <<64>> \o n \o EncodeVarint(count))
Dense(list) ==
  LET n == EncodeVarint(Len(list))
  IN Tagged(65, <<"array", [i \in DOMAIN list |-> list[i][1]]>>, n \o BytesOf(list) \o <<36, 0>> \o n)

\* The record of IndexedDB: a version, Blink's envelope, V8's version, the value.
Envelope(written) ==
  <<written[1], <<1, 255, 21, 254>> \o Zeros(12) \o <<255, 15>> \o written[2]>>
=============================================================================
