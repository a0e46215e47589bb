----------------------------- MODULE MCFormats ------------------------------
(***************************************************************************)
(* What is written in the run of Formats: every tag, and each length and   *)
(* width on both sides of the boundary where its encoding changes.         *)
(***************************************************************************)
EXTENDS Formats

\* Names: empty, of two bytes and a surrogate pair, longer than a one-byte varint counts.
MCNames == {<<>>, <<44032, 55357, 56832>>, [i \in 1..130 |-> 201]}
MCIds == {1, 50, 127, 128, 255, 256, 16384, 65536}
MCIndexes == {1, 3, 30, 257}
MCItems == {1, 6, 255}
MCPayloads == {<<>>, <<0, 97>>, <<50, 1, 0>>}

\* Blocks: keys that share a prefix across a restart, a key that is a prefix of the one
\* before, values that move the next block past offset 127.
Block(entries, type) == [entries |-> entries, type |-> type]
Short == << <<<<1, 2, 0>>, <<7>>>>, <<<<1, 2>>, <<>>>>, <<<<1, 2, 9>>, <<0, 1>>>>, <<<<1, 3>>, <<255>>>> >>
Long == << <<<<2>>, [i \in 1..130 |-> 0]>>, <<<<2, 0, 1>>, <<4>>>> >>

MCTables ==
  UNION {[1..n -> {Block(e, t) : e \in {Short, Long}, t \in {0, 1, 2}}] : n \in 1..2}
    \union {<<Block(Short, t), Block(Long, 2), Block(Short, 1)>> : t \in {0, 1}}

\* Doubles by their bytes: a date with FF in it, infinity.
Stamp == <<255, 255, 255, 255, 255, 255, 120, 66>>
Infinity == <<0, 0, 0, 0, 0, 0, 240, 127>>

Leaves ==
  {Int32(n) : n \in {0, -1, 63, -65, 16384, 1048575}} \union {Uint32(n) : n \in {0, 255, 4194303}}
    \union {Latin1(s) : s \in {<<>>, <<123, 255, 21>>, [i \in 1..130 |-> 36]}}
    \union {Utf16(<<44032, 255, 65535>>, pad) : pad \in 0..1}
    \union {Utf16(<<55357, 56832, 55357>>, 0), Date(Stamp), Tagged(78, Null, Infinity), Reference(200)}
    \union {Literal(84, <<"bool", TRUE>>), Literal(70, <<"bool", FALSE>>), Literal(48, Null),
            Literal(95, Null)}
Keys == {Latin1(<<97>>), Utf16(<<44032>>, 1), Int32(12)}
Nested ==
  {Dense(<<a, a>>) : a \in Leaves} \union {Dense(<<>>), Object(<<>>, 111, 0)}
    \union {Object(<<<<k, a>>>>, 111, 1) : k \in Keys, a \in Leaves}
    \union {Object(<<<<Int32(3), a>>>>, 97, 4) : a \in Leaves}

\* Without Blink's header the payload is found by its version alone, so no FF follows.
NoHeader(w) == <<w[1], <<1, 255, 15>> \o w[2]>>
MCValues ==
  {Envelope(w) : w \in Leaves \union Nested}
    \union {Envelope(Object(<<<<Latin1(<<98>>), a>>, <<Latin1(<<97>>), b>>>>, 111, 2)) :
              a \in Nested, b \in Leaves}
    \union {NoHeader(w) : w \in {v \in Nested : 255 \notin ToSet(v[2])}}

Pieces ==
  {Own(<<"word">>), Own(<<" ">>), Entity("amp", "&"), Entity("nbsp", " "), Entity("lt", "<"),
   Own(<<"&", "euro", ";">>), Tag("<p>"), Tag("<img emoji>"), Image("<img 1>"), Image("<img 2>"),
   Quote(<<"said", " ">>), Reply("<reply 1>", <<"said", "<img 1>", " ">>),
   Reply("<reply 2>", <<"<p>", "&", "amp", ";">>)}
MCContents == BoundedSeq(Pieces, 3)
=============================================================================
