--------------------------- MODULE SequenceLemmas ---------------------------
(***************************************************************************)
(* Facts about natural numbers and about the operators on sequences the    *)
(* models are built from, for the proof modules to cite by name.           *)
(*                                                                         *)
(* Induction is stated with a set of numbers where the library has an      *)
(* operator parameter: the set of the numbers a formula holds of.          *)
(***************************************************************************)
EXTENDS Naturals, FiniteSets, SequencesExt, Slices, SequenceTheorems, FiniteSetTheorems,
        WellFoundedInduction, TLAPS

\* A set of numbers that is not empty has a least one.
LEMMA LeastNat ==
  ASSUME NEW T \in SUBSET Nat, T # {}
  PROVE  \E m \in T : \A n \in T : m <= n
<1>1. PICK m \in T : \A n \in T : <<n, m>> \notin OpToRel(<, Nat)
  BY NatLessThanWellFounded, WFMin
<1>2. \A n \in T : ~(n < m)
  BY <1>1 DEF OpToRel
<1> QED
  BY <1>2

\* A set of numbers that has 0 and with each number the next one has them all.
LEMMA NatSetInduction ==
  ASSUME NEW T \in SUBSET Nat, 0 \in T, \A n \in T : n + 1 \in T
  PROVE  \A n \in Nat : n \in T
<1>1. SUFFICES ASSUME Nat \ T # {} PROVE FALSE
  OBVIOUS
<1>2. PICK m \in Nat \ T : \A n \in Nat \ T : m <= n
  BY <1>1, LeastNat
<1>3. m # 0
  BY <1>2
<1>4. m - 1 \in Nat /\ ~(m <= m - 1)
  BY <1>2, <1>3
<1>5. m - 1 \in T
  BY <1>2, <1>4
<1>6. (m - 1) + 1 = m
  BY <1>2
<1> QED
  BY <1>2, <1>5, <1>6

\* A set of numbers that has every number all smaller ones of which it has, has them all.
LEMMA StrongInduction ==
  ASSUME NEW T \in SUBSET Nat, \A n \in Nat : (\A m \in Nat : m < n => m \in T) => n \in T
  PROVE  \A n \in Nat : n \in T
<1>1. SUFFICES ASSUME Nat \ T # {} PROVE FALSE
  OBVIOUS
<1>2. PICK m \in Nat \ T : \A n \in Nat \ T : m <= n
  BY <1>1, LeastNat
<1>3. \A n \in Nat : n < m => n \in T
  BY <1>2
<1> QED
  BY <1>2, <1>3

\* A set of numbers with an upper bound has a greatest one.
LEMMA GreatestNat ==
  ASSUME NEW p \in Nat, NEW T \in SUBSET (0..p), T # {}
  PROVE  \E m \in T : \A n \in T : n <= m
<1> DEFINE D == {p - n : n \in T}
<1>1. D \in SUBSET Nat /\ D # {}
  <2>1. \A n \in T : p - n \in Nat
    OBVIOUS
  <2>2. PICK n \in T : TRUE
    OBVIOUS
  <2>3. p - n \in D
    BY <2>2
  <2> QED
    BY <2>1, <2>3
<1>2. PICK x \in D : \A y \in D : x <= y
  <2> HIDE DEF D
  <2> QED
    BY <1>1, LeastNat
<1>3. PICK m \in T : x = p - m
  OBVIOUS
<1>4. ASSUME NEW n \in T PROVE n <= m
  <2>1. x <= p - n
    BY <1>2
  <2> QED
    BY <1>3, <2>1
<1> QED
  BY <1>4

\* The greatest of some numbers, where a definition chooses it.
LEMMA ChooseGreatest ==
  ASSUME NEW p \in Nat, NEW T \in SUBSET (0..p), T # {}
  PROVE  LET m == CHOOSE n \in T : \A k \in T : k <= n
         IN m \in T /\ \A k \in T : k <= m
<1>1. \E n \in T : \A k \in T : k <= n
  BY GreatestNat
<1> QED
  BY <1>1

\* What a recursion computes, and up to a number.
Recursion(f, a, prev, step) ==
  \A m \in Nat : f[m] = IF m = 0 THEN a ELSE step[m][f[prev[m]]]
RecursionTo(n, f, a, prev, step) ==
  \A m \in 0..n : f[m] = IF m = 0 THEN a ELSE step[m][f[prev[m]]]

\* A function that is defined from its values at smaller numbers exists.
LEMMA RecursionExists ==
  ASSUME NEW S, NEW a \in S, NEW prev \in [Nat -> Nat], NEW step \in [Nat -> [S -> S]],
         \A m \in Nat : m # 0 => prev[m] < m
  PROVE  \E f \in [Nat -> S] : Recursion(f, a, prev, step)
<1> DEFINE Good(n, f) == f \in [0..n -> S] /\ RecursionTo(n, f, a, prev, step)
           T == {n \in Nat : \E f : Good(n, f)}
<1>1. 0 \in T
  <2>1. Good(0, [m \in 0..0 |-> a])
    BY DEF RecursionTo
  <2> QED
    BY <2>1
<1>2. ASSUME NEW n \in T PROVE n + 1 \in T
  <2>1. n \in Nat /\ n + 1 \in Nat /\ prev[n + 1] \in 0..n
    OBVIOUS
  <2>2. PICK f : Good(n, f)
    OBVIOUS
  <2> DEFINE last == step[n + 1][f[prev[n + 1]]]
             g == [m \in 0..n + 1 |-> IF m <= n THEN f[m] ELSE last]
  <2>3. last \in S
    BY <2>1, <2>2
  <2> HIDE DEF last
  <2>4. g \in [0..n + 1 -> S]
    BY <2>1, <2>2, <2>3
  <2>5. \A m \in 0..n : g[m] = f[m]
    BY <2>1
  <2>6. g[n + 1] = last
    BY <2>1
  <2> HIDE DEF g
  <2>7. ASSUME NEW m \in 0..n + 1
        PROVE  g[m] = IF m = 0 THEN a ELSE step[m][g[prev[m]]]
    <3>1. CASE m = n + 1
      <4>1. g[prev[m]] = f[prev[m]]
        BY <2>1, <2>5, <3>1
      <4> QED
        BY <2>1, <2>6, <3>1, <4>1 DEF last
    <3>2. CASE m \in 0..n
      <4>1. f[m] = IF m = 0 THEN a ELSE step[m][f[prev[m]]]
        BY <2>2, <3>2 DEF RecursionTo
      <4>2. m # 0 => prev[m] \in 0..n
        BY <2>1, <3>2, SMTT(20)
      <4> QED
        BY <2>5, <3>2, <4>1, <4>2
    <3> QED
      BY <2>1, <3>1, <3>2
  <2>8. Good(n + 1, g)
    BY <2>4, <2>7 DEF RecursionTo
  <2> QED
    BY <2>1, <2>8
<1>3. \A n \in Nat : \E f : Good(n, f)
  <2>1. T \subseteq Nat
    OBVIOUS
  <2> HIDE DEF T
  <2>2. \A n \in Nat : n \in T
    BY <1>1, <1>2, <2>1, NatSetInduction
  <2> QED
    BY <2>2 DEF T
<1>4. ASSUME NEW n \in Nat, NEW k \in Nat, n <= k, NEW f, NEW g, Good(n, f), Good(k, g)
      PROVE  \A m \in 0..n : f[m] = g[m]
  <2> DEFINE D == {m \in 0..n : f[m] # g[m]}
  <2>1. SUFFICES ASSUME D # {} PROVE FALSE
    OBVIOUS
  <2>2. PICK m \in D : \A i \in D : m <= i
    <3>1. D \subseteq Nat
      OBVIOUS
    <3> HIDE DEF D
    <3> QED
      BY <2>1, <3>1, LeastNat
  <2>3. m \in 0..n /\ m \in 0..k /\ m \in Nat
    BY <1>4
  <2>4. m # 0 => prev[m] \in 0..n /\ prev[m] \notin D
    BY <2>2, <2>3
  <2>5. f[m] = IF m = 0 THEN a ELSE step[m][f[prev[m]]]
    BY <1>4, <2>3 DEF RecursionTo
  <2>6. g[m] = IF m = 0 THEN a ELSE step[m][g[prev[m]]]
    BY <1>4, <2>3 DEF RecursionTo
  <2> QED
    BY <2>2, <2>4, <2>5, <2>6
<1> DEFINE At(n) == CHOOSE f : Good(n, f)
           h == [n \in Nat |-> At(n)[n]]
<1>5. \A n \in Nat : Good(n, At(n))
  BY <1>3
<1> HIDE DEF At
<1>6. \A n \in Nat : h[n] = At(n)[n]
  OBVIOUS
<1>7. h \in [Nat -> S]
  BY <1>5
<1> HIDE DEF h
<1>8. ASSUME NEW m \in Nat PROVE h[m] = IF m = 0 THEN a ELSE step[m][h[prev[m]]]
  <2>1. At(m)[m] = IF m = 0 THEN a ELSE step[m][At(m)[prev[m]]]
    BY <1>5 DEF RecursionTo
  <2>2. CASE m # 0
    <3>1. prev[m] \in Nat /\ prev[m] <= m /\ prev[m] \in 0..prev[m]
      BY <2>2
    <3>2. At(prev[m])[prev[m]] = At(m)[prev[m]]
      <4> HIDE DEF Good
      <4> QED
        BY <1>4, <1>5, <3>1
    <3> QED
      BY <1>6, <2>1, <3>1, <3>2
  <2> QED
    BY <1>6, <2>1, <2>2
<1> QED
  BY <1>7, <1>8 DEF Recursion

-----------------------------------------------------------------------------
\* A sequence of one element.
LEMMA OneElement ==
  ASSUME NEW S, NEW x \in S
  PROVE  <<x>> \in Seq(S) /\ Len(<<x>>) = 1
OBVIOUS

\* Sequences of some values are sequences of more.
LEMMA MoreValues ==
  ASSUME NEW S, NEW U, S \subseteq U, NEW s \in Seq(S)
  PROVE  s \in Seq(U) /\ Len(s) \in Nat
OBVIOUS

\* The empty sequence has no elements.
LEMMA NoElements == ToSet(<<>>) = {}
BY DEF ToSet

\* The elements of a sequence are its head's and its tail's.
LEMMA HeadAndTail ==
  ASSUME NEW S, NEW seq \in Seq(S), seq # <<>>
  PROVE  /\ Head(seq) \in S /\ Tail(seq) \in Seq(S)
         /\ ToSet(seq) = {Head(seq)} \cup ToSet(Tail(seq))
<1>1. /\ Head(seq) \in S /\ Tail(seq) \in Seq(S)
      /\ Len(Tail(seq)) = Len(seq) - 1
      /\ \A i \in 1..Len(Tail(seq)) : Tail(seq)[i] = seq[i + 1]
  BY HeadTailProperties
<1>2. /\ Len(seq) \in Nat \ {0} /\ DOMAIN seq = 1..Len(seq)
      /\ DOMAIN Tail(seq) = 1..Len(Tail(seq))
  BY <1>1, EmptySeq, LenProperties
<1>3. Head(seq) = seq[1]
  OBVIOUS
<1>4. ASSUME NEW i \in DOMAIN seq PROVE seq[i] \in {Head(seq)} \cup ToSet(Tail(seq))
  <2>1. CASE i = 1
    BY <1>3, <2>1
  <2>2. CASE i # 1
    <3>1. i - 1 \in DOMAIN Tail(seq) /\ (i - 1) + 1 = i
      BY <1>1, <1>2, <2>2
    <3>2. Tail(seq)[i - 1] = seq[i]
      BY <1>1, <1>2, <3>1
    <3> QED
      BY <3>1, <3>2 DEF ToSet
  <2> QED
    BY <2>1, <2>2
<1>5. ASSUME NEW i \in DOMAIN Tail(seq) PROVE Tail(seq)[i] \in ToSet(seq)
  <2>1. i + 1 \in DOMAIN seq
    BY <1>1, <1>2
  <2> QED
    BY <1>1, <1>2, <2>1 DEF ToSet
<1>6. Head(seq) \in ToSet(seq)
  BY <1>2, <1>3 DEF ToSet
<1>7. ToSet(seq) \subseteq {Head(seq)} \cup ToSet(Tail(seq))
  BY <1>4 DEF ToSet
<1>8. ToSet(Tail(seq)) \subseteq ToSet(seq)
  BY <1>5 DEF ToSet
<1> QED
  BY <1>1, <1>6, <1>7, <1>8

-----------------------------------------------------------------------------
\* What FlattenSeq computes from the left: the concatenation of the first i.
Joins(f, seqs) ==
  \A i \in DOMAIN f : f[i] = IF i = 1 THEN seqs[i] ELSE f[i - 1] \o seqs[i]

\* There is such a function of the concatenations.
LEMMA JoinsExist ==
  ASSUME NEW S, NEW seqs \in Seq(Seq(S))
  PROVE  \A n \in 0..Len(seqs) : \E f \in [1..n -> Seq(S)] : Joins(f, seqs)
<1> DEFINE T == {n \in Nat : n <= Len(seqs) => \E f \in [1..n -> Seq(S)] : Joins(f, seqs)}
<1>1. Len(seqs) \in Nat /\ \A i \in 1..Len(seqs) : seqs[i] \in Seq(S)
  BY LenProperties, ElementOfSeq
<1>2. 0 \in T
  <2>1. [i \in 1..0 |-> <<>>] \in [1..0 -> Seq(S)]
    OBVIOUS
  <2>2. Joins([i \in 1..0 |-> <<>>], seqs)
    BY DEF Joins
  <2> QED
    BY <2>1, <2>2
<1>3. ASSUME NEW n \in T PROVE n + 1 \in T
  <2>1. SUFFICES ASSUME n + 1 <= Len(seqs)
                 PROVE  \E f \in [1..n + 1 -> Seq(S)] : Joins(f, seqs)
    OBVIOUS
  <2>2. PICK f \in [1..n -> Seq(S)] : Joins(f, seqs)
    BY <1>1, <2>1
  <2> DEFINE last == IF n = 0 THEN seqs[1] ELSE f[n] \o seqs[n + 1]
             g == [i \in 1..n + 1 |-> IF i <= n THEN f[i] ELSE last]
  <2>3. last \in Seq(S)
    <3>1. n # 0 => f[n] \in Seq(S)
      BY <2>2
    <3>2. seqs[1] \in Seq(S) /\ seqs[n + 1] \in Seq(S)
      BY <1>1, <2>1
    <3> QED
      BY <3>1, <3>2, ConcatProperties
  <2>4. g \in [1..n + 1 -> Seq(S)]
    <3>1. \A i \in 1..n + 1 : i <= n => f[i] \in Seq(S)
      BY <2>2
    <3> QED
      BY <2>3, <3>1
  <2>5. Joins(g, seqs)
    <3>1. SUFFICES ASSUME NEW i \in 1..n + 1
                   PROVE  g[i] = IF i = 1 THEN seqs[i] ELSE g[i - 1] \o seqs[i]
      BY DEF Joins
    <3>2. CASE i <= n
      <4>1. g[i] = f[i] /\ i \in 1..n
        BY <3>2
      <4>2. i # 1 => g[i - 1] = f[i - 1]
        BY <3>2
      <4> QED
        BY <2>2, <4>1, <4>2 DEF Joins
    <3>3. CASE i = n + 1
      <4>1. g[i] = last
        BY <3>3
      <4>2. n # 0 => g[n] = f[n]
        OBVIOUS
      <4> QED
        BY <3>3, <4>1, <4>2
    <3> QED
      BY <3>2, <3>3
  <2> QED
    BY <2>4, <2>5
<1>4. \A n \in Nat : n \in T
  <2> HIDE DEF T
  <2>1. T \in SUBSET Nat
    BY DEF T
  <2> QED
    BY <1>2, <1>3, <2>1, NatSetInduction
<1> QED
  BY <1>1, <1>4

\* FlattenSeq is the last of those concatenations.
LEMMA FlattenJoins ==
  ASSUME NEW S, NEW seqs \in Seq(Seq(S)), seqs # <<>>
  PROVE  \E f \in [1..Len(seqs) -> Seq(S)] :
           Joins(f, seqs) /\ FlattenSeq(seqs) = f[Len(seqs)]
<1>1. Len(seqs) \in Nat \ {0}
  BY EmptySeq
<1> DEFINE Body(f) == [i \in 1..Len(seqs) |->
                         IF i = 1 THEN seqs[i] ELSE f[i - 1] \o seqs[i]]
<1>2. PICK f \in [1..Len(seqs) -> Seq(S)] : Joins(f, seqs)
  <2>1. Len(seqs) \in 0..Len(seqs)
    BY <1>1
  <2> QED
    BY <2>1, JoinsExist
<1>3. f = Body(f)
  BY <1>2 DEF Joins
<1> DEFINE F == CHOOSE g : g = Body(g)
<1>4. F = Body(F)
  BY <1>3
<1>5. FlattenSeq(seqs) = F[Len(seqs)]
  BY <1>1 DEF FlattenSeq
<1>6. \A i \in 1..Len(seqs) : F[i] = IF i = 1 THEN seqs[i] ELSE F[i - 1] \o seqs[i]
  <2> HIDE DEF F
  <2> QED
    BY <1>4
<1> HIDE DEF F
<1> DEFINE T == {n \in Nat : n \in 1..Len(seqs) => F[n] = f[n]}
<1>7. \A n \in Nat : n \in T
  <2>1. 0 \in T
    OBVIOUS
  <2>2. ASSUME NEW n \in T PROVE n + 1 \in T
    <3>1. SUFFICES ASSUME n + 1 \in 1..Len(seqs) PROVE F[n + 1] = f[n + 1]
      OBVIOUS
    <3>2. n # 0 => F[n] = f[n]
      BY <1>1, <3>1
    <3>3. (n + 1) - 1 = n /\ (n + 1 = 1 <=> n = 0)
      OBVIOUS
    <3>4. f[n + 1] = IF n + 1 = 1 THEN seqs[n + 1] ELSE f[n] \o seqs[n + 1]
      BY <1>2, <3>1, <3>3 DEF Joins
    <3> QED
      BY <1>6, <3>1, <3>2, <3>3, <3>4
  <2> QED
    <3>1. T \in SUBSET Nat
      OBVIOUS
    <3> HIDE DEF T
    <3> QED
      BY <2>1, <2>2, <3>1, NatSetInduction
<1>8. F[Len(seqs)] = f[Len(seqs)]
  <2>1. Len(seqs) \in Nat /\ Len(seqs) \in 1..Len(seqs)
    BY <1>1
  <2> QED
    BY <1>7, <2>1
<1>9. Joins(f, seqs) /\ FlattenSeq(seqs) = f[Len(seqs)]
  BY <1>2, <1>5, <1>8
<1> QED
  BY <1>9

\* The concatenation of sequences over S is one, with their elements.
LEMMA FlattenElements ==
  ASSUME NEW S, NEW seqs \in Seq(Seq(S))
  PROVE  /\ FlattenSeq(seqs) \in Seq(S)
         /\ ToSet(FlattenSeq(seqs)) = UNION {ToSet(seqs[i]) : i \in DOMAIN seqs}
<1>1. Len(seqs) \in Nat /\ DOMAIN seqs = 1..Len(seqs)
      /\ \A i \in 1..Len(seqs) : seqs[i] \in Seq(S)
  BY LenProperties, ElementOfSeq
<1>2. CASE seqs = <<>>
  <2>1. FlattenSeq(seqs) = <<>>
    BY <1>2 DEF FlattenSeq
  <2>2. DOMAIN seqs = {} /\ ToSet(<<>>) = {}
    BY <1>2 DEF ToSet
  <2> QED
    BY <2>1, <2>2
<1>3. CASE seqs # <<>>
  <2>1. PICK f \in [1..Len(seqs) -> Seq(S)] :
          Joins(f, seqs) /\ FlattenSeq(seqs) = f[Len(seqs)]
    BY <1>3, FlattenJoins
  <2>2. 1 \in 1..Len(seqs) /\ Len(seqs) \in 1..Len(seqs)
    <3>1. Len(seqs) # 0
      BY <1>3, EmptySeq
    <3> QED
      BY <1>1, <3>1
  <2> DEFINE T == {n \in Nat : n \in 1..Len(seqs) =>
                      ToSet(f[n]) = UNION {ToSet(seqs[i]) : i \in 1..n}}
  <2>3. \A n \in Nat : n \in T
    <3>1. 0 \in T
      OBVIOUS
    <3>2. ASSUME NEW n \in T PROVE n + 1 \in T
      <4>1. SUFFICES ASSUME n + 1 \in 1..Len(seqs)
                     PROVE  ToSet(f[n + 1]) = UNION {ToSet(seqs[i]) : i \in 1..n + 1}
        OBVIOUS
      <4>2. CASE n = 0
        <5>1. f[1] = seqs[1]
          BY <2>1, <2>2 DEF Joins
        <5>2. 1..n + 1 = {1} /\ n + 1 = 1
          BY <4>2
        <5> QED
          BY <5>1, <5>2
      <4>3. CASE n # 0
        <5>1. n \in 1..Len(seqs) /\ (n + 1) - 1 = n /\ n + 1 # 1
          BY <1>1, <4>1, <4>3
        <5>2. f[n + 1] = f[n] \o seqs[n + 1]
          BY <2>1, <4>1, <5>1 DEF Joins
        <5>3. f[n] \in Seq(S) /\ seqs[n + 1] \in Seq(S)
          BY <1>1, <2>1, <4>1, <5>1
        <5>4. ToSet(f[n + 1]) = ToSet(f[n]) \cup ToSet(seqs[n + 1])
          <6>1. Range(f[n] \o seqs[n + 1]) = Range(f[n]) \cup Range(seqs[n + 1])
            BY <5>3, RangeConcatenation
          <6> QED
            BY <5>2, <6>1 DEF ToSet, Range
        <5>5. ToSet(f[n]) = UNION {ToSet(seqs[i]) : i \in 1..n}
          BY <5>1
        <5>6. 1..n + 1 = 1..n \cup {n + 1}
          BY <4>1
        <5> QED
          BY <5>4, <5>5, <5>6
      <4> QED
        BY <4>2, <4>3
    <3> QED
      <4>1. T \in SUBSET Nat
        OBVIOUS
      <4> HIDE DEF T
      <4> QED
        BY <3>1, <3>2, <4>1, NatSetInduction
  <2>4. ToSet(f[Len(seqs)]) = UNION {ToSet(seqs[i]) : i \in 1..Len(seqs)}
    BY <1>1, <2>2, <2>3
  <2>5. f[Len(seqs)] \in Seq(S)
    BY <2>1, <2>2
  <2> QED
    BY <1>1, <2>1, <2>4, <2>5
<1> QED
  BY <1>2, <1>3

\* The concatenation ends as its last sequence does.
LEMMA FlattenLast ==
  ASSUME NEW S, NEW seqs \in Seq(Seq(S)), seqs # <<>>, seqs[Len(seqs)] # <<>>
  PROVE  \E flat \in Seq(S), last \in Seq(S) :
           /\ flat = FlattenSeq(seqs) /\ last = seqs[Len(seqs)]
           /\ Len(flat) > 0 /\ flat[Len(flat)] = last[Len(last)]
<1>1. Len(seqs) \in Nat /\ Len(seqs) # 0 /\ \A i \in 1..Len(seqs) : seqs[i] \in Seq(S)
  BY EmptySeq, ElementOfSeq, LenProperties
<1>2. PICK last \in Seq(S) : last = seqs[Len(seqs)] /\ Len(last) \in Nat /\ Len(last) # 0
  <2>1. seqs[Len(seqs)] \in Seq(S)
    BY <1>1
  <2> QED
    BY <2>1, EmptySeq, LenProperties
<1>3. PICK flat \in Seq(S) : flat = FlattenSeq(seqs)
  BY FlattenElements
<1>4. PICK f \in [1..Len(seqs) -> Seq(S)] : Joins(f, seqs) /\ flat = f[Len(seqs)]
  BY <1>3, FlattenJoins
<1>5. CASE Len(seqs) = 1
  <2>1. flat = last
    BY <1>1, <1>2, <1>4, <1>5 DEF Joins
  <2> QED
    BY <1>2, <1>3, <2>1
<1>6. CASE Len(seqs) # 1
  <2> DEFINE init == f[Len(seqs) - 1]
  <2>1. Len(seqs) \in 1..Len(seqs) /\ Len(seqs) - 1 \in 1..Len(seqs)
    <3>1. \A k \in Nat : k # 0 /\ k # 1 => k \in 1..k /\ k - 1 \in 1..k
      OBVIOUS
    <3> QED
      BY <1>1, <1>6, <3>1
  <2>2. init \in Seq(S)
    BY <2>1
  <2>3. flat = init \o last
    BY <1>2, <1>4, <1>6, <2>1 DEF Joins
  <2> HIDE DEF init
  <2>4. /\ flat \in Seq(S) /\ Len(flat) = Len(init) + Len(last)
        /\ \A i \in 1..Len(init) + Len(last) :
             flat[i] = IF i <= Len(init) THEN init[i] ELSE last[i - Len(init)]
    <3>1. init \in Seq(S) /\ last \in Seq(S)
      BY <2>2
    <3> QED
      BY ONLY <2>3, <3>1, ConcatProperties
  <2>5. Len(init) \in Nat
    BY <2>2, LenProperties
  <2>6. Len(flat) \in 1..Len(init) + Len(last) /\ ~(Len(flat) <= Len(init))
        /\ Len(flat) - Len(init) = Len(last)
    BY <1>2, <2>4, <2>5
  <2>7. flat[Len(flat)] = last[Len(last)]
    BY <2>4, <2>6
  <2>8. Len(flat) > 0
    BY <1>2, <2>4, <2>5
  <2> QED
    BY <1>2, <1>3, <2>7, <2>8
<1> QED
  BY <1>5, <1>6

\* The concatenation of one sequence more.
LEMMA FlattenAppend ==
  ASSUME NEW S, NEW seqs \in Seq(Seq(S)), NEW x \in Seq(S)
  PROVE  FlattenSeq(Append(seqs, x)) = FlattenSeq(seqs) \o x
<1> DEFINE more == Append(seqs, x)
<1>1. /\ more \in Seq(Seq(S)) /\ Len(more) = Len(seqs) + 1 /\ Len(seqs) \in Nat
      /\ \A i \in 1..Len(seqs) : more[i] = seqs[i]
      /\ more[Len(seqs) + 1] = x
  BY AppendProperties, LenProperties
<1> HIDE DEF more
<1>2. more # <<>>
  BY <1>1, EmptySeq
<1>3. PICK f \in [1..Len(more) -> Seq(S)] : Joins(f, more) /\ FlattenSeq(more) = f[Len(more)]
  BY <1>1, <1>2, FlattenJoins
<1>4. CASE seqs = <<>>
  <2>1. Len(seqs) = 0 /\ FlattenSeq(seqs) = <<>>
    BY <1>4 DEF FlattenSeq
  <2>2. f[1] = x
    BY <1>1, <1>3, <2>1 DEF Joins
  <2>3. <<>> \o x = x
    BY ConcatEmptySeq
  <2> QED
    BY <1>1, <1>3, <2>1, <2>2, <2>3 DEF more
<1>5. CASE seqs # <<>>
  <2>1. PICK g \in [1..Len(seqs) -> Seq(S)] : Joins(g, seqs) /\ FlattenSeq(seqs) = g[Len(seqs)]
    BY <1>5, FlattenJoins
  <2>2. Len(seqs) # 0
    BY <1>5, EmptySeq
  <2> DEFINE T == {n \in Nat : n \in 1..Len(seqs) => f[n] = g[n]}
  <2>3. 0 \in T
    OBVIOUS
  <2>4. ASSUME NEW n \in T PROVE n + 1 \in T
    <3>1. SUFFICES ASSUME n + 1 \in 1..Len(seqs) PROVE f[n + 1] = g[n + 1]
      OBVIOUS
    <3>2. /\ n + 1 \in 1..Len(more) /\ (n # 0 => n \in 1..Len(seqs))
          /\ (n + 1) - 1 = n /\ (n + 1 = 1 <=> n = 0)
      <4>1. n \in Nat
        OBVIOUS
      <4>2. \A m, k \in Nat : m + 1 \in 1..k =>
              /\ m + 1 \in 1..k + 1 /\ (m # 0 => m \in 1..k)
              /\ (m + 1) - 1 = m /\ (m + 1 = 1 <=> m = 0)
        OBVIOUS
      <4> QED
        BY ONLY <1>1, <3>1, <4>1, <4>2
    <3>3. f[n + 1] = IF n = 0 THEN seqs[n + 1] ELSE f[n] \o seqs[n + 1]
      BY <1>1, <1>3, <3>1, <3>2 DEF Joins
    <3>4. g[n + 1] = IF n = 0 THEN seqs[n + 1] ELSE g[n] \o seqs[n + 1]
      BY <2>1, <3>1, <3>2 DEF Joins
    <3>5. n # 0 => f[n] = g[n]
      BY <3>2
    <3> QED
      BY ONLY <3>3, <3>4, <3>5
  <2>5. \A n \in Nat : n \in T
    <3>1. T \in SUBSET Nat
      OBVIOUS
    <3> HIDE DEF T
    <3> QED
      BY <2>3, <2>4, <3>1, NatSetInduction
  <2>6. f[Len(seqs)] = g[Len(seqs)]
    <3>1. Len(seqs) \in 1..Len(seqs)
      BY <1>1, <2>2
    <3> QED
      BY <1>1, <2>5, <3>1
  <2>7. f[Len(seqs) + 1] = f[Len(seqs)] \o x
    <3>1. /\ Len(seqs) + 1 \in DOMAIN f /\ Len(seqs) + 1 # 1
          /\ (Len(seqs) + 1) - 1 = Len(seqs)
      BY <1>1, <2>2
    <3> QED
      BY <1>1, <1>3, <3>1 DEF Joins
  <2> QED
    BY <1>1, <1>3, <2>1, <2>6, <2>7 DEF more
<1> QED
  BY <1>4, <1>5

\* Empty sequences at the end add nothing.
LEMMA FlattenTail ==
  ASSUME NEW S, NEW seqs \in Seq(Seq(S)), NEW b \in 0..Len(seqs),
         \A i \in b + 1..Len(seqs) : seqs[i] = <<>>
  PROVE  FlattenSeq(seqs) = FlattenSeq([i \in 1..b |-> seqs[i]])
<1> DEFINE Upto(n) == [i \in 1..n |-> seqs[i]]
           T == {n \in Nat : b + n <= Len(seqs) => FlattenSeq(Upto(b + n)) = FlattenSeq(Upto(b))}
<1>1. Len(seqs) \in Nat /\ seqs \in [1..Len(seqs) -> Seq(S)] /\ b \in Nat /\ b <= Len(seqs)
  BY LenProperties
<1>2. 0 \in T
  BY <1>1
<1>3. ASSUME NEW n \in T PROVE n + 1 \in T
  <2>1. SUFFICES ASSUME b + (n + 1) <= Len(seqs)
                 PROVE  FlattenSeq(Upto(b + (n + 1))) = FlattenSeq(Upto(b))
    OBVIOUS
  <2>2. b + n \in Nat /\ b + n <= Len(seqs) /\ (b + n) + 1 = b + (n + 1)
        /\ b + (n + 1) \in b + 1..Len(seqs)
    BY <1>1, <2>1
  <2>3. Upto(b + n) \in Seq(Seq(S)) /\ Len(Upto(b + n)) = b + n
    <3>1. Upto(b + n) \in [1..b + n -> Seq(S)]
      BY <1>1, <2>2
    <3>2. Upto(b + n) \in Seq(Seq(S))
      <4>1. \A m \in Nat : \A s \in [1..m -> Seq(S)] : s \in Seq(Seq(S))
        BY SeqDef
      <4> QED
        BY ONLY <2>2, <3>1, <4>1
    <3> QED
      BY <2>2, <3>1, <3>2, LenProperties
  <2>4. <<>> \in Seq(S)
    BY EmptySeq
  <2>5. Upto(b + (n + 1)) = Append(Upto(b + n), <<>>)
    <3> DEFINE u == Append(Upto(b + n), <<>>)
    <3>1. /\ u \in Seq(Seq(S)) /\ Len(u) = (b + n) + 1
          /\ \A i \in 1..b + n : u[i] = Upto(b + n)[i]
          /\ u[(b + n) + 1] = <<>>
      BY <2>3, <2>4, AppendProperties
    <3>2. u \in [1..(b + n) + 1 -> Seq(S)]
      BY <3>1, LenProperties
    <3>3. ASSUME NEW i \in 1..(b + n) + 1 PROVE u[i] = seqs[i]
      <4>1. CASE i \in 1..b + n
        BY <3>1, <4>1
      <4>2. CASE i = (b + n) + 1
        BY <2>2, <3>1, <4>2
      <4> QED
        BY <2>2, <4>1, <4>2
    <3> HIDE DEF u
    <3>4. u = [i \in 1..(b + n) + 1 |-> seqs[i]]
      BY <3>2, <3>3
    <3> QED
      BY <2>2, <3>4 DEF u
  <2>6. FlattenSeq(Upto(b + (n + 1))) = FlattenSeq(Upto(b + n)) \o <<>>
    <3> HIDE DEF Upto
    <3> QED
      BY <2>3, <2>4, <2>5, FlattenAppend
  <2>7. FlattenSeq(Upto(b + n)) \in Seq(S)
    <3> HIDE DEF Upto
    <3> QED
      BY <2>3, FlattenElements
  <2>8. FlattenSeq(Upto(b + n)) = FlattenSeq(Upto(b))
    BY <2>2
  <2> HIDE DEF Upto
  <2> QED
    BY <2>6, <2>7, <2>8, ConcatEmptySeq
<1>4. \A n \in Nat : n \in T
  <2>1. T \in SUBSET Nat
    OBVIOUS
  <2> HIDE DEF T
  <2> QED
    BY <1>2, <1>3, <2>1, NatSetInduction
<1>5. FlattenSeq(Upto(Len(seqs))) = FlattenSeq(Upto(b))
  <2>1. Len(seqs) - b \in Nat /\ b + (Len(seqs) - b) = Len(seqs)
    BY <1>1
  <2>2. Len(seqs) - b \in T
    BY <1>4, <2>1
  <2> QED
    BY <1>1, <2>1, <2>2
<1>6. Upto(Len(seqs)) = seqs
  BY <1>1
<1> QED
  BY <1>5, <1>6

-----------------------------------------------------------------------------
\* A sequence of all elements of a finite set, each once.
LEMMA SetSequence ==
  ASSUME NEW S, IsFiniteSet(S), NEW f \in SetToSeqs(S)
  PROVE  /\ f \in Seq(S) /\ Len(f) = Cardinality(S) /\ Cardinality(S) \in Nat
         /\ DOMAIN f = 1..Cardinality(S) /\ ToSet(f) = S
         /\ \A i, j \in DOMAIN f : i # j => f[i] # f[j]
<1> DEFINE D == 1..Cardinality(S)
<1>1. Cardinality(S) \in Nat
  BY FS_CardinalityType
<1>2. f \in [D -> S] /\ \A i, j \in D : i # j => f[i] # f[j]
  BY DEF SetToSeqs
<1>3. IsFiniteSet(D) /\ Cardinality(D) = Cardinality(S)
  <2>1. Cardinality(S) \in Int /\ 1 \in Int
    BY <1>1
  <2>2. IsFiniteSet(D) /\ Cardinality(D) = IF 1 > Cardinality(S) THEN 0 ELSE Cardinality(S) - 1 + 1
    BY <2>1, FS_Interval
  <2> HIDE DEF D
  <2> QED
    BY <1>1, <2>2
<1>4. f \in Injection(D, S)
  <2>1. DOMAIN f = D
    BY <1>2
  <2> HIDE DEF D
  <2> QED
    BY <1>2, <2>1 DEF Injection, IsInjective
<1>5. f \in Surjection(D, S)
  <2> HIDE DEF D
  <2> QED
    BY <1>3, <1>4, FS_Injection
<1>6. ToSet(f) = S
  <2>1. \A x \in S : \E i \in D : f[i] = x
    BY <1>5 DEF Surjection
  <2> HIDE DEF D
  <2> QED
    BY <1>2, <2>1 DEF ToSet
<1>7. f \in Seq(S) /\ Len(f) = Cardinality(S)
  <2>1. f \in Seq(S)
    BY <1>1, <1>2, SeqDef
  <2> QED
    BY <1>1, <1>2, <2>1, LenProperties
<1> QED
  BY <1>1, <1>2, <1>6, <1>7

\* A finite set can be put in order, greatest key first.
LEMMA SortExists ==
  ASSUME NEW S, IsFiniteSet(S), NEW key \in [S -> Nat]
  PROVE  \E l \in SetToSeqs(S) : \A i, j \in DOMAIN l : i < j => key[l[i]] >= key[l[j]]
<1> DEFINE Sorting(l) == \A i, j \in DOMAIN l : i < j => key[l[i]] >= key[l[j]]
           T == {n \in Nat : \A U \in SUBSET S : Cardinality(U) = n =>
                               \E l \in SetToSeqs(U) : Sorting(l)}
<1>1. \A U \in SUBSET S : IsFiniteSet(U) /\ Cardinality(U) \in Nat
  BY FS_Subset, FS_CardinalityType
<1>2. 0 \in T
  <2>1. SUFFICES ASSUME NEW U \in SUBSET S, Cardinality(U) = 0
                 PROVE  \E l \in SetToSeqs(U) : Sorting(l)
    OBVIOUS
  <2> DEFINE l == [i \in 1..0 |-> i]
  <2>2. l \in SetToSeqs(U)
    BY <2>1 DEF SetToSeqs
  <2>3. Sorting(l)
    OBVIOUS
  <2> QED
    BY <2>2, <2>3
<1>3. ASSUME NEW n \in T PROVE n + 1 \in T
  <2>1. SUFFICES ASSUME NEW U \in SUBSET S, Cardinality(U) = n + 1
                 PROVE  \E l \in SetToSeqs(U) : Sorting(l)
    OBVIOUS
  <2>2. n \in Nat /\ \A V \in SUBSET S : Cardinality(V) = n => \E l \in SetToSeqs(V) : Sorting(l)
    OBVIOUS
  <2> HIDE DEF T
  <2>3. PICK x \in U : \A y \in U : key[x] <= key[y]
    <3> DEFINE keys == {key[y] : y \in U}
    <3>1. keys \in SUBSET Nat
      OBVIOUS
    <3>2. U # {}
      BY <2>1, <2>2, FS_EmptySet
    <3>3. keys # {}
      BY <3>2
    <3>4. PICK k \in keys : \A m \in keys : k <= m
      <4> HIDE DEF keys
      <4> QED
        BY <3>1, <3>3, LeastNat
    <3> QED
      BY <3>4
  <2> DEFINE V == U \ {x}
  <2>4. V \in SUBSET S /\ Cardinality(V) = n
    <3>1. Cardinality(V) = Cardinality(U) - 1
      BY <1>1, FS_RemoveElement
    <3> QED
      BY <2>1, <2>2, <3>1
  <2>5. PICK l \in SetToSeqs(V) : Sorting(l)
    <3> HIDE DEF V
    <3> QED
      BY <2>2, <2>4
  <2>6. l \in [1..n -> V] /\ \A i, j \in 1..n : i # j => l[i] # l[j]
    BY <2>4, <2>5 DEF SetToSeqs
  <2> DEFINE m == [i \in 1..n + 1 |-> IF i <= n THEN l[i] ELSE x]
  <2>7. \A i \in 1..n + 1 : /\ i <= n => i \in 1..n /\ m[i] = l[i] /\ m[i] \in V
                            /\ ~(i <= n) => i = n + 1 /\ m[i] = x
    BY <2>2, <2>6
  <2>8. DOMAIN m = 1..n + 1
    OBVIOUS
  <2>9. m \in [1..n + 1 -> U]
    BY <2>7
  <2> HIDE DEF m
  <2>10. ASSUME NEW i \in 1..n + 1, NEW j \in 1..n + 1, i # j PROVE m[i] # m[j]
    <3>1. CASE i <= n /\ j <= n
      BY <2>6, <2>7, <2>10, <3>1
    <3>2. CASE ~(i <= n /\ j <= n)
      BY <2>2, <2>7, <2>10, <3>2
    <3> QED
      BY <3>1, <3>2
  <2>11. ASSUME NEW i \in 1..n + 1, NEW j \in 1..n + 1, i < j PROVE key[m[i]] >= key[m[j]]
    <3>1. i <= n
      BY <2>2, <2>11
    <3>2. CASE j <= n
      <4>1. i \in 1..n /\ j \in 1..n /\ m[i] = l[i] /\ m[j] = l[j]
        BY <2>7, <3>1, <3>2
      <4>2. DOMAIN l = 1..n
        BY <2>6
      <4> QED
        BY <2>5, <2>11, <4>1, <4>2
    <3>3. CASE ~(j <= n)
      <4>1. m[i] \in U /\ m[j] = x
        BY <2>7, <2>9, <3>3
      <4>2. key[m[i]] \in Nat /\ key[x] \in Nat
        BY <4>1
      <4> QED
        BY <2>3, <4>1, <4>2
    <3> QED
      BY <3>2, <3>3
  <2>12. m \in SetToSeqs(U)
    BY <2>1, <2>9, <2>10 DEF SetToSeqs
  <2>13. Sorting(m)
    BY <2>8, <2>11
  <2> QED
    BY <2>12, <2>13
<1>4. \A n \in Nat : n \in T
  <2>1. T \in SUBSET Nat
    OBVIOUS
  <2> HIDE DEF T
  <2> QED
    BY <1>2, <1>3, <2>1, NatSetInduction
<1> QED
  BY <1>1, <1>4

-----------------------------------------------------------------------------
\* The numbers from 1 to n are n numbers.
LEMMA UpToCardinality ==
  ASSUME NEW n \in Nat
  PROVE  IsFiniteSet(1..n) /\ Cardinality(1..n) = n
<1>1. n \in Int /\ 1 \in Int
  OBVIOUS
<1>2. IsFiniteSet(1..n) /\ Cardinality(1..n) = IF 1 > n THEN 0 ELSE n - 1 + 1
  BY <1>1, FS_Interval
<1> QED
  BY <1>2

\* In a total order of a finite set the sets of what comes no later have all sizes
\* from one to the set's, each once, and grow along the order.
LEMMA Ranks ==
  ASSUME NEW K, IsFiniteSet(K), NEW up \in [K -> SUBSET K],
         \A p \in K : p \in up[p],
         \A p, q \in K : p \in up[q] \/ q \in up[p],
         \A p, q \in K : q \in up[p] => up[q] \subseteq up[p],
         \A p, q \in K : q \in up[p] /\ p \in up[q] => p = q
  PROVE  /\ Cardinality(K) \in Nat
         /\ \A p \in K : Cardinality(up[p]) \in 1..Cardinality(K)
         /\ \A n \in 1..Cardinality(K) : \E p \in K : Cardinality(up[p]) = n
         /\ \A p, q \in K : Cardinality(up[p]) = Cardinality(up[q]) => p = q
         /\ \A p, q \in K : Cardinality(up[p]) < Cardinality(up[q]) => p \in up[q]
<1> DEFINE N == Cardinality(K)
           rank == [p \in K |-> Cardinality(up[p])]
<1>1. N \in Nat
  BY FS_CardinalityType
<1>2. \A p \in K : IsFiniteSet(up[p]) /\ Cardinality(up[p]) \in Nat /\ Cardinality(up[p]) <= N
  BY FS_Subset, FS_CardinalityType
<1>3. ASSUME NEW p \in K, NEW q \in K, p \in up[q]
      PROVE  /\ Cardinality(up[p]) <= Cardinality(up[q])
             /\ Cardinality(up[p]) = Cardinality(up[q]) => q \in up[p]
  <2>1. up[p] \subseteq up[q]
    BY <1>3
  <2>2. /\ Cardinality(up[p]) <= Cardinality(up[q])
        /\ Cardinality(up[p]) = Cardinality(up[q]) => up[p] = up[q]
    BY <1>2, <2>1, FS_Subset
  <2> QED
    BY <2>2
<1>4. ASSUME NEW p \in K PROVE Cardinality(up[p]) # 0
  BY <1>2, FS_EmptySet
<1>5. ASSUME NEW p \in K, NEW q \in K, Cardinality(up[p]) = Cardinality(up[q]) PROVE p = q
  <2>1. CASE p \in up[q]
    BY <1>3, <1>5, <2>1
  <2>2. CASE q \in up[p]
    BY <1>3, <1>5, <2>2
  <2> QED
    BY <2>1, <2>2
<1>6. ASSUME NEW p \in K, NEW q \in K, Cardinality(up[p]) < Cardinality(up[q]) PROVE p \in up[q]
  <2>1. SUFFICES ASSUME q \in up[p] PROVE FALSE
    OBVIOUS
  <2>2. Cardinality(up[q]) <= Cardinality(up[p])
    BY <1>3, <2>1
  <2> QED
    BY <1>2, <1>6, <2>2
<1> HIDE DEF N
<1>7. \A p \in K : Cardinality(up[p]) \in 1..N
  BY <1>1, <1>2, <1>4
<1>8. rank \in Injection(K, 1..N)
  <2>1. rank \in [K -> 1..N]
    BY <1>7
  <2>2. \A p, q \in K : rank[p] = rank[q] => p = q
    BY <1>5
  <2> HIDE DEF rank
  <2> QED
    BY <2>1, <2>2 DEF Injection, IsInjective
<1>9. rank \in Surjection(K, 1..N)
  <2>1. IsFiniteSet(1..N) /\ Cardinality(1..N) = N
    BY <1>1, UpToCardinality
  <2> HIDE DEF rank
  <2> QED
    BY <1>8, <2>1, FS_Injection DEF N
<1>10. \A n \in 1..N : \E p \in K : Cardinality(up[p]) = n
  <2>1. \A n \in 1..N : \E p \in K : rank[p] = n
    <3> HIDE DEF rank
    <3> QED
      BY <1>9 DEF Surjection
  <2> QED
    BY <2>1
<1> QED
  BY <1>1, <1>5, <1>6, <1>7, <1>10 DEF N

\* filter: the kept elements in their order, each once.
KeepsInOrder(s, keep, kept) ==
  \E at \in [1..Cardinality(keep) -> keep] :
    /\ kept = [n \in 1..Cardinality(keep) |-> s[at[n]]]
    /\ \A p \in keep : \E n \in 1..Cardinality(keep) : at[n] = p
    /\ \A m, n \in 1..Cardinality(keep) : m < n => at[m] < at[n]

\* So are the elements kept.
LEMMA KeptElements ==
  ASSUME NEW S, NEW s \in Seq(S), NEW keep, keep \subseteq DOMAIN s
  PROVE  /\ Kept(s, keep) \in Seq(S)
         /\ Cardinality(keep) \in Nat
         /\ KeepsInOrder(s, keep, Kept(s, keep))
<1> DEFINE N == Cardinality(keep)
           up == [p \in keep |-> {q \in keep : q <= p}]
           at == [n \in 1..N |-> CHOOSE p \in keep : Cardinality(up[p]) = n]
<1>1. /\ Len(s) \in Nat /\ DOMAIN s = 1..Len(s) /\ \A i \in 1..Len(s) : s[i] \in S
      /\ keep \subseteq Nat
  <2>1. Len(s) \in Nat /\ DOMAIN s = 1..Len(s)
    BY LenProperties
  <2> QED
    BY <2>1, ElementOfSeq
<1>2. IsFiniteSet(keep)
  <2>1. IsFiniteSet(1..Len(s))
    BY <1>1, UpToCardinality
  <2> QED
    BY <1>1, <2>1, FS_Subset
<1>3. /\ up \in [keep -> SUBSET keep]
      /\ \A p \in keep : p \in up[p]
      /\ \A p, q \in keep : p \in up[q] \/ q \in up[p]
      /\ \A p, q \in keep : q \in up[p] => up[q] \subseteq up[p]
      /\ \A p, q \in keep : q \in up[p] /\ p \in up[q] => p = q
  BY <1>1
<1> HIDE DEF up
<1>4. /\ N \in Nat
      /\ \A n \in 1..N : \E p \in keep : Cardinality(up[p]) = n
      /\ \A p \in keep : Cardinality(up[p]) \in 1..N
      /\ \A p, q \in keep : Cardinality(up[p]) = Cardinality(up[q]) => p = q
      /\ \A p, q \in keep : Cardinality(up[p]) < Cardinality(up[q]) => p \in up[q]
  BY <1>2, <1>3, Ranks
<1>5. \A n \in 1..N : at[n] \in keep /\ Cardinality(up[at[n]]) = n
  BY <1>4
<1>6. at \in [1..N -> keep]
  BY <1>5
<1>7. Kept(s, keep) = [n \in 1..N |-> s[at[n]]]
  <2>1. \A p \in keep : up[p] = {q \in keep : q <= p}
    BY DEF up
  <2> DEFINE c(n) == CHOOSE p \in keep : Cardinality({q \in keep : q <= p}) = n
  <2>2. \A n \in 1..N : at[n] = c(n)
    BY <2>1
  <2>3. Kept(s, keep) = [n \in 1..N |-> s[c(n)]]
    BY DEF Kept
  <2> HIDE DEF at, N, c
  <2>4. [n \in 1..N |-> s[c(n)]] = [n \in 1..N |-> s[at[n]]]
    BY ONLY <2>2
  <2> QED
    BY ONLY <2>3, <2>4
<1> HIDE DEF at, N
<1>8. ASSUME NEW p \in keep PROVE \E n \in 1..N : at[n] = p
  BY <1>4, <1>5
<1>9. ASSUME NEW m \in 1..N, NEW n \in 1..N, m < n PROVE at[m] < at[n]
  <2>0. /\ at[m] \in keep /\ at[n] \in keep /\ m \in Nat /\ n \in Nat
        /\ Cardinality(up[at[m]]) = m /\ Cardinality(up[at[n]]) = n
    BY <1>4, <1>5
  <2>1. at[m] \in up[at[n]] /\ at[m] # at[n]
    BY <1>4, <1>9, <2>0
  <2>2. at[m] <= at[n]
    BY <1>5, <2>1 DEF up
  <2>3. at[m] \in Nat /\ at[n] \in Nat
    BY <1>1, <1>5
  <2> QED
    BY <2>1, <2>2, <2>3
<1>10. Kept(s, keep) \in Seq(S)
  <2>1. Kept(s, keep) \in [1..N -> S]
    BY <1>1, <1>5, <1>7
  <2> QED
    BY <1>4, <2>1, SeqDef
<1>11. KeepsInOrder(s, keep, Kept(s, keep))
  BY <1>6, <1>7, <1>8, <1>9 DEF KeepsInOrder, N
<1> QED
  BY <1>4, <1>10, <1>11 DEF N

\* sort_by_key: the same elements, each once, in time order.
SortsByTime(s, sorted) ==
  \E at \in [DOMAIN s -> DOMAIN s] :
    /\ sorted = [n \in DOMAIN s |-> s[at[n]]]
    /\ \A p \in DOMAIN s : \E n \in DOMAIN s : at[n] = p
    /\ \A m, n \in DOMAIN s : m # n => at[m] # at[n]
    /\ \A m, n \in DOMAIN s : m < n => s[at[m]].time <= s[at[n]].time

\* So are the elements sorted.
LEMMA StableSortElements ==
  ASSUME NEW S, NEW s \in Seq(S), \A i \in DOMAIN s : s[i].time \in Nat
  PROVE  /\ StableSort(s) \in Seq(S) /\ Len(StableSort(s)) = Len(s)
         /\ SortsByTime(s, StableSort(s))
<1> DEFINE upTo(p) == {q \in DOMAIN s : \/ s[q].time < s[p].time
                                        \/ s[q].time = s[p].time /\ q <= p}
           up == [p \in DOMAIN s |-> upTo(p)]
           at == [n \in DOMAIN s |-> CHOOSE p \in DOMAIN s : Cardinality(up[p]) = n]
<1>1. Len(s) \in Nat /\ DOMAIN s = 1..Len(s) /\ \A i \in 1..Len(s) : s[i] \in S
  <2>1. Len(s) \in Nat /\ DOMAIN s = 1..Len(s)
    BY LenProperties
  <2> QED
    BY <2>1, ElementOfSeq
<1>2. IsFiniteSet(DOMAIN s) /\ Cardinality(DOMAIN s) = Len(s)
  BY <1>1, UpToCardinality
<1>3. /\ up \in [DOMAIN s -> SUBSET DOMAIN s]
      /\ \A p \in DOMAIN s : p \in up[p]
      /\ \A p, q \in DOMAIN s : p \in up[q] \/ q \in up[p]
      /\ \A p, q \in DOMAIN s : q \in up[p] /\ p \in up[q] => p = q
  BY <1>1
<1>4. ASSUME NEW p \in DOMAIN s, NEW q \in DOMAIN s, q \in up[p], NEW r \in up[q]
      PROVE  r \in up[p]
  <2>1. p \in Nat /\ q \in Nat /\ r \in Nat /\ r \in DOMAIN s
    BY <1>1, <1>4
  <2>2. s[p].time \in Nat /\ s[q].time \in Nat /\ s[r].time \in Nat
    BY <2>1
  <2> QED
    BY <1>4, <2>1, <2>2
<1>5. \A p, q \in DOMAIN s : q \in up[p] => up[q] \subseteq up[p]
  BY <1>4
<1> HIDE DEF up
<1>6. /\ \A n \in DOMAIN s : \E p \in DOMAIN s : Cardinality(up[p]) = n
      /\ \A p \in DOMAIN s : Cardinality(up[p]) \in DOMAIN s
      /\ \A p, q \in DOMAIN s : Cardinality(up[p]) = Cardinality(up[q]) => p = q
      /\ \A p, q \in DOMAIN s : Cardinality(up[p]) < Cardinality(up[q]) => p \in up[q]
  BY <1>1, <1>2, <1>3, <1>5, Ranks
<1>7. \A n \in DOMAIN s : at[n] \in DOMAIN s /\ Cardinality(up[at[n]]) = n
  BY <1>6
<1>8. at \in [DOMAIN s -> DOMAIN s]
  BY <1>7
<1>9. StableSort(s) = [n \in DOMAIN s |-> s[at[n]]]
  <2>1. \A p \in DOMAIN s : up[p] = upTo(p)
    BY DEF up
  <2>2. \A n \in DOMAIN s : at[n] = CHOOSE p \in DOMAIN s : Cardinality(upTo(p)) = n
    <3> HIDE DEF upTo
    <3> QED
      BY <2>1
  <2>3. StableSort(s) = [n \in DOMAIN s |->
                           s[CHOOSE p \in DOMAIN s : Cardinality(upTo(p)) = n]]
    BY DEF StableSort
  <2> HIDE DEF at, upTo
  <2> QED
    BY <2>2, <2>3
<1> HIDE DEF at
<1>10. ASSUME NEW p \in DOMAIN s PROVE \E n \in DOMAIN s : at[n] = p
  <2>1. PICK n \in DOMAIN s : n = Cardinality(up[p])
    BY <1>6
  <2>2. at[n] \in DOMAIN s /\ Cardinality(up[at[n]]) = Cardinality(up[p])
    BY <1>7, <2>1
  <2>3. at[n] = p
    BY <1>6, <2>2
  <2> QED
    BY <2>3
<1>11. ASSUME NEW m \in DOMAIN s, NEW n \in DOMAIN s, m < n
       PROVE  s[at[m]].time <= s[at[n]].time
  <2>1. at[m] \in up[at[n]]
    BY <1>6, <1>7, <1>11
  <2>2. s[at[m]].time < s[at[n]].time \/ s[at[m]].time = s[at[n]].time
    BY <1>7, <2>1 DEF up
  <2>3. s[at[m]].time \in Nat /\ s[at[n]].time \in Nat
    BY <1>7
  <2> QED
    BY <2>2, <2>3
<1>12. \A m, n \in DOMAIN s : m # n => at[m] # at[n]
  BY <1>7
<1>13. StableSort(s) \in Seq(S) /\ Len(StableSort(s)) = Len(s)
  <2>1. StableSort(s) \in [1..Len(s) -> S]
    BY <1>1, <1>7, <1>9
  <2>2. StableSort(s) \in Seq(S)
    BY <1>1, <2>1, SeqDef
  <2> QED
    BY <1>1, <2>1, <2>2, LenProperties
<1>14. SortsByTime(s, StableSort(s))
  BY <1>8, <1>9, <1>10, <1>11, <1>12 DEF SortsByTime
<1> QED
  BY <1>13, <1>14

-----------------------------------------------------------------------------
\* A sequence is one of its own elements.
LEMMA OwnElements ==
  ASSUME NEW S, NEW s \in Seq(S)
  PROVE  s \in Seq(ToSet(s)) /\ \A i \in DOMAIN s : s[i] \in ToSet(s)
<1>1. Len(s) \in Nat /\ DOMAIN s = 1..Len(s) /\ s \in [1..Len(s) -> S]
  BY LenProperties
<1>2. \A i \in DOMAIN s : s[i] \in ToSet(s)
  BY DEF ToSet
<1>3. s \in [1..Len(s) -> ToSet(s)]
  BY <1>1, <1>2
<1> QED
  BY <1>1, <1>2, <1>3, SeqDef

\* Two sequences one after the other have the elements of both.
LEMMA ConcatElements ==
  ASSUME NEW S, NEW T, NEW s \in Seq(S), NEW t \in Seq(T)
  PROVE  /\ s \o t \in Seq(S \cup T) /\ Len(s \o t) = Len(s) + Len(t)
         /\ Len(s) \in Nat /\ Len(t) \in Nat
         /\ \A i \in 1..Len(s) + Len(t) :
              (s \o t)[i] = IF i <= Len(s) THEN s[i] ELSE t[i - Len(s)]
         /\ \A x : x \in ToSet(s \o t) <=> x \in ToSet(s) \/ x \in ToSet(t)
<1>1. /\ Len(s) \in Nat /\ DOMAIN s = 1..Len(s) /\ s \in [1..Len(s) -> S]
      /\ Len(t) \in Nat /\ DOMAIN t = 1..Len(t) /\ t \in [1..Len(t) -> T]
  BY LenProperties
<1>2. s \in [1..Len(s) -> S \cup T] /\ t \in [1..Len(t) -> S \cup T]
  BY <1>1
<1>3. s \in Seq(S \cup T) /\ t \in Seq(S \cup T)
  BY <1>1, <1>2, SeqDef
<1>4. /\ s \o t \in Seq(S \cup T) /\ Len(s \o t) = Len(s) + Len(t)
      /\ \A i \in 1..Len(s) + Len(t) :
           (s \o t)[i] = IF i <= Len(s) THEN s[i] ELSE t[i - Len(s)]
  BY <1>3, ConcatProperties
<1>5. DOMAIN (s \o t) = 1..Len(s) + Len(t)
  BY <1>4, LenProperties
<1> DEFINE u == s \o t
<1>6. DOMAIN u = 1..Len(s) + Len(t) /\ \A i \in 1..Len(s) + Len(t) :
                                       u[i] = IF i <= Len(s) THEN s[i] ELSE t[i - Len(s)]
  BY <1>4, <1>5
<1> HIDE DEF u
<1>7. ASSUME NEW x \in ToSet(u) PROVE x \in ToSet(s) \cup ToSet(t)
  <2>1. PICK i \in DOMAIN u : u[i] = x
    BY <1>7 DEF ToSet
  <2>2. CASE i <= Len(s)
    BY <1>1, <1>6, <2>1, <2>2 DEF ToSet
  <2>3. CASE ~(i <= Len(s))
    <3>1. i - Len(s) \in DOMAIN t
      BY <1>1, <1>6, <2>1, <2>3
    <3>2. x = t[i - Len(s)]
      BY <1>6, <2>1, <2>3
    <3> QED
      BY <3>1, <3>2 DEF ToSet
  <2> QED
    BY <2>2, <2>3
<1>8. ASSUME NEW x \in ToSet(s) PROVE x \in ToSet(u)
  <2>1. PICK i \in DOMAIN s : s[i] = x
    BY <1>8 DEF ToSet
  <2>2. i \in DOMAIN u /\ u[i] = x
    BY <1>1, <1>6, <2>1
  <2> QED
    BY <2>2 DEF ToSet
<1>9. ASSUME NEW x \in ToSet(t) PROVE x \in ToSet(u)
  <2>1. PICK i \in DOMAIN t : t[i] = x
    BY <1>9 DEF ToSet
  <2>2. i + Len(s) \in DOMAIN u /\ ~(i + Len(s) <= Len(s)) /\ (i + Len(s)) - Len(s) = i
    BY <1>1, <1>6, <2>1
  <2>3. u[i + Len(s)] = x
    BY <1>6, <2>1, <2>2
  <2> QED
    BY <2>2, <2>3 DEF ToSet
<1>10. \A x : x \in ToSet(u) <=> x \in ToSet(s) \/ x \in ToSet(t)
  BY <1>7, <1>8, <1>9
<1> QED
  BY <1>1, <1>4, <1>10 DEF u

\* A sequence whose elements' ids all differ is as long as there are ids.
LEMMA DistinctIds ==
  ASSUME NEW S, NEW s \in Seq(S),
         \A i, j \in DOMAIN s : i # j => s[i].id # s[j].id
  PROVE  Len(s) = Cardinality({m.id : m \in ToSet(s)})
<1>1. Len(s) \in Nat /\ DOMAIN s = 1..Len(s)
  BY LenProperties
<1>2. IsFiniteSet(DOMAIN s) /\ Cardinality(DOMAIN s) = Len(s)
  BY <1>1, UpToCardinality
<1> DEFINE I == {m.id : m \in ToSet(s)}
           f == [i \in DOMAIN s |-> s[i].id]
<1>3. f \in [DOMAIN s -> I]
  BY DEF ToSet
<1>4. \A y \in I : \E i \in DOMAIN s : f[i] = y
  BY DEF ToSet
<1>5. \A i, j \in DOMAIN s : f[i] = f[j] => i = j
  OBVIOUS
<1> HIDE DEF I, f
<1>6. f \in Surjection(DOMAIN s, I) /\ f \in Injection(DOMAIN s, I)
  BY <1>3, <1>4, <1>5 DEF Surjection, Injection, IsInjective
<1>7. Cardinality(I) = Cardinality(DOMAIN s)
  BY <1>2, <1>6, FS_Surjection
<1> QED
  BY <1>2, <1>7 DEF I
=============================================================================
