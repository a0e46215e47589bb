------------------------------- MODULE Slices --------------------------------
(***************************************************************************)
(* What the Rust library's filter and sort_by_key do to a sequence, as     *)
(* functions of positions.                                                 *)
(***************************************************************************)
EXTENDS Naturals, FiniteSets

\* Iterator::filter, given the positions it keeps: their elements, in order.
Kept(s, keep) ==
  [n \in 1..Cardinality(keep) |->
     s[CHOOSE p \in keep : Cardinality({q \in keep : q <= p}) = n]]

\* A stable sort by time: elements with equal times keep their order.
StableSort(s) ==
  LET upTo(p) == {q \in DOMAIN s : \/ s[q].time < s[p].time
                                   \/ s[q].time = s[p].time /\ q <= p}
  IN [n \in DOMAIN s |-> s[CHOOSE p \in DOMAIN s : Cardinality(upTo(p)) = n]]
=============================================================================
