----------------------------- MODULE MCQueries ------------------------------
(***************************************************************************)
(* Queries with two conversations.  "c1" and "c2" are ids, "c2" is also a  *)
(* part of c1's topic, "solo" only of c2's, "plan" of both topics.         *)
(***************************************************************************)
EXTENDS Queries

MCConvs == {"c1", "c2"}
MCChats == {"c1", "c2", "solo", "plan"}
MCMatches == [a \in MCChats |-> CASE a = "c1" -> {}
                                  [] a = "c2" -> {"c1"}
                                  [] a = "solo" -> {"c2"}
                                  [] a = "plan" -> {"c1", "c2"}]
=============================================================================
