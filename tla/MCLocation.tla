----------------------------- MODULE MCLocation -----------------------------
(***************************************************************************)
(* Location with two applications: one with a partition whose database was *)
(* moved from one origin to the other, one with a browser profile.  The    *)
(* directory Partitions is itself a candidate.                             *)
(***************************************************************************)
EXTENDS Location

MCAppDirs == <<"tfl", "edge">>
MCPartitions == [a \in {"tfl", "edge"} |-> IF a = "tfl" THEN <<"tfl/p">> ELSE <<>>]
MCSubDirs == [a \in {"tfl", "edge"} |-> IF a = "tfl" THEN <<"tfl/Partitions">>
                                       ELSE <<"edge/Default">>]
MCDatabases == {<<"tfl/p", Origins[1]>>, <<"tfl/p", Origins[2]>>, <<"edge/Default", Origins[2]>>}
\* The cookies of one profile, and a file the other does not have.
MCNamedCookies == {<<"tfl/p", "Cookies">>, <<"edge/Default", "Cookies">>}
MCLayout == [r \in Roots |-> CASE r = "tfl/p" -> "legacy" [] r = "edge/Default" -> "network"
                                [] OTHER -> "none"]
=============================================================================
