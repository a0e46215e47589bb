---------------------------- MODULE MCTeamsStore ----------------------------
(***************************************************************************)
(* TeamsStore on small instances.  The .cfg files give the constants; all  *)
(* of them use a TTL of one tick and builds of at most one tick, so that a *)
(* cache can be fresh, exactly TTL old and stale within the Horizon.       *)
(***************************************************************************)
EXTENDS TeamsStore
=============================================================================
