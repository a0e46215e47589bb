---------------------------- MODULE SnapshotView ----------------------------
(***************************************************************************)
(* What the in-memory cache of a TeamsStore promises to the callers of     *)
(* list_chats, read_messages and search: there is one current view of the  *)
(* Teams database, it only moves forward, it is never ahead of the disk,   *)
(* and every answer is computed from the whole of it.  No lock, no time to *)
(* live, no build: those are how teams.rs keeps the promise (TeamsStore).  *)
(***************************************************************************)
EXTENDS Naturals

CONSTANTS Threads,    \* threads that answer calls
          MaxWrites   \* bound on the number of writes by Teams

VARIABLES disk,       \* number of writes Teams has made to its database
          view,       \* the disk version the cache shows, 0 when empty
          answered    \* per thread, the version its last answer showed

vars == <<disk, view, answered>>

Init == /\ disk = 0
        /\ view = 0
        /\ answered = [t \in Threads |-> 0]

\* Teams writes to its own database.
Write == /\ disk < MaxWrites
         /\ disk' = disk + 1
         /\ UNCHANGED <<view, answered>>

\* A rebuilt cache replaces the old one.
Publish == /\ view' \in view..disk
           /\ UNCHANGED <<disk, answered>>

\* A call is answered from the current view.
Answer(t) == /\ answered' = [answered EXCEPT ![t] = view]
             /\ UNCHANGED <<disk, view>>

Next == Write \/ Publish \/ \E t \in Threads : Answer(t)

Spec == Init /\ [][Next]_vars
=============================================================================
