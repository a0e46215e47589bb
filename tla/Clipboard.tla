----------------------------- MODULE Clipboard ------------------------------
(***************************************************************************)
(* copy_html and with_clipboard of crates/teams-core/src/clipboard.rs on   *)
(* Linux, called by the copy_to_clipboard tool from several threads.  The  *)
(* process keeps one clipboard instance in a OnceLock<Mutex<Clipboard>>,   *)
(* because a selection is served by the instance that set it and is gone   *)
(* when that instance is dropped.                                          *)
(*                                                                         *)
(* A thread makes at most one instance at a time, which is named by the    *)
(* thread; so is the text it copies.  Names are this module's own, so that *)
(* it can stand beside CookieFetch in one module.                          *)
(***************************************************************************)
EXTENDS Naturals

CONSTANTS
  Callers,  \* threads of the blocking pool that copy
  Nobody,   \* no instance, no thread, no text
  Other     \* another program with a clipboard

ASSUME ClipboardAssumption ==
  Nobody \notin Callers /\ Other \notin Callers /\ Other # Nobody

VARIABLES
  cell,       \* the instance in the OnceLock
  live,       \* instances that exist
  holder,     \* who holds the mutex
  poisoned,   \* the mutex is poisoned
  stage,      \* where each thread is in its call
  returned,   \* what each thread's last call returned
  selection,  \* [by, text]: who serves the system's clipboard, and what
  last        \* the text put on the clipboard last, by whomever (history)

clipboardVars == <<cell, live, holder, poisoned, stage, returned, selection, last>>

Empty == [by |-> Nobody, text |-> Nobody]

ClipboardInit ==
  /\ cell = Nobody /\ live = {} /\ holder = Nobody /\ poisoned = FALSE
  /\ stage = [t \in Callers |-> "idle"] /\ returned = [t \in Callers |-> "none"]
  /\ selection = Empty /\ last = Nobody

-----------------------------------------------------------------------------
Enter(t, label) == stage' = [stage EXCEPT ![t] = label]

Return(t, value) == Enter(t, "idle") /\ returned' = [returned EXCEPT ![t] = value]

\* Dropping an instance: what it serves is gone.
Dropped(i) == IF selection.by = i THEN Empty ELSE selection

\* The tool call; CLIPBOARD.get().is_none() decides what is done first.
Call(t) ==
  /\ stage[t] = "idle"
  /\ Enter(t, IF cell = Nobody THEN "create" ELSE "lock")
  /\ UNCHANGED <<cell, live, holder, poisoned, returned, selection, last>>

Create(t) ==
  /\ stage[t] = "create"
  /\ live' = live \cup {t} /\ Enter(t, "set")
  /\ UNCHANGED <<cell, holder, poisoned, returned, selection, last>>

\* Clipboard::new fails, for want of a display: the cell stays empty.
CreateFails(t) ==
  /\ stage[t] = "create" /\ Return(t, "open_error")
  /\ UNCHANGED <<cell, live, holder, poisoned, selection, last>>

\* A wrong Set: the later instance replaces the one in the cell.
SetReplaces(t) ==
  /\ stage[t] = "set"
  /\ cell' = t /\ live' = live \ {cell} /\ selection' = Dropped(cell)
  /\ Enter(t, "lock")
  /\ UNCHANGED <<holder, poisoned, returned, last>>

\* OnceLock::set: only the first instance gets in, any other is dropped.
Set(t) ==
  /\ stage[t] = "set"
  /\ IF cell = Nobody THEN cell' = t /\ UNCHANGED <<live, selection>>
     ELSE live' = live \ {t} /\ selection' = Dropped(t) /\ UNCHANGED cell
  /\ Enter(t, "lock")
  /\ UNCHANGED <<holder, poisoned, returned, last>>

\* The thread is given the mutex; of a poisoned one only the error is used.
Lock(t) ==
  /\ stage[t] = "lock" /\ holder = Nobody
  /\ IF poisoned THEN Return(t, "open_error") /\ UNCHANGED holder
     ELSE holder' = t /\ Enter(t, "write") /\ UNCHANGED returned
  /\ UNCHANGED <<cell, live, poisoned, selection, last>>

\* set().html() through the instance in the cell.
Write(t) ==
  /\ stage[t] = "write"
  /\ selection' = [by |-> cell, text |-> t] /\ last' = t
  /\ holder' = Nobody /\ Return(t, "ok")
  /\ UNCHANGED <<cell, live, poisoned>>

WriteFails(t) ==
  /\ stage[t] = "write" /\ holder' = Nobody /\ Return(t, "write_error")
  /\ UNCHANGED <<cell, live, poisoned, selection, last>>

\* A wrong WritePanics: the mutex stays locked.
WritePanicsLocked(t) ==
  /\ stage[t] = "write" /\ poisoned' = TRUE /\ Return(t, "join_error")
  /\ UNCHANGED <<cell, live, holder, selection, last>>

\* A wrong WritePanics: the error is not mapped.
WritePanicsUnmapped(t) ==
  /\ stage[t] = "write" /\ poisoned' = TRUE /\ holder' = Nobody /\ Return(t, "panic")
  /\ UNCHANGED <<cell, live, selection, last>>

\* The library panics: the guard is dropped, the task ends with a JoinError.
WritePanics(t) ==
  /\ stage[t] = "write" /\ poisoned' = TRUE /\ holder' = Nobody
  /\ Return(t, "join_error")
  /\ UNCHANGED <<cell, live, selection, last>>

OtherCopies ==
  /\ selection' = [by |-> Other, text |-> Other] /\ last' = Other
  /\ UNCHANGED <<cell, live, holder, poisoned, stage, returned>>

Step(t) == Create(t) \/ CreateFails(t) \/ Set(t) \/ Write(t) \/ WriteFails(t)
             \/ WritePanics(t)

ClipboardNext == OtherCopies \/ \E t \in Callers : Call(t) \/ Lock(t) \/ Step(t)

ClipboardSpec == ClipboardInit /\ [][ClipboardNext]_clipboardVars

\* Callers run; who waits gets the mutex if it stays free.
FairClipboardSpec ==
  ClipboardSpec /\ \A t \in Callers : WF_clipboardVars(Step(t)) /\ WF_clipboardVars(Lock(t))

-----------------------------------------------------------------------------
(* Properties *)

ClipboardTypeOK ==
  /\ cell \in Callers \cup {Nobody} /\ live \in SUBSET Callers
  /\ holder \in Callers \cup {Nobody} /\ poisoned \in BOOLEAN
  /\ stage \in [Callers -> {"idle", "create", "set", "lock", "write"}]
  /\ returned \in [Callers -> {"none", "ok", "open_error", "write_error", "join_error"}]
  /\ selection \in [by : Callers \cup {Nobody, Other}, text : Callers \cup {Nobody, Other}]
  /\ last \in Callers \cup {Nobody, Other}

\* A text that was copied can be pasted until something else is copied: no call
\* of the process, first, concurrent or failed, takes away what the clipboard
\* holds ("one is made and kept alive", clipboard.rs).
CopyStays == selection.text = last /\ (selection.by \in Callers => selection.by \in live)

\* Once calls cease to come, every call returns, after panics and failures too.
\* (The mutex is not fair: a stream of other calls may overtake one for ever.)
EveryCopyReturns ==
  \A t \in Callers :
    <>[][~\E u \in Callers : Call(u)]_clipboardVars =>
      [](stage[t] # "idle" => <>(stage[t] = "idle"))
=============================================================================
