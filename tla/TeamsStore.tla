----------------------------- MODULE TeamsStore -----------------------------
(***************************************************************************)
(* The cache of crates/teams-core/src/teams.rs (struct TeamsStore) and the *)
(* threads that use it.  The server calls list_chats, read_messages and    *)
(* search from tokio's blocking pool, so several threads run with_cache at *)
(* once: it locks the mutex, rebuilds the cache if it is older than the    *)
(* time to live, and computes the answer while still holding the lock.     *)
(* refresh builds a cache outside the lock and then stores it.             *)
(*                                                                         *)
(* Teams writes its database concurrently; `disk' counts its writes and a  *)
(* cache is abstracted to the count at the moment its build read the disk. *)
(* (Which records such a read returns is the subject of LevelDbScan.)      *)
(***************************************************************************)
EXTENDS Naturals

CONSTANTS
  Threads,        \* threads that call the store
  Refreshers,     \* those of them that also call refresh(); the server: none
  TTL,            \* ticks after which a cache is stale (code: 15 s)
  BuildBound,     \* bound: ticks one build_cache may take
  Horizon,        \* bound: last tick of the clock
  MaxWrites,      \* bound: number of writes by Teams
  OverflowChecks, \* built with overflow checks (dev, test): arithmetic panics
  Nobody,         \* "the mutex is free"
  NoCache         \* the cache slot is None

CacheVal == [snap : 0..MaxWrites, builtAt : 0..Horizon]

ASSUME ConstantsAssumption ==
  /\ Refreshers \subseteq Threads
  /\ TTL \in Nat /\ BuildBound \in Nat /\ Horizon \in Nat /\ MaxWrites \in Nat
  /\ OverflowChecks \in BOOLEAN
  /\ Nobody \notin Threads
  /\ NoCache \notin CacheVal

VARIABLES
  now,        \* the clock behind Instant::now()
  disk,       \* number of writes Teams has made
  born,       \* born[v]: when write v reached the disk (history)
  cache,      \* the Option<Cache> in the mutex
  lock,       \* holder of the mutex, or Nobody
  poisoned,   \* a holder panicked
  pc,         \* where each thread is
  draft,      \* the cache each thread is building
  began,      \* when its staleness check, or its refresh, started
  answered,   \* the version its last answer showed (history)
  promised    \* newest version a finished refresh had read (history)

vars == <<now, disk, born, cache, lock, poisoned, pc, draft, began, answered,
          promised>>

\* "lock": blocked on self.cache.lock(); "build": in build_cache before the
\* disk is read; "parse": after; "serve": running the closure.  The r-labels
\* are refresh's: "rstore" waits for the mutex with a finished cache.
Labels == {"idle", "lock", "build", "parse", "serve",
           "rbuild", "rparse", "rstore"}
Critical == {"build", "parse", "serve"}
Building == {"build", "parse", "rbuild", "rparse"}

Init ==
  /\ now = 0 /\ disk = 0
  /\ born = [v \in 1..MaxWrites |-> 0]
  /\ cache = NoCache
  /\ lock = Nobody /\ poisoned = FALSE
  /\ pc = [t \in Threads |-> "idle"]
  /\ draft = [t \in Threads |-> NoCache]
  /\ began = [t \in Threads |-> 0]
  /\ answered = [t \in Threads |-> 0]
  /\ promised = 0

-----------------------------------------------------------------------------
Goto(t, label) == pc' = [pc EXCEPT ![t] = label]

\* A wrong Stale for the mutation runs: >= instead of >.
EagerlyStale == IF cache = NoCache THEN TRUE ELSE now - cache.builtAt >= TTL

\* c.built_at.elapsed() > self.ttl, or no cache at all
Stale == IF cache = NoCache THEN TRUE ELSE now - cache.builtAt > TTL

Environment == <<now, disk, born>>

\* A tool call reaches with_cache.
Call(t) ==
  /\ pc[t] = "idle"
  /\ Goto(t, "lock")
  /\ UNCHANGED <<Environment, cache, lock, poisoned, draft, began, answered,
                 promised>>

\* A wrong Lock: the guard is dropped before a stale cache is rebuilt.
LockToLookOnly(t) ==
  /\ pc[t] = "lock" /\ lock = Nobody /\ ~poisoned
  /\ lock' = IF Stale THEN Nobody ELSE t
  /\ began' = [began EXCEPT ![t] = now]
  /\ Goto(t, IF Stale THEN "build" ELSE "serve")
  /\ UNCHANGED <<Environment, cache, poisoned, draft, answered, promised>>

\* lock().unwrap() succeeds and the staleness check is made.
Lock(t) ==
  /\ pc[t] = "lock" /\ lock = Nobody /\ ~poisoned
  /\ lock' = t
  /\ began' = [began EXCEPT ![t] = now]
  /\ Goto(t, IF Stale THEN "build" ELSE "serve")
  /\ UNCHANGED <<Environment, cache, poisoned, draft, answered, promised>>

\* lock().unwrap() panics on a poisoned mutex; the guard is dropped at once.
LockPoisoned(t) ==
  /\ pc[t] \in {"lock", "rstore"} /\ lock = Nobody /\ poisoned
  /\ draft' = [draft EXCEPT ![t] = NoCache]
  /\ Goto(t, "idle")
  /\ UNCHANGED <<Environment, cache, lock, poisoned, began, answered, promised>>

\* leveldb::read_dir returns what the disk holds.
Scan(t) ==
  /\ pc[t] \in {"build", "rbuild"}
  /\ draft' = [draft EXCEPT ![t] = [snap |-> disk, builtAt |-> now]]
  /\ Goto(t, IF pc[t] = "build" THEN "parse" ELSE "rparse")
  /\ UNCHANGED <<Environment, cache, lock, poisoned, began, answered, promised>>

\* A wrong Finish: built_at holds the expiry instead of the build time.
FinishWithExpiry(t) ==
  /\ pc[t] = "parse"
  /\ cache' = [snap |-> draft[t].snap, builtAt |-> now + TTL]
  /\ draft' = [draft EXCEPT ![t] = NoCache]
  /\ Goto(t, "serve")
  /\ UNCHANGED <<Environment, lock, poisoned, began, answered, promised>>

\* build_cache returns and with_cache stores its result under the lock.
Finish(t) ==
  /\ pc[t] = "parse"
  /\ cache' = [snap |-> draft[t].snap, builtAt |-> now]
  /\ draft' = [draft EXCEPT ![t] = NoCache]
  /\ Goto(t, "serve")
  /\ UNCHANGED <<Environment, lock, poisoned, began, answered, promised>>

\* Four wrong ways to handle a failed build: answer from the old cache, drop the
\* old cache first, try again for ever, keep the guard.
FailServesOld(t) ==
  /\ pc[t] \in {"build", "rbuild"}
  /\ LET usable == pc[t] = "build" /\ cache # NoCache IN
       /\ lock' = IF pc[t] = "build" /\ ~usable THEN Nobody ELSE lock
       /\ Goto(t, IF usable THEN "serve" ELSE "idle")
  /\ UNCHANGED <<Environment, cache, poisoned, draft, began, answered, promised>>

FailDropsOld(t) ==
  /\ pc[t] \in {"build", "rbuild"}
  /\ lock' = IF pc[t] = "build" THEN Nobody ELSE lock
  /\ cache' = NoCache
  /\ Goto(t, "idle")
  /\ UNCHANGED <<Environment, poisoned, draft, began, answered, promised>>

FailRetries(t) ==
  /\ pc[t] \in {"build", "rbuild"}
  /\ lock' = IF pc[t] = "build" THEN Nobody ELSE lock
  /\ Goto(t, IF pc[t] = "build" THEN "lock" ELSE "idle")
  /\ UNCHANGED <<Environment, cache, poisoned, draft, began, answered, promised>>

FailKeepsGuard(t) ==
  /\ pc[t] \in {"build", "rbuild"}
  /\ Goto(t, "idle")
  /\ UNCHANGED <<Environment, cache, lock, poisoned, draft, began, answered,
                 promised>>

\* read_dir fails: the ? operator returns the error, the guard is dropped and
\* the old cache, stale as it is, stays in the slot.
BuildFails(t) ==
  /\ pc[t] \in {"build", "rbuild"}
  /\ lock' = IF pc[t] = "build" THEN Nobody ELSE lock
  /\ Goto(t, "idle")
  /\ UNCHANGED <<Environment, cache, poisoned, draft, began, answered, promised>>

\* f(guard): the answer is computed and the guard dropped.
Serve(t) ==
  /\ pc[t] = "serve"
  /\ answered' = [answered EXCEPT ![t] = cache.snap]
  /\ lock' = Nobody
  /\ Goto(t, "idle")
  /\ UNCHANGED <<Environment, cache, poisoned, draft, began, promised>>

\* refresh: build_cache without the lock.
Refresh(t) ==
  /\ t \in Refreshers /\ pc[t] = "idle"
  /\ began' = [began EXCEPT ![t] = now]
  /\ Goto(t, "rbuild")
  /\ UNCHANGED <<Environment, cache, lock, poisoned, draft, answered, promised>>

RefreshBuilt(t) ==
  /\ pc[t] = "rparse"
  /\ draft' = [draft EXCEPT ![t] = [snap |-> @.snap, builtAt |-> now]]
  /\ Goto(t, "rstore")
  /\ UNCHANGED <<Environment, cache, lock, poisoned, began, answered, promised>>

\* A wrong RefreshStore: a filled slot is left as it is (get_or_insert instead of an
\* assignment).
RefreshOnlyFills(t) ==
  /\ pc[t] = "rstore" /\ lock = Nobody /\ ~poisoned
  /\ cache' = IF cache = NoCache THEN draft[t] ELSE cache
  /\ promised' = IF draft[t].snap > promised THEN draft[t].snap ELSE promised
  /\ draft' = [draft EXCEPT ![t] = NoCache]
  /\ Goto(t, "idle")
  /\ UNCHANGED <<Environment, lock, poisoned, began, answered>>

\* *self.cache.lock().unwrap() = Some(fresh)
RefreshStore(t) ==
  /\ pc[t] = "rstore" /\ lock = Nobody /\ ~poisoned
  /\ cache' = draft[t]
  /\ promised' = IF draft[t].snap > promised THEN draft[t].snap ELSE promised
  /\ draft' = [draft EXCEPT ![t] = NoCache]
  /\ Goto(t, "idle")
  /\ UNCHANGED <<Environment, lock, poisoned, began, answered>>

\* Checked arithmetic in the parsers or in resolve_conversation panics; a
\* guard dropped by unwinding poisons the mutex, refresh's build holds none.
Panic(t) ==
  /\ OverflowChecks
  /\ pc[t] \in Building \cup {"serve"}
  /\ lock' = IF pc[t] \in Critical THEN Nobody ELSE lock
  /\ poisoned' = (poisoned \/ pc[t] \in Critical)
  /\ draft' = [draft EXCEPT ![t] = NoCache]
  /\ Goto(t, "idle")
  /\ UNCHANGED <<Environment, cache, began, answered, promised>>

-----------------------------------------------------------------------------
Write ==
  /\ disk < MaxWrites
  /\ disk' = disk + 1
  /\ born' = [born EXCEPT ![disk + 1] = now]
  /\ UNCHANGED <<now, cache, lock, poisoned, pc, draft, began, answered,
                 promised>>

\* Time passes, but no build takes longer than BuildBound.
Tick ==
  /\ now < Horizon
  /\ \A t \in Threads : pc[t] \in Building => now < began[t] + BuildBound
  /\ now' = now + 1
  /\ UNCHANGED <<disk, born, cache, lock, poisoned, pc, draft, began, answered,
                 promised>>

Acquire(t) == Lock(t) \/ LockPoisoned(t) \/ RefreshStore(t)

Proceed(t) == Scan(t) \/ Finish(t) \/ BuildFails(t) \/ Serve(t)
                \/ RefreshBuilt(t) \/ Panic(t)

Arrive(t) == Call(t) \/ Refresh(t)

Next == Write \/ Tick
          \/ \E t \in Threads : Arrive(t) \/ Acquire(t) \/ Proceed(t)

Spec == Init /\ [][Next]_vars

\* The scheduler runs every runnable thread.  std::sync::Mutex is not a fair
\* lock, so a thread is promised it only if it stays free (weak fairness).
Fairness == \A t \in Threads : WF_vars(Proceed(t)) /\ WF_vars(Acquire(t))

FairSpec == Spec /\ Fairness

-----------------------------------------------------------------------------
(* Properties *)

TypeOK ==
  /\ now \in 0..Horizon /\ disk \in 0..MaxWrites
  /\ born \in [1..MaxWrites -> 0..Horizon]
  /\ cache \in CacheVal \cup {NoCache}
  /\ lock \in Threads \cup {Nobody} /\ poisoned \in BOOLEAN
  /\ pc \in [Threads -> Labels]
  /\ draft \in [Threads -> CacheVal \cup {NoCache}]
  /\ began \in [Threads -> 0..Horizon]
  /\ answered \in [Threads -> 0..MaxWrites]
  /\ promised \in 0..MaxWrites

\* No two threads are inside with_cache's critical section at once, and a
\* thread there holds the mutex, which is not poisoned: rebuilds never overlap
\* and no answer is computed while another thread replaces the cache.
MutualExclusion ==
  \A t \in Threads : pc[t] \in Critical => lock = t /\ ~poisoned

\* An answer shows every write that reached the disk more than TTL plus one
\* build before the call's staleness check, although built_at is stamped when
\* the build ends, and although refresh may store its cache long after that.
BoundedStaleness ==
  \A t \in Threads : pc[t] = "serve" =>
    /\ cache # NoCache
    /\ \A v \in 1..disk : born[v] + BuildBound + TTL < began[t] => v <= cache.snap

\* Answers never go back in time: whatever any call was shown, each later call
\* is shown at least that.  True of the server, which never calls refresh.
AnswersMoveForward ==
  \A t, u \in Threads : pc[t] = "serve" => answered[u] <= cache.snap

\* After refresh returned, calls are shown at least what it had read, as its
\* doc comment says (teams.rs, refresh).  True while refreshes do not overlap.
RefreshIsSeen ==
  \A t \in Threads : pc[t] = "serve" => promised <= cache.snap

\* with_cache's own rebuilds never put back an older version of the database;
\* only refresh, whose build runs outside the lock, can.
OnlyRefreshGoesBack ==
  [][ cache # NoCache /\ cache' # NoCache /\ cache'.snap < cache.snap =>
        \E t \in Refreshers : RefreshStore(t) ]_cache

\* Callers that find a stale cache together cause one rebuild, not one each:
\* with_cache's rebuilds are more than TTL apart, measured at built_at.
RebuildsAreSpaced ==
  [][ cache # NoCache /\ cache' # NoCache /\ cache'.builtAt <= cache.builtAt + TTL =>
        \E t \in Refreshers : RefreshStore(t) ]_cache

\* The mutex is always given back, also when a build fails or panics, and also
\* while new calls keep arriving.
LockIsReleased == lock # Nobody ~> lock = Nobody

\* Once no new calls arrive, every pending call and refresh returns, with an
\* answer, an error or a panic, whatever the builds do and poisoned or not.
EveryCallReturns ==
  <>[][\A t \in Threads : ~Arrive(t)]_vars
     => <>[](\A t \in Threads : pc[t] = "idle")

\* Without refresh the store implements the abstract view.
View == INSTANCE SnapshotView
          WITH view <- IF cache = NoCache THEN 0 ELSE cache.snap

\* Every step of the store is one of SnapshotView or changes nothing there:
\* locks, failed builds, panics and time are invisible to callers, and answers
\* come from one view that only moves forward.
RefinesSnapshotView == View!Spec
=============================================================================
