-------------------------- MODULE TeamsStoreProofs --------------------------
(***************************************************************************)
(* Proofs about TeamsStore, for every set of threads and every value of    *)
(* the bounds.  IInv is the inductive invariant: who holds the mutex, what *)
(* a build in progress and the stored cache are known to contain, and how  *)
(* that relates to the clock.                                              *)
(***************************************************************************)
EXTENDS TeamsStore, TLAPS

\* The holder of the mutex is the one thread in the critical section.
LockInv ==
  \A t \in Threads : /\ pc[t] \in Critical <=> lock = t
                     /\ pc[t] \in Critical => ~poisoned

\* Only refreshers run refresh; no call started in the future; no build is
\* older than BuildBound.
ClockInv ==
  \A t \in Threads :
    /\ pc[t] \in {"rbuild", "rparse", "rstore"} => t \in Refreshers
    /\ began[t] <= now
    /\ pc[t] \in Building => now <= began[t] + BuildBound

\* A cache c read the disk no earlier than `since': what it misses is younger.
MissesOnlyYounger(c, since) ==
  /\ c.snap <= disk
  /\ \A v \in 1..MaxWrites : c.snap < v /\ v <= disk => born[v] >= since

\* What is known of a cache whose build has ended.
Built(c) ==
  /\ c.builtAt <= now
  /\ c.snap <= disk
  /\ \A v \in 1..MaxWrites :
       c.snap < v /\ v <= disk => born[v] + BuildBound >= c.builtAt

DraftInv ==
  \A t \in Threads :
    /\ pc[t] \in {"parse", "rparse", "rstore"} => draft[t] # NoCache
    /\ pc[t] \in {"parse", "rparse"} => MissesOnlyYounger(draft[t], began[t])
    /\ pc[t] = "rstore" => Built(draft[t])

CacheInv == cache # NoCache => Built(cache)

\* A thread that rebuilds found the stored cache stale, and reads the disk
\* after that cache did.
RebuildInv ==
  \A t \in Threads : cache # NoCache =>
    /\ pc[t] \in {"build", "parse"} => cache.builtAt + TTL < began[t]
    /\ pc[t] = "parse" => cache.snap <= draft[t].snap

\* A thread about to answer has a cache that was fresh when it looked.
ServeInv ==
  \A t \in Threads : pc[t] = "serve" =>
    /\ cache # NoCache
    /\ \A v \in 1..MaxWrites :
         cache.snap < v /\ v <= disk => born[v] + BuildBound + TTL >= began[t]

IInv == /\ TypeOK /\ LockInv /\ ClockInv /\ DraftInv
        /\ CacheInv /\ RebuildInv /\ ServeInv

\* Every variable keeps its type.
LEMMA TypeStep == IInv /\ [Next]_vars => TypeOK'
<1> SUFFICES ASSUME IInv, [Next]_vars PROVE TypeOK'
  OBVIOUS
<1> USE ConstantsAssumption DEF IInv, TypeOK, CacheVal, Labels, Critical,
    Building, Goto, Environment, DraftInv, ServeInv
<1>1. CASE UNCHANGED vars
  BY <1>1 DEF vars
<1>2. CASE Write
  BY <1>2 DEF Write
<1>3. CASE Tick
  BY <1>3 DEF Tick
<1>4. ASSUME NEW t \in Threads, Call(t) PROVE TypeOK'
  BY <1>4 DEF Call
<1>5. ASSUME NEW t \in Threads, Lock(t) PROVE TypeOK'
  BY <1>5 DEF Lock, Stale
<1>6. ASSUME NEW t \in Threads, LockPoisoned(t) PROVE TypeOK'
  BY <1>6 DEF LockPoisoned
<1>7. ASSUME NEW t \in Threads, Scan(t) PROVE TypeOK'
  BY <1>7 DEF Scan
<1>8. ASSUME NEW t \in Threads, Finish(t) PROVE TypeOK'
  BY <1>8 DEF Finish
<1>9. ASSUME NEW t \in Threads, BuildFails(t) PROVE TypeOK'
  BY <1>9 DEF BuildFails
<1>10. ASSUME NEW t \in Threads, Serve(t) PROVE TypeOK'
  BY <1>10 DEF Serve
<1>11. ASSUME NEW t \in Threads, Refresh(t) PROVE TypeOK'
  BY <1>11 DEF Refresh
<1>12. ASSUME NEW t \in Threads, RefreshBuilt(t) PROVE TypeOK'
  BY <1>12 DEF RefreshBuilt
<1>13. ASSUME NEW t \in Threads, RefreshStore(t) PROVE TypeOK'
  BY <1>13 DEF RefreshStore
<1>14. ASSUME NEW t \in Threads, Panic(t) PROVE TypeOK'
  BY <1>14 DEF Panic
<1> QED
  BY <1>1, <1>2, <1>3, <1>4, <1>5, <1>6, <1>7, <1>8, <1>9, <1>10, <1>11,
     <1>12, <1>13, <1>14 DEF Next, Arrive, Acquire, Proceed

\* A step hands the mutex over, but never to two threads.
LEMMA LockStep == IInv /\ [Next]_vars => LockInv'
<1> SUFFICES ASSUME IInv, [Next]_vars PROVE LockInv'
  OBVIOUS
<1> USE ConstantsAssumption DEF IInv, TypeOK, CacheVal, Labels, Critical,
    Building, Goto, Environment, LockInv
<1>1. CASE UNCHANGED vars
  BY <1>1 DEF vars
<1>2. CASE Write
  BY <1>2 DEF Write
<1>3. CASE Tick
  BY <1>3 DEF Tick
<1>4. ASSUME NEW t \in Threads, Call(t) PROVE LockInv'
  BY <1>4 DEF Call
<1>5. ASSUME NEW t \in Threads, Lock(t) PROVE LockInv'
  BY <1>5 DEF Lock, Stale
<1>6. ASSUME NEW t \in Threads, LockPoisoned(t) PROVE LockInv'
  BY <1>6 DEF LockPoisoned
<1>7. ASSUME NEW t \in Threads, Scan(t) PROVE LockInv'
  BY <1>7 DEF Scan
<1>8. ASSUME NEW t \in Threads, Finish(t) PROVE LockInv'
  BY <1>8 DEF Finish
<1>9. ASSUME NEW t \in Threads, BuildFails(t) PROVE LockInv'
  BY <1>9 DEF BuildFails
<1>10. ASSUME NEW t \in Threads, Serve(t) PROVE LockInv'
  BY <1>10 DEF Serve
<1>11. ASSUME NEW t \in Threads, Refresh(t) PROVE LockInv'
  BY <1>11 DEF Refresh
<1>12. ASSUME NEW t \in Threads, RefreshBuilt(t) PROVE LockInv'
  BY <1>12 DEF RefreshBuilt
<1>13. ASSUME NEW t \in Threads, RefreshStore(t) PROVE LockInv'
  BY <1>13 DEF RefreshStore
<1>14. ASSUME NEW t \in Threads, Panic(t) PROVE LockInv'
  BY <1>14 DEF Panic
<1> QED
  BY <1>1, <1>2, <1>3, <1>4, <1>5, <1>6, <1>7, <1>8, <1>9, <1>10, <1>11,
     <1>12, <1>13, <1>14 DEF Next, Arrive, Acquire, Proceed

\* No step makes a build outlive BuildBound.
LEMMA ClockStep == IInv /\ [Next]_vars => ClockInv'
<1> SUFFICES ASSUME IInv, [Next]_vars PROVE ClockInv'
  OBVIOUS
<1> USE ConstantsAssumption DEF IInv, TypeOK, CacheVal, Labels, Critical,
    Building, Goto, Environment, ClockInv
<1>1. CASE UNCHANGED vars
  BY <1>1 DEF vars
<1>2. CASE Write
  BY <1>2 DEF Write
<1>3. CASE Tick
  BY <1>3 DEF Tick
<1>4. ASSUME NEW t \in Threads, Call(t) PROVE ClockInv'
  BY <1>4 DEF Call
<1>5. ASSUME NEW t \in Threads, Lock(t) PROVE ClockInv'
  BY <1>5 DEF Lock, Stale
<1>6. ASSUME NEW t \in Threads, LockPoisoned(t) PROVE ClockInv'
  BY <1>6 DEF LockPoisoned
<1>7. ASSUME NEW t \in Threads, Scan(t) PROVE ClockInv'
  BY <1>7 DEF Scan
<1>8. ASSUME NEW t \in Threads, Finish(t) PROVE ClockInv'
  BY <1>8 DEF Finish
<1>9. ASSUME NEW t \in Threads, BuildFails(t) PROVE ClockInv'
  BY <1>9 DEF BuildFails
<1>10. ASSUME NEW t \in Threads, Serve(t) PROVE ClockInv'
  BY <1>10 DEF Serve
<1>11. ASSUME NEW t \in Threads, Refresh(t) PROVE ClockInv'
  BY <1>11 DEF Refresh
<1>12. ASSUME NEW t \in Threads, RefreshBuilt(t) PROVE ClockInv'
  BY <1>12 DEF RefreshBuilt
<1>13. ASSUME NEW t \in Threads, RefreshStore(t) PROVE ClockInv'
  BY <1>13 DEF RefreshStore
<1>14. ASSUME NEW t \in Threads, Panic(t) PROVE ClockInv'
  BY <1>14 DEF Panic
<1> QED
  BY <1>1, <1>2, <1>3, <1>4, <1>5, <1>6, <1>7, <1>8, <1>9, <1>10, <1>11,
     <1>12, <1>13, <1>14 DEF Next, Arrive, Acquire, Proceed

\* What a draft misses was written after its build began.
LEMMA DraftStep == IInv /\ [Next]_vars => DraftInv'
<1> SUFFICES ASSUME IInv, [Next]_vars PROVE DraftInv'
  OBVIOUS
<1> USE ConstantsAssumption DEF IInv, TypeOK, CacheVal, Labels, Critical,
    Building, Goto, Environment, ClockInv, DraftInv, MissesOnlyYounger,
    Built
<1>1. CASE UNCHANGED vars
  BY <1>1 DEF vars
<1>2. CASE Write
  BY <1>2, SMTT(40) DEF Write
<1>3. CASE Tick
  BY <1>3 DEF Tick
<1>4. ASSUME NEW t \in Threads, Call(t) PROVE DraftInv'
  BY <1>4 DEF Call
<1>5. ASSUME NEW t \in Threads, Lock(t) PROVE DraftInv'
  BY <1>5 DEF Lock, Stale
<1>6. ASSUME NEW t \in Threads, LockPoisoned(t) PROVE DraftInv'
  BY <1>6 DEF LockPoisoned
<1>7. ASSUME NEW t \in Threads, Scan(t) PROVE DraftInv'
  <2>1. /\ draft'[t] = [snap |-> disk, builtAt |-> now] /\ pc'[t] \in {"parse", "rparse"}
        /\ \A u \in Threads \ {t} : draft'[u] = draft[u] /\ pc'[u] = pc[u]
        /\ UNCHANGED <<now, disk, born, began>>
    BY <1>7 DEF Scan
  <2>2. draft'[t] # NoCache /\ MissesOnlyYounger(draft[t], began[t])'
    <3>1. draft'[t].snap = disk' /\ disk' \in Nat
      BY <2>1
    <3>2. draft'[t] # NoCache
      BY <2>1
    <3> QED
      BY ONLY <3>1, <3>2 DEF MissesOnlyYounger
  <2>3. ASSUME NEW u \in Threads \ {t}
        PROVE  /\ pc'[u] \in {"parse", "rparse", "rstore"} => draft'[u] # NoCache
               /\ pc'[u] \in {"parse", "rparse"} => MissesOnlyYounger(draft[u], began[u])'
               /\ pc'[u] = "rstore" => Built(draft[u])'
    BY <2>1
  <2>4. pc'[t] # "rstore"
    BY <2>1
  <2> HIDE DEF MissesOnlyYounger, Built
  <2> QED
    BY <2>2, <2>3, <2>4
<1>8. ASSUME NEW t \in Threads, Finish(t) PROVE DraftInv'
  BY <1>8 DEF Finish
<1>9. ASSUME NEW t \in Threads, BuildFails(t) PROVE DraftInv'
  BY <1>9 DEF BuildFails
<1>10. ASSUME NEW t \in Threads, Serve(t) PROVE DraftInv'
  BY <1>10 DEF Serve
<1>11. ASSUME NEW t \in Threads, Refresh(t) PROVE DraftInv'
  BY <1>11 DEF Refresh
<1>12. ASSUME NEW t \in Threads, RefreshBuilt(t) PROVE DraftInv'
  BY <1>12, SMTT(40) DEF RefreshBuilt
<1>13. ASSUME NEW t \in Threads, RefreshStore(t) PROVE DraftInv'
  BY <1>13 DEF RefreshStore
<1>14. ASSUME NEW t \in Threads, Panic(t) PROVE DraftInv'
  BY <1>14 DEF Panic
<1> QED
  BY <1>1, <1>2, <1>3, <1>4, <1>5, <1>6, <1>7, <1>8, <1>9, <1>10, <1>11,
     <1>12, <1>13, <1>14 DEF Next, Arrive, Acquire, Proceed

\* The same of the stored cache, whoever stored it.
LEMMA CacheStep == IInv /\ [Next]_vars => CacheInv'
<1> SUFFICES ASSUME IInv, [Next]_vars PROVE CacheInv'
  OBVIOUS
<1> USE ConstantsAssumption DEF IInv, TypeOK, CacheVal, Labels, Critical,
    Building, Goto, Environment, ClockInv, DraftInv, CacheInv,
    MissesOnlyYounger, Built
<1>1. CASE UNCHANGED vars
  BY <1>1 DEF vars
<1>2. CASE Write
  BY <1>2 DEF Write
<1>3. CASE Tick
  BY <1>3 DEF Tick
<1>4. ASSUME NEW t \in Threads, Call(t) PROVE CacheInv'
  BY <1>4 DEF Call
<1>5. ASSUME NEW t \in Threads, Lock(t) PROVE CacheInv'
  BY <1>5 DEF Lock, Stale
<1>6. ASSUME NEW t \in Threads, LockPoisoned(t) PROVE CacheInv'
  BY <1>6 DEF LockPoisoned
<1>7. ASSUME NEW t \in Threads, Scan(t) PROVE CacheInv'
  BY <1>7 DEF Scan
<1>8. ASSUME NEW t \in Threads, Finish(t) PROVE CacheInv'
  BY <1>8 DEF Finish
<1>9. ASSUME NEW t \in Threads, BuildFails(t) PROVE CacheInv'
  BY <1>9 DEF BuildFails
<1>10. ASSUME NEW t \in Threads, Serve(t) PROVE CacheInv'
  BY <1>10 DEF Serve
<1>11. ASSUME NEW t \in Threads, Refresh(t) PROVE CacheInv'
  BY <1>11 DEF Refresh
<1>12. ASSUME NEW t \in Threads, RefreshBuilt(t) PROVE CacheInv'
  BY <1>12 DEF RefreshBuilt
<1>13. ASSUME NEW t \in Threads, RefreshStore(t) PROVE CacheInv'
  BY <1>13 DEF RefreshStore
<1>14. ASSUME NEW t \in Threads, Panic(t) PROVE CacheInv'
  BY <1>14 DEF Panic
<1> QED
  BY <1>1, <1>2, <1>3, <1>4, <1>5, <1>6, <1>7, <1>8, <1>9, <1>10, <1>11,
     <1>12, <1>13, <1>14 DEF Next, Arrive, Acquire, Proceed

\* A rebuild under the lock replaces a stale cache by a newer one.
LEMMA RebuildStep == IInv /\ [Next]_vars => RebuildInv'
<1> SUFFICES ASSUME IInv, [Next]_vars PROVE RebuildInv'
  OBVIOUS
<1> USE ConstantsAssumption DEF IInv, TypeOK, CacheVal, Labels, Critical,
    Building, Goto, Environment, LockInv, ClockInv, DraftInv, CacheInv,
    RebuildInv, MissesOnlyYounger, Built
<1>1. CASE UNCHANGED vars
  BY <1>1 DEF vars
<1>2. CASE Write
  BY <1>2 DEF Write
<1>3. CASE Tick
  BY <1>3 DEF Tick
<1>4. ASSUME NEW t \in Threads, Call(t) PROVE RebuildInv'
  BY <1>4 DEF Call
<1>5. ASSUME NEW t \in Threads, Lock(t) PROVE RebuildInv'
  BY <1>5 DEF Lock, Stale
<1>6. ASSUME NEW t \in Threads, LockPoisoned(t) PROVE RebuildInv'
  BY <1>6 DEF LockPoisoned
<1>7. ASSUME NEW t \in Threads, Scan(t) PROVE RebuildInv'
  BY <1>7 DEF Scan
<1>8. ASSUME NEW t \in Threads, Finish(t) PROVE RebuildInv'
  BY <1>8 DEF Finish
<1>9. ASSUME NEW t \in Threads, BuildFails(t) PROVE RebuildInv'
  BY <1>9 DEF BuildFails
<1>10. ASSUME NEW t \in Threads, Serve(t) PROVE RebuildInv'
  BY <1>10 DEF Serve
<1>11. ASSUME NEW t \in Threads, Refresh(t) PROVE RebuildInv'
  BY <1>11 DEF Refresh
<1>12. ASSUME NEW t \in Threads, RefreshBuilt(t) PROVE RebuildInv'
  BY <1>12 DEF RefreshBuilt
<1>13. ASSUME NEW t \in Threads, RefreshStore(t) PROVE RebuildInv'
  BY <1>13 DEF RefreshStore
<1>14. ASSUME NEW t \in Threads, Panic(t) PROVE RebuildInv'
  BY <1>14 DEF Panic
<1> QED
  BY <1>1, <1>2, <1>3, <1>4, <1>5, <1>6, <1>7, <1>8, <1>9, <1>10, <1>11,
     <1>12, <1>13, <1>14 DEF Next, Arrive, Acquire, Proceed

\* While a thread answers, nobody replaces its cache.
LEMMA ServeStep == IInv /\ [Next]_vars => ServeInv'
<1> SUFFICES ASSUME IInv, [Next]_vars PROVE ServeInv'
  OBVIOUS
<1> USE ConstantsAssumption DEF IInv, TypeOK, CacheVal, Labels, Critical,
    Building, Goto, Environment, LockInv, ClockInv, DraftInv, CacheInv,
    ServeInv, MissesOnlyYounger, Built
<1>1. CASE UNCHANGED vars
  BY <1>1 DEF vars
<1>2. CASE Write
  BY <1>2 DEF Write
<1>3. CASE Tick
  BY <1>3 DEF Tick
<1>4. ASSUME NEW t \in Threads, Call(t) PROVE ServeInv'
  BY <1>4 DEF Call
<1>5. ASSUME NEW t \in Threads, Lock(t) PROVE ServeInv'
  <2>1. /\ UNCHANGED <<now, disk, born, cache>> /\ began'[t] = now
        /\ pc'[t] = "serve" => cache # NoCache /\ now <= cache.builtAt + TTL
        /\ \A u \in Threads \ {t} : pc'[u] = pc[u] /\ began'[u] = began[u]
    BY <1>5 DEF Lock, Stale
  <2>2. ASSUME pc'[t] = "serve", NEW v \in 1..MaxWrites, cache.snap < v, v <= disk
        PROVE  born[v] + BuildBound + TTL >= now
    <3>1. born[v] + BuildBound >= cache.builtAt
      BY <2>1, <2>2
    <3>2. cache.builtAt \in Nat /\ born[v] \in Nat /\ now \in Nat
      BY <2>1, <2>2
    <3>3. TTL \in Nat /\ BuildBound \in Nat /\ now <= cache.builtAt + TTL
      BY <2>1, <2>2
    <3> QED
      BY ONLY <3>1, <3>2, <3>3
  <2>3. ASSUME NEW u \in Threads \ {t}, pc'[u] = "serve"
        PROVE  /\ cache' # NoCache
               /\ \A v \in 1..MaxWrites :
                    cache'.snap < v /\ v <= disk' => born'[v] + BuildBound + TTL >= began'[u]
    BY <2>1, <2>3
  <2>4. pc'[t] = "serve" =>
          /\ cache' # NoCache
          /\ \A v \in 1..MaxWrites :
               cache'.snap < v /\ v <= disk' => born'[v] + BuildBound + TTL >= began'[t]
    BY <2>1, <2>2
  <2> QED
    BY ONLY <2>3, <2>4 DEF ServeInv
<1>6. ASSUME NEW t \in Threads, LockPoisoned(t) PROVE ServeInv'
  BY <1>6 DEF LockPoisoned
<1>7. ASSUME NEW t \in Threads, Scan(t) PROVE ServeInv'
  BY <1>7 DEF Scan
<1>8. ASSUME NEW t \in Threads, Finish(t) PROVE ServeInv'
  <2>1. /\ draft[t] \in CacheVal
        /\ MissesOnlyYounger(draft[t], began[t])
    BY <1>8 DEF Finish
  <2>2. cache' \in CacheVal /\ cache'.snap = draft[t].snap
    BY <1>8, <2>1 DEF Finish
  <2>3. cache' # NoCache
    BY <2>2
  <2>4. \A u \in Threads : pc'[u] = "serve" => u = t
    BY <1>8, SMTT(40) DEF Finish
  <2>5. \A v \in 1..MaxWrites :
          cache'.snap < v /\ v <= disk' => born'[v] + BuildBound + TTL >= began'[t]
    BY <1>8, <2>1, <2>2, SMTT(40) DEF Finish
  <2> QED
    BY <2>3, <2>4, <2>5
<1>9. ASSUME NEW t \in Threads, BuildFails(t) PROVE ServeInv'
  BY <1>9 DEF BuildFails
<1>10. ASSUME NEW t \in Threads, Serve(t) PROVE ServeInv'
  BY <1>10 DEF Serve
<1>11. ASSUME NEW t \in Threads, Refresh(t) PROVE ServeInv'
  BY <1>11 DEF Refresh
<1>12. ASSUME NEW t \in Threads, RefreshBuilt(t) PROVE ServeInv'
  BY <1>12 DEF RefreshBuilt
<1>13. ASSUME NEW t \in Threads, RefreshStore(t) PROVE ServeInv'
  BY <1>13 DEF RefreshStore
<1>14. ASSUME NEW t \in Threads, Panic(t) PROVE ServeInv'
  BY <1>14 DEF Panic
<1> QED
  BY <1>1, <1>2, <1>3, <1>4, <1>5, <1>6, <1>7, <1>8, <1>9, <1>10, <1>11,
     <1>12, <1>13, <1>14 DEF Next, Arrive, Acquire, Proceed

-----------------------------------------------------------------------------
LEMMA InitIInv == Init => IInv
<1> SUFFICES ASSUME Init PROVE IInv
  OBVIOUS
<1> USE ConstantsAssumption DEF Init
<1>1. TypeOK
  <2>1. /\ now \in 0..Horizon /\ disk \in 0..MaxWrites /\ promised \in 0..MaxWrites
        /\ born \in [1..MaxWrites -> 0..Horizon]
        /\ began \in [Threads -> 0..Horizon]
        /\ answered \in [Threads -> 0..MaxWrites]
    OBVIOUS
  <2>2. /\ cache \in CacheVal \cup {NoCache}
        /\ draft \in [Threads -> CacheVal \cup {NoCache}]
        /\ lock \in Threads \cup {Nobody}
    OBVIOUS
  <2>3. poisoned \in BOOLEAN
    OBVIOUS
  <2>4. pc \in [Threads -> Labels]
    BY DEF Labels
  <2> QED
    BY <2>1, <2>2, <2>3, <2>4 DEF TypeOK
<1>2. LockInv
  BY DEF LockInv, Critical
<1>3. ClockInv
  <2> SUFFICES ASSUME NEW t \in Threads
               PROVE  /\ pc[t] \notin {"rbuild", "rparse", "rstore"} \cup Building
                      /\ began[t] <= now
    BY DEF ClockInv
  <2>1. pc[t] = "idle" /\ began[t] = 0 /\ now = 0
    OBVIOUS
  <2> QED
    BY <2>1 DEF Building
<1>4. DraftInv /\ CacheInv /\ RebuildInv /\ ServeInv
  BY DEF DraftInv, CacheInv, RebuildInv, ServeInv
<1> QED
  BY <1>1, <1>2, <1>3, <1>4 DEF IInv

\* IInv is inductive, so it holds in every reachable state.
THEOREM Invariance == Spec => []IInv
<1>1. IInv /\ [Next]_vars => IInv'
  BY TypeStep, LockStep, ClockStep, DraftStep, CacheStep, RebuildStep, ServeStep
  DEF IInv
<1> QED
  BY InitIInv, <1>1, PTL DEF Spec

\* Every variable keeps its type, for any threads, bounds and build mode.
THEOREM TypeCorrect == Spec => []TypeOK
<1>1. IInv => TypeOK
  BY DEF IInv
<1> QED
  BY Invariance, <1>1, PTL

\* with_cache's critical section excludes every other thread.
THEOREM Exclusion == Spec => []MutualExclusion
<1>1. IInv => MutualExclusion
  BY DEF IInv, LockInv, MutualExclusion
<1> QED
  BY Invariance, <1>1, PTL

\* An answer misses only writes younger than TTL plus one build.
THEOREM Staleness == Spec => []BoundedStaleness
<1>1. IInv => BoundedStaleness
  <2> SUFFICES ASSUME IInv, NEW t \in Threads, pc[t] = "serve"
               PROVE  /\ cache # NoCache
                      /\ \A v \in 1..disk :
                           born[v] + BuildBound + TTL < began[t] => v <= cache.snap
    BY DEF BoundedStaleness
  <2>1. cache # NoCache
    BY DEF IInv, ServeInv
  <2>2. ASSUME NEW v \in 1..disk, born[v] + BuildBound + TTL < began[t]
        PROVE  v <= cache.snap
    <3>1. v \in 1..MaxWrites /\ v <= disk /\ born[v] \in Nat /\ cache.snap \in Nat
      BY <2>1, ConstantsAssumption DEF IInv, TypeOK, CacheVal
    <3>2. cache.snap < v => born[v] + BuildBound + TTL >= began[t]
      BY <3>1 DEF IInv, ServeInv
    <3>3. began[t] \in Nat /\ BuildBound \in Nat /\ TTL \in Nat
      BY ConstantsAssumption DEF IInv, TypeOK
    <3> QED
      BY <2>2, <3>1, <3>2, <3>3
  <2> QED
    BY <2>1, <2>2
<1> QED
  BY Invariance, <1>1, PTL

-----------------------------------------------------------------------------
\* Which steps replace the cache: the end of a rebuild, and refresh's store.
LEMMA CacheWriters ==
  ASSUME [Next]_vars, cache' # cache
  PROVE  \E t \in Threads : Finish(t) \/ RefreshStore(t)
BY DEF Next, vars, Arrive, Acquire, Proceed, Environment, Write, Tick, Call, Lock,
       LockPoisoned, Scan, BuildFails, Serve, Refresh, RefreshBuilt, Panic

\* Rebuilds by with_cache are more than TTL apart.
THEOREM Spacing == Spec => RebuildsAreSpaced
<1>1. IInv /\ [Next]_vars =>
        [cache # NoCache /\ cache' # NoCache /\ cache'.builtAt <= cache.builtAt + TTL =>
           \E t \in Refreshers : RefreshStore(t)]_cache
  <2> SUFFICES ASSUME IInv, [Next]_vars, cache' # cache, cache # NoCache,
                      cache'.builtAt <= cache.builtAt + TTL
               PROVE  \E t \in Refreshers : RefreshStore(t)
    OBVIOUS
  <2>1. PICK t \in Threads : Finish(t) \/ RefreshStore(t)
    BY CacheWriters
  <2>2. CASE Finish(t)
    <3>1. cache'.builtAt = now /\ cache.builtAt + TTL < began[t] /\ began[t] <= now
      BY <2>2 DEF Finish, IInv, RebuildInv, ClockInv
    <3>2. cache.builtAt \in Nat /\ began[t] \in Nat /\ now \in Nat /\ TTL \in Nat
      BY ConstantsAssumption DEF IInv, TypeOK, CacheVal
    <3> QED
      BY <3>1, <3>2
  <2>3. CASE RefreshStore(t)
    BY <2>3 DEF RefreshStore, IInv, ClockInv
  <2> QED
    BY <2>1, <2>2, <2>3
<1> QED
  BY Invariance, <1>1, PTL DEF Spec, RebuildsAreSpaced

\* Only refresh ever puts an older version of the database in the cache.
THEOREM GoingBack == Spec => OnlyRefreshGoesBack
<1>1. IInv /\ [Next]_vars =>
        [cache # NoCache /\ cache' # NoCache /\ cache'.snap < cache.snap =>
           \E t \in Refreshers : RefreshStore(t)]_cache
  <2> SUFFICES ASSUME IInv, [Next]_vars, cache' # cache, cache # NoCache,
                      cache'.snap < cache.snap
               PROVE  \E t \in Refreshers : RefreshStore(t)
    OBVIOUS
  <2>1. PICK t \in Threads : Finish(t) \/ RefreshStore(t)
    BY CacheWriters
  <2>2. CASE Finish(t)
    <3>1. cache'.snap = draft[t].snap /\ cache.snap <= draft[t].snap
      BY <2>2 DEF Finish, IInv, RebuildInv
    <3>2. cache.snap \in Nat /\ draft[t].snap \in Nat
      BY <2>2, ConstantsAssumption DEF IInv, TypeOK, CacheVal, DraftInv, Finish
    <3> QED
      BY <3>1, <3>2
  <2>3. CASE RefreshStore(t)
    BY <2>3 DEF RefreshStore, IInv, ClockInv
  <2> QED
    BY <2>1, <2>2, <2>3
<1> QED
  BY Invariance, <1>1, PTL DEF Spec, OnlyRefreshGoesBack

-----------------------------------------------------------------------------
\* The version callers see, as SnapshotView has it.
Shown == IF cache = NoCache THEN 0 ELSE cache.snap

AnsweredInv == \A u \in Threads : answered[u] <= Shown

\* Without refreshers the cache only moves forward, so no answer outruns it.
LEMMA AnsweredStep ==
  ASSUME Refreshers = {}
  PROVE  IInv /\ AnsweredInv /\ [Next]_vars => AnsweredInv'
<1> SUFFICES ASSUME IInv, AnsweredInv, [Next]_vars PROVE AnsweredInv'
  OBVIOUS
<1> USE ConstantsAssumption DEF IInv, TypeOK, CacheVal, AnsweredInv, Shown
<1>1. CASE cache' # cache
  <2>1. PICK t \in Threads : Finish(t)
    BY <1>1, CacheWriters DEF RefreshStore, ClockInv
  <2>2. cache' \in CacheVal /\ cache'.snap = draft[t].snap /\ answered' = answered
    BY <2>1 DEF Finish, DraftInv
  <2>3. cache # NoCache => cache.snap <= draft[t].snap
    BY <2>1 DEF Finish, RebuildInv
  <2> QED
    BY <2>2, <2>3
<1>2. CASE cache' = cache /\ answered' = answered
  BY <1>2
<1>3. ASSUME NEW t \in Threads, Serve(t) PROVE AnsweredInv'
  BY <1>3 DEF Serve, ServeInv, Environment
<1>4. cache' = cache => answered' = answered \/ \E t \in Threads : Serve(t)
  BY DEF Next, vars, Arrive, Acquire, Proceed, Environment, Write, Tick, Call, Lock,
         LockPoisoned, Scan, Finish, BuildFails, Refresh, RefreshBuilt, RefreshStore,
         Panic
<1> QED
  BY <1>1, <1>2, <1>3, <1>4

\* Whatever any call was shown, later calls of the server are shown no less.
THEOREM Forward ==
  ASSUME Refreshers = {}
  PROVE  Spec => []AnswersMoveForward
<1>1. Init => AnsweredInv
  BY DEF Init, AnsweredInv, Shown
<1>2. IInv /\ AnsweredInv /\ [Next]_vars => AnsweredInv'
  BY AnsweredStep
<1>3. IInv /\ AnsweredInv => AnswersMoveForward
  BY DEF IInv, ServeInv, AnsweredInv, Shown, AnswersMoveForward
<1> QED
  BY Invariance, <1>1, <1>2, <1>3, PTL DEF Spec

-----------------------------------------------------------------------------
\* What a refresh has read is never newer than what a later refresh reads, and
\* a rebuild in progress never started from an older disk.
PromiseInv ==
  /\ promised <= disk
  /\ promised > 0 => cache # NoCache
  /\ cache # NoCache => promised <= cache.snap
  /\ \A t \in Threads : pc[t] \in {"parse", "rparse", "rstore"} =>
       promised <= draft[t].snap

\* With one refresher its refreshes cannot overtake each other.
LEMMA PromiseStep ==
  ASSUME \A t, u \in Refreshers : t = u
  PROVE  IInv /\ PromiseInv /\ [Next]_vars => PromiseInv'
<1> SUFFICES ASSUME IInv, PromiseInv, [Next]_vars PROVE PromiseInv'
  OBVIOUS
<1> USE ConstantsAssumption
    DEF IInv, TypeOK, CacheVal, PromiseInv, Labels, Critical, Building, Goto,
        Environment
<1>1. CASE UNCHANGED vars
  BY <1>1 DEF vars
<1>2. CASE Write
  BY <1>2 DEF Write, DraftInv
<1>3. CASE Tick
  BY <1>3 DEF Tick
<1>4. ASSUME NEW t \in Threads, Call(t) PROVE PromiseInv'
  BY <1>4 DEF Call, LockInv, ClockInv, DraftInv, MissesOnlyYounger, Built
<1>5. ASSUME NEW t \in Threads, Lock(t) PROVE PromiseInv'
  BY <1>5 DEF Lock, LockInv, ClockInv, DraftInv, MissesOnlyYounger, Built
<1>6. ASSUME NEW t \in Threads, LockPoisoned(t) PROVE PromiseInv'
  BY <1>6 DEF LockPoisoned, LockInv, ClockInv, DraftInv, MissesOnlyYounger, Built
<1>7. ASSUME NEW t \in Threads, Scan(t) PROVE PromiseInv'
  BY <1>7 DEF Scan, LockInv, ClockInv, DraftInv, MissesOnlyYounger, Built
<1>8. ASSUME NEW t \in Threads, Finish(t) PROVE PromiseInv'
  <2>1. draft[t] # NoCache /\ promised <= draft[t].snap
    BY <1>8 DEF Finish, DraftInv
  <2>2. /\ cache' = [snap |-> draft[t].snap, builtAt |-> now]
        /\ cache' \in [snap : 0..MaxWrites, builtAt : 0..Horizon]
        /\ promised' = promised /\ disk' = disk
    BY <1>8, <2>1 DEF Finish
  <2>3. /\ promised' <= disk'
        /\ cache' # NoCache /\ promised' <= cache'.snap
    BY <2>1, <2>2
  <2>4. ASSUME NEW u \in Threads, pc'[u] \in {"parse", "rparse", "rstore"}
        PROVE  promised' <= draft'[u].snap
    <3>1. u # t /\ pc'[u] = pc[u] /\ draft'[u] = draft[u]
      BY <1>8, <2>4 DEF Finish
    <3> QED
      BY <2>2, <2>4, <3>1
  <2> QED
    BY <2>3, <2>4
<1>9. ASSUME NEW t \in Threads, BuildFails(t) PROVE PromiseInv'
  BY <1>9 DEF BuildFails, LockInv, ClockInv, DraftInv, MissesOnlyYounger, Built
<1>10. ASSUME NEW t \in Threads, Serve(t) PROVE PromiseInv'
  BY <1>10 DEF Serve, LockInv, ClockInv, DraftInv, MissesOnlyYounger, Built
<1>11. ASSUME NEW t \in Threads, Refresh(t) PROVE PromiseInv'
  BY <1>11 DEF Refresh, LockInv, ClockInv, DraftInv, MissesOnlyYounger, Built
<1>12. ASSUME NEW t \in Threads, RefreshBuilt(t) PROVE PromiseInv'
  BY <1>12 DEF RefreshBuilt, LockInv, ClockInv, DraftInv, MissesOnlyYounger, Built
<1>13. ASSUME NEW t \in Threads, RefreshStore(t) PROVE PromiseInv'
  <2>1. /\ t \in Refreshers /\ lock = Nobody /\ draft[t] # NoCache /\ draft[t].snap <= disk
        /\ promised <= draft[t].snap /\ draft[t].snap \in Nat /\ promised \in Nat
    BY <1>13 DEF RefreshStore, ClockInv, DraftInv, Built
  <2>2. /\ cache' = draft[t] /\ disk' = disk /\ pc'[t] = "idle"
        /\ promised' = IF draft[t].snap > promised THEN draft[t].snap ELSE promised
        /\ \A u \in Threads \ {t} : pc'[u] = pc[u] /\ draft'[u] = draft[u]
    BY <1>13 DEF RefreshStore
  <2>3. promised' = draft[t].snap
    BY <2>1, <2>2
  <2>4. \A u \in Threads \ {t} : pc[u] \notin {"parse", "rparse", "rstore"}
    BY <2>1 DEF LockInv, ClockInv
  <2>5. promised' <= disk' /\ cache' # NoCache /\ promised' <= cache'.snap
    BY <2>1, <2>2, <2>3
  <2>6. \A u \in Threads : pc'[u] \notin {"parse", "rparse", "rstore"}
    BY <2>2, <2>4
  <2> QED
    BY ONLY <2>5, <2>6 DEF PromiseInv
<1>14. ASSUME NEW t \in Threads, Panic(t) PROVE PromiseInv'
  BY <1>14 DEF Panic, LockInv, ClockInv, DraftInv, MissesOnlyYounger, Built
<1> QED
  BY <1>1, <1>2, <1>3, <1>4, <1>5, <1>6, <1>7, <1>8, <1>9, <1>10, <1>11,
     <1>12, <1>13, <1>14
  DEF Next, Arrive, Acquire, Proceed

\* With at most one refresher, calls are shown what a finished refresh had read.
THEOREM RefreshSeen ==
  ASSUME \A t, u \in Refreshers : t = u
  PROVE  Spec => []RefreshIsSeen
<1>1. Init => PromiseInv
  BY DEF Init, PromiseInv
<1>2. IInv /\ PromiseInv /\ [Next]_vars => PromiseInv'
  BY PromiseStep
<1>3. IInv /\ PromiseInv => RefreshIsSeen
  BY DEF IInv, ServeInv, PromiseInv, RefreshIsSeen
<1> QED
  BY Invariance, <1>1, <1>2, <1>3, PTL DEF Spec

-----------------------------------------------------------------------------
\* The store that never calls refresh implements the abstract view: a rebuild
\* is a Publish, an answer an Answer, everything else leaves the view alone.
THEOREM Refinement ==
  ASSUME Refreshers = {}
  PROVE  Spec => RefinesSnapshotView
<1>1. Init => View!Init
  BY DEF Init, View!Init
<1>2. IInv /\ [Next]_vars => [View!Next]_(View!vars)
  <2> SUFFICES ASSUME IInv, [Next]_vars PROVE [View!Next]_(View!vars)
    OBVIOUS
  <2>1. CASE cache' # cache
    <3>1. PICK t \in Threads : Finish(t)
      BY <2>1, CacheWriters DEF RefreshStore, IInv, ClockInv
    <3>2. /\ cache' \in CacheVal /\ cache'.snap = draft[t].snap
          /\ draft[t].snap <= disk
          /\ UNCHANGED <<disk, answered>>
      BY <3>1, ConstantsAssumption
      DEF Finish, IInv, TypeOK, CacheVal, DraftInv, MissesOnlyYounger, Environment
    <3>3. cache # NoCache => cache.snap <= draft[t].snap
      BY <3>1 DEF Finish, IInv, RebuildInv
    <3>4. /\ cache # NoCache => cache.snap \in Nat
          /\ disk \in Nat /\ draft[t].snap \in Nat
      BY <3>1, <3>2, ConstantsAssumption DEF IInv, TypeOK, CacheVal
    <3>5. cache' # NoCache
      BY <3>2, ConstantsAssumption
    <3> QED
      BY <3>2, <3>3, <3>4, <3>5 DEF View!Next, View!Publish
  <2>2. CASE cache' = cache /\ Write
    BY <2>2 DEF Write, View!Next, View!Write
  <2>3. ASSUME cache' = cache, NEW t \in Threads, Serve(t)
        PROVE  View!Next
    <3>1. cache # NoCache
      BY <2>3 DEF Serve, IInv, ServeInv
    <3> QED
      BY <2>3, <3>1 DEF Serve, Environment, View!Next, View!Answer
  <2>4. CASE UNCHANGED <<cache, disk, answered>>
    BY <2>4 DEF View!vars
  <2>5. cache' = cache => \/ Write
                          \/ \E t \in Threads : Serve(t)
                          \/ UNCHANGED <<cache, disk, answered>>
    BY DEF Next, vars, Arrive, Acquire, Proceed, Environment, Tick, Call, Lock,
           LockPoisoned, Scan, Finish, BuildFails, Refresh, RefreshBuilt,
           RefreshStore, Panic
  <2> QED
    BY <2>1, <2>2, <2>3, <2>4, <2>5
<1> QED
  BY Invariance, <1>1, <1>2, PTL DEF Spec, RefinesSnapshotView, View!Spec
=============================================================================
