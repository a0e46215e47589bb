--------------------------- MODULE LocationProofs ---------------------------
(***************************************************************************)
(* Proofs about Location, for every set of applications, profiles and      *)
(* sessions and every clock: that the database a session is opened with,   *)
(* and the profile whose cookies are read, were written as recently as any *)
(* when the search began, and that the cookies are of the session's own    *)
(* profile while that is the one in use.                                   *)
(***************************************************************************)
EXTENDS Location, SequenceLemmas

Dirs == Roots \X ToSet(Origins)

Best == [time : 0..MaxTime,
         dir : (Roots \cup {NoPath}) \X (ToSet(Origins) \cup {NoPath})]

Kinds == {"none", "no_db_path", "opened", "db_missing", "cookies", "no_cookies_db"}

\* The types the proofs need, and what a search has found in each phase.
TypeInv ==
  /\ now \in 1..MaxTime /\ written \in [Databases -> 0..now]
  /\ override \in [db : {NoDb} \cup Databases, cookies : {NoDb} \cup NamedCookies]
  /\ pc \in [Sessions -> {"idle", "root", "origin", "cookies"}]
  /\ todo \in [Sessions -> Seq(Dirs)]
  /\ best \in [Sessions -> Best]
  /\ db \in [Sessions -> {NoDb} \cup Databases]
  /\ answer \in [Sessions -> [kind : Kinds, path : Path]]
  /\ began \in [Sessions -> 0..now]
  /\ calm \in [Sessions -> BOOLEAN] /\ own \in [Sessions -> BOOLEAN]
  /\ \A s \in Sessions :
       /\ best[s].time \in 0..now
       /\ best[s].time > 0 => best[s].dir \in Databases
       /\ pc[s] \in {"root", "cookies"} /\ best[s] # None => best[s].time > 0
       /\ pc[s] = "origin" /\ override.db = NoDb =>
            /\ best[s].dir[1] \in Roots
            /\ \A d \in ToSet(todo[s]) : d[1] = best[s].dir[1]

\* What a search must still reach: the time it began at and, once the profile is
\* chosen, any database at all.
Goals(s) == {began[s]} \cup (IF pc[s] = "origin" THEN {1} ELSE {})

\* A session looks for a profile, or in it for a database: no variable names the file.
Seeks(s) == \/ pc[s] = "root" \/ (pc[s] = "cookies" /\ override.cookies = NoDb)
            \/ (pc[s] = "origin" /\ override.db = NoDb)

\* While no database is removed, what a search has found is still as new, and what
\* it must reach is found or ahead of it.
SearchOn(s) ==
  /\ best[s].time > 0 => WrittenAt(best[s].dir) >= best[s].time
  /\ Seeks(s) =>
       \A n \in Goals(s) :
         \/ best[s].time >= n
         \/ \E d \in ToSet(todo[s]) : WrittenAt(d) >= n

\* Profile r is as recent as n (what NewestIn says, without its CHOOSE).
AsRecent(r, n) == n = 0 \/ \E d \in Databases : d[1] = r /\ written[d] >= n

Recent(s) ==
  /\ answer[s].kind = "opened" /\ override.db = NoDb => WrittenAt(answer[s].path) >= began[s]
  /\ answer[s].kind = "cookies" /\ override.cookies = NoDb => AsRecent(answer[s].path[1], began[s])
  /\ answer[s].kind = "no_db_path" => began[s] = 0
  /\ answer[s].kind = "db_missing" => override.db # NoDb

RecentInv == \A s \in Sessions : calm[s] => Recent(s) /\ SearchOn(s)

\* While the session's profile is the one in use, every other is older than the
\* fetch, and only a database of its own can be the one found.
FetchOn(s) ==
  /\ db[s] # NoDb /\ began[s] > 0
  /\ \A d \in Databases : d[1] # db[s][1] => written[d] < began[s]
  /\ best[s].time >= began[s] => best[s].dir[1] = db[s][1]
  /\ \/ best[s].time >= began[s]
     \/ \E d \in ToSet(todo[s]) : d[1] = db[s][1] /\ WrittenAt(d) >= began[s]

OwnCookies(s) ==
  /\ answer[s].kind = "cookies" => answer[s].path[1] = db[s][1]
  /\ answer[s].kind = "no_cookies_db" => Layout[db[s][1]] = "none"

OwnInv == \A s \in Sessions : own[s] /\ override.cookies = NoDb =>
            OwnCookies(s) /\ (pc[s] = "cookies" => FetchOn(s))

\* What a variable names is what is opened, and what is read.
PinnedInv ==
  \A s \in Sessions :
    /\ override.db # NoDb => db[s] \in {NoDb, override.db}
    /\ pc[s] = "cookies" => db[s] # NoDb
    /\ answer[s].kind = "cookies" =>
         db[s] # NoDb /\ (override.cookies # NoDb => answer[s].path = override.cookies)

-----------------------------------------------------------------------------
\* The two origins of a profile.
LEMMA UnderType ==
  ASSUME NEW r \in Roots
  PROVE  Under(r) \in Seq(Dirs) /\ ToSet(Under(r)) = {r} \X ToSet(Origins)
<1>1. DOMAIN Origins = {1, 2} /\ 1..2 = {1, 2}
  BY DEF Origins
<1>2. \A i \in 1..2 : <<r, Origins[i]>> \in Dirs
  BY <1>1 DEF Dirs, ToSet
<1>3. Under(r) \in [1..2 -> Dirs]
  BY <1>1, <1>2 DEF Under
<1>4. Under(r) \in Seq(Dirs)
  BY <1>3, SeqDef
<1>5. ToSet(Under(r)) = {r} \X ToSet(Origins)
  BY <1>1 DEF Under, ToSet
<1> QED
  BY <1>4, <1>5

\* The directories to look at are the two origins of every profile.
LEMMA AllDirsType == AllDirs \in Seq(Dirs) /\ ToSet(AllDirs) = Dirs
<1> DEFINE Apps == ToSet(AppDirs)
           Names == Apps \cup UNION {ToSet(Partitions[a]) \cup ToSet(SubDirs[a]) : a \in Apps}
           Of(a) == Partitions[a] \o SubDirs[a] \o <<a>>
           cs == [i \in DOMAIN AppDirs |-> Of(AppDirs[i])]
<1>1. Candidates \in Seq(Roots)
  <2>1. \A a \in Apps : Of(a) \in Seq(Names)
    <3>1. SUFFICES ASSUME NEW a \in Apps PROVE Of(a) \in Seq(Names)
      OBVIOUS
    <3>2. Partitions[a] \in Seq(Names) /\ SubDirs[a] \in Seq(Names)
      <4>1. ToSet(Partitions[a]) \subseteq Names /\ ToSet(SubDirs[a]) \subseteq Names
        OBVIOUS
      <4> HIDE DEF Names
      <4> QED
        BY <4>1, LocationAssumption, SeqMonotonic
    <3>3. <<a>> \in Seq(Names)
      OBVIOUS
    <3> HIDE DEF Names
    <3> QED
      BY <3>2, <3>3, ConcatProperties
  <2>2. cs \in Seq(Seq(Names))
    <3>1. DOMAIN AppDirs = 1..Len(AppDirs) /\ Len(AppDirs) \in Nat
      BY LocationAssumption, LenProperties
    <3>2. \A i \in DOMAIN AppDirs : AppDirs[i] \in Apps
      BY DEF ToSet
    <3>3. cs \in [1..Len(AppDirs) -> Seq(Names)]
      BY <2>1, <3>1, <3>2
    <3> HIDE DEF Names, cs
    <3> QED
      BY <3>1, <3>3, SeqDef
  <2>3. Candidates = FlattenSeq(cs)
    BY DEF Candidates
  <2> HIDE DEF Names, cs
  <2>4. Candidates \in Seq(Names)
    BY <2>2, <2>3, FlattenElements
  <2> QED
    BY <2>4, SeqOfRange DEF Roots, ToSet, Range
<1> DEFINE ds == [i \in DOMAIN Candidates |-> Under(Candidates[i])]
<1>2. \A r \in Roots : Under(r) \in Seq(Dirs) /\ ToSet(Under(r)) = {r} \X ToSet(Origins)
  BY UnderType
<1>3. ds \in Seq(Seq(Dirs))
  <2>1. DOMAIN Candidates = 1..Len(Candidates) /\ Len(Candidates) \in Nat
    BY <1>1, LenProperties
  <2>2. ds \in [1..Len(Candidates) -> Seq(Dirs)]
    BY <1>1, <1>2, <2>1
  <2> HIDE DEF ds
  <2> QED
    BY <2>1, <2>2, SeqDef
<1>4. AllDirs = FlattenSeq(ds)
  BY DEF AllDirs
<1>5. UNION {ToSet(ds[i]) : i \in DOMAIN ds} = Dirs
  <2>1. DOMAIN ds = DOMAIN Candidates
    OBVIOUS
  <2>2. \A i \in DOMAIN Candidates : Candidates[i] \in Roots
                                     /\ ToSet(ds[i]) = {Candidates[i]} \X ToSet(Origins)
    BY <1>2 DEF Roots, ToSet
  <2>3. \A r \in Roots : \E i \in DOMAIN Candidates : Candidates[i] = r
    BY DEF Roots, ToSet
  <2> HIDE DEF ds
  <2> QED
    BY <2>1, <2>2, <2>3 DEF Dirs
<1> QED
  <2> HIDE DEF ds
  <2> QED
    BY <1>3, <1>4, <1>5, FlattenElements

-----------------------------------------------------------------------------
\* No database is no database, and nothing found is a possible find.
LEMMA NoneType ==
  /\ None \in Best /\ None.time = 0 /\ NoDb \notin Databases
  /\ Databases \subseteq Dirs /\ NoDb \in Path /\ Databases \subseteq Path
  /\ NoDb \notin NamedCookies /\ NamedCookies \subseteq Path
<1>1. None \in Best /\ None.time = 0
  BY LocationAssumption DEF None, Best
<1>2. NoDb \notin Databases /\ Databases \subseteq Dirs
  BY LocationAssumption DEF NoDb, None, Dirs
<1>3. NoDb \in Path /\ Databases \subseteq Path /\ NamedCookies \subseteq Path
  BY LocationAssumption DEF Path
<1>4. NoDb \notin NamedCookies
  BY LocationAssumption DEF NoDb, None
<1> QED
  BY <1>1, <1>2, <1>3, <1>4

\* Times are times, and only a database has been written.
LEMMA WrittenType ==
  ASSUME written \in [Databases -> 0..now], now \in 1..MaxTime, NEW d
  PROVE  /\ WrittenAt(d) \in 0..now /\ WrittenAt(d) \in Nat
         /\ WrittenAt(d) > 0 => d \in Databases
BY LocationAssumption DEF WrittenAt

\* The newest time there is.
LEMMA NewestTimeIs ==
  written \in [Databases -> 0..now] /\ now \in 1..MaxTime =>
    /\ NewestTime \in 0..now
    /\ \A d \in Databases : written[d] <= NewestTime
    /\ NewestTime > 0 => \E d \in Databases : written[d] = NewestTime
<1> SUFFICES ASSUME written \in [Databases -> 0..now], now \in 1..MaxTime
             PROVE  /\ NewestTime \in 0..now
                    /\ \A d \in Databases : written[d] <= NewestTime
                    /\ NewestTime > 0 => \E d \in Databases : written[d] = NewestTime
  OBVIOUS
<1> DEFINE T == {written[d] : d \in Databases} \cup {0}
<1>1. now \in Nat /\ now <= MaxTime /\ MaxTime \in Nat
  BY LocationAssumption
<1>2. T \in SUBSET (0..now) /\ T # {}
  BY <1>1
<1>3. PICK m \in T : \A n \in T : n <= m
  <2> HIDE DEF T
  <2> QED
    BY <1>1, <1>2, GreatestNat
<1>4. /\ m \in 0..MaxTime /\ \A d \in Databases : written[d] <= m
      /\ m = 0 \/ \E d \in Databases : written[d] = m
  BY <1>1, <1>2, <1>3
<1>5. /\ NewestTime \in 0..MaxTime /\ \A d \in Databases : written[d] <= NewestTime
      /\ NewestTime = 0 \/ \E d \in Databases : written[d] = NewestTime
  BY <1>4 DEF NewestTime
<1> QED
  BY <1>1, <1>5

\* When a profile was written last.
LEMMA NewestInIs ==
  written \in [Databases -> 0..now] /\ now \in 1..MaxTime =>
    \A r :
      /\ NewestIn(r) \in 0..now
      /\ \A d \in Databases : d[1] = r => written[d] <= NewestIn(r)
      /\ NewestIn(r) > 0 => \E d \in Databases : d[1] = r /\ written[d] = NewestIn(r)
<1> SUFFICES ASSUME written \in [Databases -> 0..now], now \in 1..MaxTime, NEW r
             PROVE  /\ NewestIn(r) \in 0..now
                    /\ \A d \in Databases : d[1] = r => written[d] <= NewestIn(r)
                    /\ NewestIn(r) > 0 =>
                         \E d \in Databases : d[1] = r /\ written[d] = NewestIn(r)
  OBVIOUS
<1> DEFINE T == {WrittenAt(Under(r)[i]) : i \in DOMAIN Origins}
<1>1. now \in Nat
  BY LocationAssumption
<1>2. DOMAIN Origins = {1, 2}
  BY DEF Origins
<1>3. T \in SUBSET (0..now) /\ T # {}
  BY <1>2, WrittenType
<1>4. NewestIn(r) \in T /\ \A k \in T : k <= NewestIn(r)
  <2>1. NewestIn(r) = CHOOSE n \in T : \A k \in T : k <= n
    BY DEF NewestIn
  <2> HIDE DEF T
  <2> QED
    BY <1>1, <1>3, <2>1, ChooseGreatest
<1>5. ASSUME NEW d \in Databases, d[1] = r PROVE written[d] <= NewestIn(r)
  <2>1. PICK i \in DOMAIN Origins : d = <<r, Origins[i]>>
    BY <1>5, LocationAssumption DEF ToSet
  <2>2. Under(r)[i] = d
    BY <2>1 DEF Under
  <2>3. WrittenAt(d) = written[d]
    BY DEF WrittenAt
  <2> QED
    BY <1>4, <2>2, <2>3
<1>6. ASSUME NewestIn(r) > 0
      PROVE  \E d \in Databases : d[1] = r /\ written[d] = NewestIn(r)
  <2>1. PICK i \in DOMAIN Origins : NewestIn(r) = WrittenAt(Under(r)[i])
    BY <1>4
  <2>2. Under(r)[i][1] = r
    BY DEF Under
  <2>3. Under(r)[i] \in Databases
    BY <1>6, <2>1, WrittenType
  <2> QED
    BY <2>1, <2>2, <2>3 DEF WrittenAt
<1> QED
  BY <1>3, <1>4, <1>5, <1>6

-----------------------------------------------------------------------------
\* What one look makes of the best find.
Better(b, d) == IF WrittenAt(d) > b.time THEN [time |-> WrittenAt(d), dir |-> d] ELSE b

\* What is kept for each session.
LEMMA PerSession ==
  ASSUME TypeInv
  PROVE  /\ pc = [s \in Sessions |-> pc[s]] /\ todo = [s \in Sessions |-> todo[s]]
         /\ best = [s \in Sessions |-> best[s]] /\ db = [s \in Sessions |-> db[s]]
         /\ answer = [s \in Sessions |-> answer[s]] /\ began = [s \in Sessions |-> began[s]]
         /\ calm = [s \in Sessions |-> calm[s]] /\ own = [s \in Sessions |-> own[s]]
BY DEF TypeInv

LEMMA LookEffect ==
  ASSUME TypeInv, NEW s \in Sessions, Look(s)
  PROVE  /\ todo[s] \in Seq(Dirs) /\ todo[s] # <<>>
         /\ Head(todo[s]) \in Dirs /\ Tail(todo[s]) \in Seq(Dirs)
         /\ ToSet(todo[s]) = {Head(todo[s])} \cup ToSet(Tail(todo[s]))
         /\ best' = [best EXCEPT ![s] = Better(best[s], Head(todo[s]))]
         /\ todo' = [todo EXCEPT ![s] = Tail(todo[s])]
         /\ UNCHANGED <<now, written, override, pc, db, answer, began, calm, own>>
<1>1. todo[s] \in Seq(Dirs) /\ todo[s] # <<>>
  BY DEF TypeInv, Look
<1>2. /\ Head(todo[s]) \in Dirs /\ Tail(todo[s]) \in Seq(Dirs)
      /\ ToSet(todo[s]) = {Head(todo[s])} \cup ToSet(Tail(todo[s]))
  BY <1>1, HeadAndTail
<1>3. best' = [best EXCEPT ![s] = Better(best[s], Head(todo[s]))]
  BY DEF TypeInv, Look, Better
<1> QED
  BY <1>1, <1>2, <1>3 DEF Look

\* A find is of a database, or there was none.
LEMMA BetterType ==
  ASSUME TypeInv, NEW s \in Sessions, NEW d \in Dirs
  PROVE  /\ Better(best[s], d) \in Best
         /\ Better(best[s], d).time \in 0..now
         /\ Better(best[s], d).time >= best[s].time
         /\ Better(best[s], d).time >= WrittenAt(d)
         /\ Better(best[s], d).time > 0 => Better(best[s], d).dir \in Databases
         /\ \/ Better(best[s], d) = best[s]
            \/ /\ Better(best[s], d).dir = d /\ Better(best[s], d).time = WrittenAt(d)
               /\ WrittenAt(d) > 0
<1>1. WrittenAt(d) \in 0..now /\ now \in 1..MaxTime /\ (WrittenAt(d) > 0 => d \in Databases)
  BY WrittenType DEF TypeInv
<1>2. best[s] \in Best /\ best[s].time \in 0..now /\ MaxTime \in Nat
      /\ (best[s].time > 0 => best[s].dir \in Databases)
  BY LocationAssumption DEF TypeInv
<1>3. CASE WrittenAt(d) > best[s].time
  <2>1. Better(best[s], d) = [time |-> WrittenAt(d), dir |-> d]
    BY <1>3 DEF Better
  <2>2. WrittenAt(d) > 0
    BY <1>1, <1>2, <1>3
  <2>3. [time |-> WrittenAt(d), dir |-> d] \in Best
    BY <1>1, <1>2 DEF Best, Dirs
  <2> QED
    BY <1>1, <1>2, <1>3, <2>1, <2>2, <2>3
<1>4. CASE ~(WrittenAt(d) > best[s].time)
  <2>1. Better(best[s], d) = best[s]
    BY <1>4 DEF Better
  <2> QED
    BY <1>1, <1>2, <1>4, <2>1
<1> QED
  BY <1>3, <1>4

\* The path a session is opened with is a path.
LEMMA ChosenType ==
  ASSUME TypeInv, NEW s \in Sessions, pc[s] = "origin"
  PROVE  /\ Chosen(s) \in Path
         /\ WrittenAt(Chosen(s)) > 0 => Chosen(s) \in Databases
         /\ override.db = NoDb /\ best[s].time > 0 => Chosen(s) = best[s].dir
<1>1. override.db # NoDb => override.db \in Databases
  BY DEF TypeInv
<1>2. override.db = NoDb /\ best[s].time = 0 => <<best[s].dir[1], Origins[2]>> \in Path
  <2>1. Origins[2] \in ToSet(Origins)
    BY DEF Origins, ToSet
  <2> QED
    BY <2>1 DEF TypeInv, Path
<1>3. best[s].time \in Nat /\ (best[s].time > 0 => best[s].dir \in Databases)
  BY LocationAssumption DEF TypeInv
<1>4. Chosen(s) \in Path
  BY <1>1, <1>2, <1>3, NoneType DEF Chosen
<1>5. WrittenAt(Chosen(s)) > 0 => Chosen(s) \in Databases
  BY WrittenType DEF TypeInv
<1>6. override.db = NoDb /\ best[s].time > 0 => Chosen(s) = best[s].dir
  BY <1>3 DEF Chosen
<1> QED
  BY <1>4, <1>5, <1>6

\* The cookies that are read: the file that is named, or of the profile found.
LEMMA FoundType ==
  ASSUME TypeInv, NEW s \in Sessions, pc[s] = "cookies", Exists(CookiesPath(s))
  PROVE  /\ CookiesPath(s) \in Path
         /\ override.cookies # NoDb => CookiesPath(s) = override.cookies
         /\ override.cookies = NoDb =>
              /\ CookiesPath(s)[1] = best[s].dir[1]
              /\ best[s].time > 0 /\ best[s].dir \in Databases
<1>1. CASE override.cookies # NoDb
  <2>1. CookiesPath(s) = override.cookies
    BY <1>1 DEF CookiesPath
  <2>2. override.cookies \in NamedCookies
    BY <1>1 DEF TypeInv
  <2> QED
    BY <1>1, <2>1, <2>2, NoneType
<1>2. CASE override.cookies = NoDb
  <2>1. best[s] # None /\ CookiesPath(s) = CookiesOf(best[s].dir[1])
    BY <1>2 DEF CookiesPath, Exists
  <2>2. best[s].time > 0 /\ best[s].dir \in Databases
    BY <2>1 DEF TypeInv
  <2>3. best[s].dir[1] \in Roots
    BY <2>2, NoneType DEF Dirs
  <2>4. CookiesOf(best[s].dir[1]) \in Path /\ CookiesOf(best[s].dir[1])[1] = best[s].dir[1]
    BY <2>3 DEF CookiesOf, CookieFiles, Path
  <2> QED
    BY <1>2, <2>1, <2>2, <2>4
<1> QED
  BY <1>1, <1>2

\* A session's search begins.
LEMMA BeginEffect ==
  ASSUME TypeInv, NEW s \in Sessions, Open(s) \/ Fetch(s)
  PROVE  /\ best' = [best EXCEPT ![s] = None]
         /\ began' = [began EXCEPT ![s] = NewestTime] /\ NewestTime \in 0..now
         /\ calm' = [calm EXCEPT ![s] = TRUE]
         /\ own' = [own EXCEPT ![s] = db[s] # NoDb /\ OnlyNewest(db[s][1])]
         /\ answer' = [answer EXCEPT ![s] = Result("none", NoDb)]
         /\ UNCHANGED <<now, written, override, db>>
         /\ \E label \in {"root", "cookies", "origin"} :
              /\ pc' = [pc EXCEPT ![s] = label]
              /\ label = "origin" => override.db # NoDb /\ todo' = [todo EXCEPT ![s] = <<>>]
              /\ label = "cookies" /\ override.cookies # NoDb =>
                   todo' = [todo EXCEPT ![s] = <<>>]
              /\ label = "root" \/ (label = "cookies" /\ override.cookies = NoDb) =>
                   todo' = [todo EXCEPT ![s] = AllDirs]
              /\ label = "cookies" <=> db[s] # NoDb
<1>1. NewestTime \in 0..now
  BY NewestTimeIs DEF TypeInv
<1>2. CASE Open(s)
  BY <1>1, <1>2 DEF Open, Start, Remember
<1>3. CASE Fetch(s)
  BY <1>1, <1>3 DEF Fetch, Start, Remember
<1> QED
  BY <1>2, <1>3

\* What ends a search, or a session.
Ends(s) == NoDbPath(s) \/ Opened(s) \/ DbMissing(s) \/ CookiesFound(s) \/ Close(s)

LEMMA EndEffect ==
  ASSUME TypeInv, NEW s \in Sessions, Ends(s)
  PROVE  /\ pc' = [pc EXCEPT ![s] = "idle"] /\ todo' = [todo EXCEPT ![s] = <<>>]
         /\ best' = [best EXCEPT ![s] = None]
         /\ UNCHANGED <<now, written, override, began, calm, own>>
         /\ \E a \in [kind : Kinds, path : Path], d \in {NoDb} \cup Databases :
              answer' = [answer EXCEPT ![s] = a] /\ db' = [db EXCEPT ![s] = d]
<1> DEFINE Answered == \E a \in [kind : Kinds, path : Path], d \in {NoDb} \cup Databases :
                         answer' = [answer EXCEPT ![s] = a] /\ db' = [db EXCEPT ![s] = d]
<1>1. db[s] \in {NoDb} \cup Databases /\ [db EXCEPT ![s] = db[s]] = db
  BY DEF TypeInv
<1>2. ASSUME NoDbPath(s) PROVE Answered
  <2>1. answer' = [answer EXCEPT ![s] = Result("no_db_path", NoDb)] /\ db' = db
    BY <1>2 DEF NoDbPath, Return
  <2>2. Result("no_db_path", NoDb) \in [kind : Kinds, path : Path]
    BY NoneType DEF Result, Kinds
  <2> QED
    BY <1>1, <2>1, <2>2
<1>3. ASSUME Opened(s) PROVE Answered
  <2>1. /\ answer' = [answer EXCEPT ![s] = Result("opened", Chosen(s))]
        /\ db' = [db EXCEPT ![s] = Chosen(s)]
    BY <1>3 DEF Opened, Return
  <2>2. Chosen(s) \in Path /\ Chosen(s) \in Databases
    BY <1>3, ChosenType DEF Opened
  <2>3. Result("opened", Chosen(s)) \in [kind : Kinds, path : Path]
    BY <2>2 DEF Result, Kinds
  <2> QED
    BY <2>1, <2>2, <2>3
<1>4. ASSUME DbMissing(s) PROVE Answered
  <2>1. answer' = [answer EXCEPT ![s] = Result("db_missing", Chosen(s))] /\ db' = db
    BY <1>4 DEF DbMissing, Return
  <2>2. Chosen(s) \in Path
    BY <1>4, ChosenType DEF DbMissing
  <2>3. Result("db_missing", Chosen(s)) \in [kind : Kinds, path : Path]
    BY <2>2 DEF Result, Kinds
  <2> QED
    BY <1>1, <2>1, <2>3
<1>5. ASSUME CookiesFound(s) PROVE Answered
  <2>1. CASE ~Exists(CookiesPath(s))
    <3>1. answer' = [answer EXCEPT ![s] = Result("no_cookies_db", NoDb)] /\ db' = db
      BY <1>5, <2>1 DEF CookiesFound, Return
    <3>2. Result("no_cookies_db", NoDb) \in [kind : Kinds, path : Path]
      BY NoneType DEF Result, Kinds
    <3> QED
      BY <1>1, <3>1, <3>2
  <2>2. CASE Exists(CookiesPath(s))
    <3>1. answer' = [answer EXCEPT ![s] = Result("cookies", CookiesPath(s))] /\ db' = db
      BY <1>5, <2>2 DEF CookiesFound, Return
    <3>2. CookiesPath(s) \in Path
      BY <1>5, <2>2, FoundType DEF CookiesFound
    <3>3. Result("cookies", CookiesPath(s)) \in [kind : Kinds, path : Path]
      BY <3>2 DEF Result, Kinds
    <3> QED
      BY <1>1, <3>1, <3>3
  <2> QED
    BY <2>1, <2>2
<1>6. ASSUME Close(s) PROVE Answered
  <2>1. answer' = [answer EXCEPT ![s] = Result("none", NoDb)] /\ db' = [db EXCEPT ![s] = NoDb]
    BY <1>6 DEF Close, Return
  <2>2. Result("none", NoDb) \in [kind : Kinds, path : Path]
    BY NoneType DEF Result, Kinds
  <2> QED
    BY <2>1, <2>2
<1>7. Answered
  BY <1>2, <1>3, <1>4, <1>5, <1>6 DEF Ends
<1>8. /\ pc' = [pc EXCEPT ![s] = "idle"] /\ todo' = [todo EXCEPT ![s] = <<>>]
      /\ best' = [best EXCEPT ![s] = None]
      /\ UNCHANGED <<now, written, override, began, calm, own>>
  BY DEF Ends, NoDbPath, Opened, DbMissing, CookiesFound, Close, Return, Start
<1> QED
  BY <1>7, <1>8

\* The steps of a session, grouped by what they do to the others' state: nothing.
SessionStep(s) ==
  Open(s) \/ Fetch(s) \/ Look(s) \/ RootFound(s) \/ Ends(s)

LEMMA StepCases ==
  [Next]_vars =>
    \/ UNCHANGED vars \/ Tick
    \/ \E d \in Databases : WriteDb(d) \/ RemoveDb(d)
    \/ \E s \in Sessions : SessionStep(s)
BY DEF Next, SessionStep, Ends

LEMMA RootFoundEffect ==
  ASSUME TypeInv, NEW s \in Sessions, RootFound(s)
  PROVE  /\ best[s].time > 0 /\ best[s].dir \in Databases /\ best[s].dir[1] \in Roots
         /\ pc' = [pc EXCEPT ![s] = "origin"]
         /\ todo' = [todo EXCEPT ![s] = Under(best[s].dir[1])]
         /\ Under(best[s].dir[1]) \in Seq(Dirs)
         /\ ToSet(Under(best[s].dir[1])) = {best[s].dir[1]} \X ToSet(Origins)
         /\ best' = [best EXCEPT ![s] = [time |-> 0, dir |-> <<best[s].dir[1], NoPath>>]]
         /\ UNCHANGED <<now, written, override, db, answer, began, calm, own>>
<1>1. best[s].time > 0 /\ best[s].dir \in Databases
  BY DEF TypeInv, RootFound
<1>2. best[s].dir[1] \in Roots
  BY <1>1, NoneType DEF Dirs
<1>3. \A d : [None EXCEPT !.dir = d] = [time |-> 0, dir |-> d]
  BY DEF None
<1>4. best' = [best EXCEPT ![s] = [time |-> 0, dir |-> <<best[s].dir[1], NoPath>>]]
  BY <1>3 DEF RootFound
<1> QED
  BY <1>1, <1>2, <1>4, UnderType DEF RootFound

LEMMA TypeInit == Init => TypeInv
<1> SUFFICES ASSUME Init PROVE TypeInv
  OBVIOUS
<1>1. now \in 1..MaxTime /\ written \in [Databases -> 0..now]
  BY LocationAssumption DEF Init
<1>2. answer \in [Sessions -> [kind : Kinds, path : Path]]
  BY NoneType DEF Init, Result, Kinds
<1>3. todo \in [Sessions -> Seq(Dirs)] /\ best \in [Sessions -> Best]
      /\ db \in [Sessions -> {NoDb} \cup Databases]
  BY NoneType DEF Init
<1>4. \A s \in Sessions : best[s] = None /\ pc[s] = "idle"
  BY DEF Init
<1> QED
  BY <1>1, <1>2, <1>3, <1>4, NoneType DEF Init, TypeInv

LEMMA TypeStep == TypeInv /\ [Next]_vars => TypeInv'
<1> SUFFICES ASSUME TypeInv, [Next]_vars PROVE TypeInv'
  OBVIOUS
<1> USE LocationAssumption
<1>1. CASE UNCHANGED vars
  BY <1>1 DEF TypeInv, vars, NoDb, Chosen
<1>2. CASE Tick
  BY <1>2 DEF TypeInv, Tick
<1>3. ASSUME NEW d \in Databases, WriteDb(d) PROVE TypeInv'
  BY <1>3 DEF TypeInv, WriteDb
<1>4. ASSUME NEW d \in Databases, RemoveDb(d) PROVE TypeInv'
  BY <1>4 DEF TypeInv, RemoveDb
<1>5. ASSUME NEW s \in Sessions, Open(s) \/ Fetch(s) PROVE TypeInv'
  <2>1. PICK label \in {"root", "cookies", "origin"} :
          /\ pc' = [pc EXCEPT ![s] = label]
          /\ label = "origin" => override.db # NoDb
          /\ \/ todo' = [todo EXCEPT ![s] = <<>>]
             \/ todo' = [todo EXCEPT ![s] = AllDirs]
    BY <1>5, BeginEffect
  <2>2. /\ best' = [best EXCEPT ![s] = None]
        /\ began' = [began EXCEPT ![s] = NewestTime] /\ NewestTime \in 0..now
        /\ calm' = [calm EXCEPT ![s] = TRUE]
        /\ own' = [own EXCEPT ![s] = db[s] # NoDb /\ OnlyNewest(db[s][1])]
        /\ answer' = [answer EXCEPT ![s] = Result("none", NoDb)]
        /\ UNCHANGED <<now, written, override, db>>
    BY <1>5, BeginEffect
  <2>3. best' \in [Sessions -> Best] /\ todo' \in [Sessions -> Seq(Dirs)]
    <3>1. \A q \in Seq(Dirs) : [todo EXCEPT ![s] = q] \in [Sessions -> Seq(Dirs)]
      BY DEF TypeInv
    <3>2. <<>> \in Seq(Dirs) /\ AllDirs \in Seq(Dirs)
      BY AllDirsType, EmptySeq
    <3>3. todo' = [todo EXCEPT ![s] = <<>>] \/ todo' = [todo EXCEPT ![s] = AllDirs]
      BY <2>1
    <3>4. best' \in [Sessions -> Best]
      BY <2>2, NoneType DEF TypeInv
    <3> QED
      BY <3>1, <3>2, <3>3, <3>4
  <2>4. answer' \in [Sessions -> [kind : Kinds, path : Path]]
    BY <2>2, NoneType DEF TypeInv, Result, Kinds
  <2>5. own' \in [Sessions -> BOOLEAN]
    <3>1. (db[s] # NoDb /\ OnlyNewest(db[s][1])) \in BOOLEAN
      OBVIOUS
    <3> QED
      BY <2>2, <3>1 DEF TypeInv
  <2>6. /\ began' \in [Sessions -> 0..now'] /\ calm' \in [Sessions -> BOOLEAN]
        /\ pc' \in [Sessions -> {"idle", "root", "origin", "cookies"}]
    BY <2>1, <2>2 DEF TypeInv
  <2>7. ASSUME NEW t \in Sessions
        PROVE  /\ best'[t].time \in 0..now'
               /\ best'[t].time > 0 => best'[t].dir \in Databases
               /\ pc'[t] \in {"root", "cookies"} /\ best'[t] # None => best'[t].time > 0
               /\ pc'[t] = "origin" /\ override'.db = NoDb =>
                    /\ best'[t].dir[1] \in Roots
                    /\ \A d \in ToSet(todo'[t]) : d[1] = best'[t].dir[1]
    <3>1. CASE t = s
      <4>1. best'[t] = None /\ (pc'[t] = "origin" => override.db # NoDb)
        BY <2>1, <2>2, <3>1 DEF TypeInv
      <4> QED
        BY <2>2, <4>1, NoneType DEF TypeInv
    <3>2. CASE t # s
      <4>1. best'[t] = best[t] /\ pc'[t] = pc[t] /\ todo'[t] = todo[t]
        BY <2>1, <2>2, <3>2 DEF TypeInv
      <4> QED
        BY <2>2, <4>1 DEF TypeInv
    <3> QED
      BY <3>1, <3>2
  <2> QED
    BY <2>2, <2>3, <2>4, <2>5, <2>6, <2>7 DEF TypeInv
<1>6. ASSUME NEW s \in Sessions, Look(s) PROVE TypeInv'
  <2> DEFINE d == Head(todo[s])
  <2>1. /\ todo[s] \in Seq(Dirs) /\ d \in Dirs /\ Tail(todo[s]) \in Seq(Dirs)
        /\ ToSet(todo[s]) = {d} \cup ToSet(Tail(todo[s]))
        /\ best' = [best EXCEPT ![s] = Better(best[s], d)]
        /\ todo' = [todo EXCEPT ![s] = Tail(todo[s])]
        /\ UNCHANGED <<now, written, override, pc, db, answer, began, calm, own>>
    BY <1>6, LookEffect
  <2> HIDE DEF d
  <2>2. /\ Better(best[s], d) \in Best /\ Better(best[s], d).time \in 0..now
        /\ Better(best[s], d).time > 0 => Better(best[s], d).dir \in Databases
        /\ \/ Better(best[s], d) = best[s]
           \/ Better(best[s], d).dir = d /\ Better(best[s], d).time > 0
    BY <2>1, BetterType
  <2>3. best' \in [Sessions -> Best] /\ todo' \in [Sessions -> Seq(Dirs)]
    BY <2>1, <2>2 DEF TypeInv
  <2>4. ASSUME NEW t \in Sessions
        PROVE  /\ best'[t].time \in 0..now
               /\ best'[t].time > 0 => best'[t].dir \in Databases
               /\ pc[t] \in {"root", "cookies"} /\ best'[t] # None => best'[t].time > 0
               /\ pc[t] = "origin" /\ override.db = NoDb =>
                    /\ best'[t].dir[1] \in Roots
                    /\ \A e \in ToSet(todo'[t]) : e[1] = best'[t].dir[1]
    <3>1. CASE t = s
      <4>1. best'[t] = Better(best[s], d) /\ todo'[t] = Tail(todo[s])
        BY <2>1, <3>1 DEF TypeInv
      <4>2. pc[t] = "origin" /\ override.db = NoDb =>
              /\ best[s].dir[1] \in Roots /\ d[1] = best[s].dir[1]
              /\ \A e \in ToSet(Tail(todo[s])) : e[1] = best[s].dir[1]
        BY <2>1, <3>1 DEF TypeInv
      <4>3. pc[t] \in {"root", "cookies"} /\ best[s] # None => best[s].time > 0
        BY <3>1 DEF TypeInv
      <4>4. CASE Better(best[s], d) = best[s]
        BY <2>2, <4>1, <4>2, <4>3, <4>4
      <4>5. CASE Better(best[s], d).dir = d /\ Better(best[s], d).time > 0
        BY <2>2, <4>1, <4>2, <4>5
      <4> QED
        BY <2>2, <4>4, <4>5
    <3>2. CASE t # s
      <4>1. best'[t] = best[t] /\ todo'[t] = todo[t]
        BY <2>1, <3>2 DEF TypeInv
      <4> QED
        BY <2>1, <4>1 DEF TypeInv
    <3> QED
      BY <3>1, <3>2
  <2> QED
    BY <2>1, <2>3, <2>4 DEF TypeInv
<1>7. ASSUME NEW s \in Sessions, RootFound(s) PROVE TypeInv'
  <2> DEFINE r == best[s].dir[1]
             b == [time |-> 0, dir |-> <<r, NoPath>>]
  <2>1. /\ r \in Roots /\ pc' = [pc EXCEPT ![s] = "origin"]
        /\ todo' = [todo EXCEPT ![s] = Under(r)] /\ Under(r) \in Seq(Dirs)
        /\ ToSet(Under(r)) = {r} \X ToSet(Origins)
        /\ best' = [best EXCEPT ![s] = b]
        /\ UNCHANGED <<now, written, override, db, answer, began, calm, own>>
    BY <1>7, RootFoundEffect
  <2>2. b \in Best /\ b.time = 0 /\ b.dir[1] = r
    BY <2>1 DEF Best
  <2> HIDE DEF r, b
  <2>3. /\ best' \in [Sessions -> Best] /\ todo' \in [Sessions -> Seq(Dirs)]
        /\ pc' \in [Sessions -> {"idle", "root", "origin", "cookies"}]
    BY <2>1, <2>2 DEF TypeInv
  <2>4. ASSUME NEW t \in Sessions
        PROVE  /\ best'[t].time \in 0..now
               /\ best'[t].time > 0 => best'[t].dir \in Databases
               /\ pc'[t] \in {"root", "cookies"} /\ best'[t] # None => best'[t].time > 0
               /\ pc'[t] = "origin" /\ override.db = NoDb =>
                    /\ best'[t].dir[1] \in Roots
                    /\ \A e \in ToSet(todo'[t]) : e[1] = best'[t].dir[1]
    <3>1. CASE t = s
      <4>1. best'[t] = b /\ todo'[t] = Under(r) /\ pc'[t] = "origin"
        BY <2>1, <3>1 DEF TypeInv
      <4>2. \A e \in ToSet(Under(r)) : e[1] = r
        BY <2>1
      <4> QED
        BY <2>1, <2>2, <4>1, <4>2 DEF TypeInv
    <3>2. CASE t # s
      <4>1. best'[t] = best[t] /\ todo'[t] = todo[t] /\ pc'[t] = pc[t]
        BY <2>1, <3>2 DEF TypeInv
      <4> QED
        BY <4>1 DEF TypeInv
    <3> QED
      BY <3>1, <3>2
  <2> QED
    BY <2>1, <2>3, <2>4 DEF TypeInv
<1>8. ASSUME NEW s \in Sessions, Ends(s) PROVE TypeInv'
  <2>1. PICK a \in [kind : Kinds, path : Path], d \in {NoDb} \cup Databases :
          answer' = [answer EXCEPT ![s] = a] /\ db' = [db EXCEPT ![s] = d]
    BY <1>8, EndEffect
  <2>2. /\ pc' = [pc EXCEPT ![s] = "idle"] /\ todo' = [todo EXCEPT ![s] = <<>>]
        /\ best' = [best EXCEPT ![s] = None]
        /\ UNCHANGED <<now, written, override, began, calm, own>>
    BY <1>8, EndEffect
  <2>3. /\ best' \in [Sessions -> Best] /\ todo' \in [Sessions -> Seq(Dirs)]
        /\ pc' \in [Sessions -> {"idle", "root", "origin", "cookies"}]
        /\ answer' \in [Sessions -> [kind : Kinds, path : Path]]
        /\ db' \in [Sessions -> {NoDb} \cup Databases]
    BY <2>1, <2>2, NoneType DEF TypeInv
  <2>4. ASSUME NEW t \in Sessions
        PROVE  /\ best'[t].time \in 0..now
               /\ best'[t].time > 0 => best'[t].dir \in Databases
               /\ pc'[t] \in {"root", "cookies"} /\ best'[t] # None => best'[t].time > 0
               /\ pc'[t] = "origin" /\ override.db = NoDb =>
                    /\ best'[t].dir[1] \in Roots
                    /\ \A e \in ToSet(todo'[t]) : e[1] = best'[t].dir[1]
    <3>1. CASE t = s
      <4>1. best'[t] = None /\ pc'[t] = "idle"
        BY <2>2, <3>1 DEF TypeInv
      <4> QED
        BY <4>1, NoneType DEF TypeInv
    <3>2. CASE t # s
      <4>1. best'[t] = best[t] /\ todo'[t] = todo[t] /\ pc'[t] = pc[t]
        BY <2>2, <3>2 DEF TypeInv
      <4> QED
        BY <4>1 DEF TypeInv
    <3> QED
      BY <3>1, <3>2
  <2> QED
    BY <2>2, <2>3, <2>4 DEF TypeInv
<1> QED
  BY <1>1, <1>2, <1>3, <1>4, <1>5, <1>6, <1>7, <1>8, StepCases DEF SessionStep

LEMMA TypeSuffices == TypeInv => TypeOK
<1> SUFFICES ASSUME TypeInv PROVE TypeOK
  OBVIOUS
<1>1. \A s \in Sessions : ToSet(todo[s]) \subseteq ToSet(AllDirs)
  <2>1. \A s \in Sessions : todo[s] \in Seq(Dirs)
    BY DEF TypeInv
  <2> QED
    BY <2>1, RangeOfSeq, AllDirsType DEF ToSet, Range
<1>2. \A s \in Sessions : best[s].dir[1] \in Roots \cup {NoPath} /\ answer[s].path \in Path
                          /\ db[s] \in {NoDb} \cup Databases /\ began[s] \in 0..now
  BY DEF TypeInv, Best
<1> QED
  BY <1>1, <1>2 DEF TypeInv, TypeOK

-----------------------------------------------------------------------------
\* The part of session t in the state.
Same(t) ==
  /\ pc'[t] = pc[t] /\ todo'[t] = todo[t] /\ best'[t] = best[t]
  /\ answer'[t] = answer[t] /\ began'[t] = began[t] /\ override' = override

\* Where every database only grows, so does all that is known of them.
LEMMA RecentStays ==
  ASSUME TypeInv, TypeInv', RecentInv, \A d \in Databases : written[d] <= written'[d],
         NEW t \in Sessions, calm[t], Same(t)
  PROVE  (Recent(t) /\ SearchOn(t))'
<1>1. Recent(t) /\ SearchOn(t)
  BY DEF RecentInv
<1>2. began[t] \in Nat /\ best[t].time \in Nat
  BY LocationAssumption DEF TypeInv
<1>3. \A d \in Databases : written[d] \in Nat /\ written'[d] \in Nat
  BY LocationAssumption DEF TypeInv
<1>4. \A d \in Databases, n \in Nat : written[d] >= n => written'[d] >= n
  BY <1>3
<1>5. Recent(t)'
  <2>1. answer[t].kind = "opened" /\ override.db = NoDb =>
          (IF answer[t].path \in Databases THEN written'[answer[t].path] ELSE 0) >= began[t]
    BY <1>1, <1>2, <1>4 DEF Recent, WrittenAt
  <2>2. answer[t].kind = "cookies" /\ override.cookies = NoDb =>
          \/ began[t] = 0
          \/ \E d \in Databases : d[1] = answer[t].path[1] /\ written'[d] >= began[t]
    BY <1>1, <1>2, <1>4 DEF Recent, AsRecent
  <2>3. /\ answer[t].kind = "no_db_path" => began[t] = 0
        /\ answer[t].kind = "db_missing" => override.db # NoDb
    BY <1>1 DEF Recent
  <2> QED
    BY <2>1, <2>2, <2>3 DEF Recent, AsRecent, WrittenAt, Same
<1>6. SearchOn(t)'
  <2>1. Goals(t)' = Goals(t)
    BY DEF Goals, Same
  <2>2. best[t].time > 0 =>
          (IF best[t].dir \in Databases THEN written'[best[t].dir] ELSE 0) >= best[t].time
    BY <1>1, <1>2, <1>4 DEF SearchOn, WrittenAt
  <2>3. \A n \in Goals(t) : n \in Nat
    BY <1>2 DEF Goals
  <2>4. \A n \in Goals(t), d \in ToSet(todo[t]) :
          WrittenAt(d) >= n => (IF d \in Databases THEN written'[d] ELSE 0) >= n
    BY <1>4, <2>3 DEF WrittenAt
  <2>5. Seeks(t) =>
          \A n \in Goals(t) :
            \/ best[t].time >= n
            \/ \E d \in ToSet(todo[t]) : (IF d \in Databases THEN written'[d] ELSE 0) >= n
    BY <1>1, <2>4 DEF SearchOn
  <2> QED
    BY <2>1, <2>2, <2>5 DEF SearchOn, Seeks, Same, WrittenAt
<1> QED
  BY <1>5, <1>6

\* What a search that is at its end has found.
LEMMA SearchEnds ==
  ASSUME RecentInv, NEW s \in Sessions, calm[s], todo[s] = <<>>, Seeks(s)
  PROVE  /\ \A n \in Goals(s) : best[s].time >= n
         /\ best[s].time > 0 => WrittenAt(best[s].dir) >= best[s].time
BY NoElements DEF RecentInv, SearchOn

\* An answer that is given while nothing was removed is recent.
LEMMA AnswerRecent ==
  ASSUME TypeInv, TypeInv', RecentInv, NEW s \in Sessions, calm[s], Ends(s)
  PROVE  Recent(s)'
<1>1. /\ written' = written /\ override' = override /\ began' = began
      /\ began[s] \in Nat /\ best[s].time \in Nat
      /\ WrittenAt(best[s].dir) \in Nat
      /\ best[s].time > 0 => best[s].dir \in Databases
      /\ answer \in [Sessions -> [kind : Kinds, path : Path]]
  <2>1. WrittenAt(best[s].dir) \in Nat
    BY LocationAssumption, WrittenType DEF TypeInv
  <2>2. written' = written /\ override' = override /\ began' = began
    BY EndEffect
  <2> QED
    BY <2>1, <2>2, LocationAssumption DEF TypeInv
<1>2. CASE NoDbPath(s)
  <2>1. answer'[s] = Result("no_db_path", NoDb)
    BY <1>1, <1>2 DEF NoDbPath, Return
  <2>2. best[s].time = 0 /\ began[s] \in Goals(s)
    BY <1>2, NoneType DEF NoDbPath, Goals
  <2>3. began[s] = 0
    BY <1>1, <1>2, <2>2, SearchEnds DEF NoDbPath, Seeks
  <2> QED
    BY <1>1, <2>1, <2>3 DEF Recent, Result
<1>3. ASSUME Opened(s) \/ DbMissing(s), override.db = NoDb
      PROVE  /\ Chosen(s) = best[s].dir
             /\ WrittenAt(best[s].dir) > 0 /\ WrittenAt(best[s].dir) >= began[s]
  <2>1. pc[s] = "origin" /\ todo[s] = <<>>
    BY <1>3 DEF Opened, DbMissing
  <2>2. Goals(s) = {began[s], 1}
    BY <2>1 DEF Goals
  <2>3. best[s].time >= 1 /\ best[s].time >= began[s]
    BY <1>3, <2>1, <2>2, SearchEnds DEF Seeks
  <2>4. WrittenAt(best[s].dir) >= best[s].time
    BY <1>1, <1>3, <2>1, <2>3, SearchEnds DEF Seeks
  <2>5. Chosen(s) = best[s].dir
    BY <1>1, <1>3, <2>1, <2>3, ChosenType
  <2> QED
    BY <1>1, <2>3, <2>4, <2>5
<1>4. CASE Opened(s)
  <2>1. answer'[s] = Result("opened", Chosen(s))
    BY <1>1, <1>4 DEF Opened, Return
  <2>2. override.db = NoDb =>
          (IF Chosen(s) \in Databases THEN written[Chosen(s)] ELSE 0) >= began[s]
    BY <1>3, <1>4 DEF WrittenAt
  <2> QED
    BY <1>1, <2>1, <2>2 DEF Recent, Result, WrittenAt
<1>5. CASE DbMissing(s)
  <2>1. answer'[s] = Result("db_missing", Chosen(s))
    BY <1>1, <1>5 DEF DbMissing, Return
  <2>2. override.db # NoDb
    BY <1>3, <1>5, <1>1 DEF DbMissing
  <2> QED
    BY <1>1, <2>1, <2>2 DEF Recent, Result
<1>6. CASE CookiesFound(s)
  <2>1. CASE ~Exists(CookiesPath(s))
    <3>1. answer'[s] = Result("no_cookies_db", NoDb)
      BY <1>1, <1>6, <2>1 DEF CookiesFound, Return
    <3> QED
      BY <3>1 DEF Recent, Result
  <2>2. CASE Exists(CookiesPath(s))
    <3>1. answer'[s].kind = "cookies" /\ answer'[s].path = CookiesPath(s)
      BY <1>1, <1>6, <2>2 DEF CookiesFound, Return, Result
    <3>2. ASSUME override.cookies = NoDb
          PROVE  /\ CookiesPath(s)[1] = best[s].dir[1] /\ best[s].dir \in Databases
                 /\ written[best[s].dir] >= began[s]
      <4>1. /\ CookiesPath(s)[1] = best[s].dir[1]
            /\ best[s].time > 0 /\ best[s].dir \in Databases
        BY <1>6, <2>2, <3>2, FoundType DEF CookiesFound
      <4>2. began[s] \in Goals(s)
        BY DEF Goals
      <4>3. best[s].time >= began[s] /\ WrittenAt(best[s].dir) >= best[s].time
        BY <1>6, <3>2, <4>1, <4>2, SearchEnds DEF CookiesFound, Seeks
      <4> QED
        BY <1>1, <4>1, <4>3 DEF WrittenAt
    <3> QED
      BY <1>1, <3>1, <3>2 DEF Recent, AsRecent
  <2> QED
    BY <2>1, <2>2
<1>7. CASE Close(s)
  <2>1. answer'[s] = Result("none", NoDb)
    BY <1>1, <1>7 DEF Close, Return
  <2> QED
    BY <2>1 DEF Recent, Result
<1> QED
  BY <1>2, <1>4, <1>5, <1>6, <1>7 DEF Ends

LEMMA RecentStep == TypeInv /\ TypeInv' /\ RecentInv /\ [Next]_vars => RecentInv'
<1> SUFFICES ASSUME TypeInv, TypeInv', RecentInv, [Next]_vars, NEW t \in Sessions, calm'[t]
             PROVE  (Recent(t) /\ SearchOn(t))'
  BY DEF RecentInv
<1>1. \A d \in Databases : written[d] \in Nat /\ now \in Nat /\ written[d] <= now
  BY LocationAssumption DEF TypeInv
<1>2. CASE UNCHANGED vars
  BY <1>1, <1>2, RecentStays DEF vars, Same
<1>3. CASE Tick
  BY <1>1, <1>3, RecentStays DEF Tick, Same
<1>4. ASSUME NEW d \in Databases, WriteDb(d) PROVE (Recent(t) /\ SearchOn(t))'
  <2>1. \A e \in Databases : written[e] <= written'[e]
    BY <1>1, <1>4 DEF WriteDb, TypeInv
  <2> QED
    BY <1>4, <2>1, RecentStays DEF WriteDb, Same
<1>5. ASSUME NEW d \in Databases, RemoveDb(d) PROVE (Recent(t) /\ SearchOn(t))'
  BY <1>5 DEF RemoveDb
<1>6. ASSUME NEW s \in Sessions, SessionStep(s), s # t PROVE (Recent(t) /\ SearchOn(t))'
  <2>1. Same(t) /\ calm'[t] = calm[t] /\ written' = written
    <3>1. CASE Open(s) \/ Fetch(s)
      <4>1. PICK label \in {"root", "cookies", "origin"}, dirs \in {<<>>, AllDirs} :
              pc' = [pc EXCEPT ![s] = label] /\ todo' = [todo EXCEPT ![s] = dirs]
        BY <3>1, BeginEffect
      <4>2. /\ best' = [best EXCEPT ![s] = None] /\ began' = [began EXCEPT ![s] = NewestTime]
            /\ calm' = [calm EXCEPT ![s] = TRUE]
            /\ answer' = [answer EXCEPT ![s] = Result("none", NoDb)]
            /\ UNCHANGED <<written, override>>
        BY <3>1, BeginEffect
      <4> QED
        BY <1>6, <4>1, <4>2, PerSession DEF Same
    <3>2. CASE Look(s)
      BY <1>6, <3>2 DEF Look, TypeInv, Same
    <3>3. CASE RootFound(s)
      BY <1>6, <3>3 DEF RootFound, TypeInv, Same
    <3>4. CASE Ends(s)
      <4>1. /\ pc' = [pc EXCEPT ![s] = "idle"] /\ todo' = [todo EXCEPT ![s] = <<>>]
            /\ best' = [best EXCEPT ![s] = None]
            /\ UNCHANGED <<written, override, began, calm>>
        BY <3>4, EndEffect
      <4>2. PICK a : answer' = [answer EXCEPT ![s] = a]
        BY <3>4, EndEffect
      <4> QED
        BY <1>6, <4>1, <4>2, PerSession DEF Same
    <3> QED
      BY <1>6, <3>1, <3>2, <3>3, <3>4 DEF SessionStep
  <2> QED
    BY <1>1, <2>1, RecentStays
<1>7. CASE Open(t) \/ Fetch(t)
  <2>1. PICK label \in {"root", "cookies", "origin"} :
          /\ pc' = [pc EXCEPT ![t] = label]
          /\ label = "origin" => override.db # NoDb
          /\ label = "root" \/ (label = "cookies" /\ override.cookies = NoDb) =>
               todo' = [todo EXCEPT ![t] = AllDirs]
    BY <1>7, BeginEffect
  <2>2. /\ best'[t] = None /\ began'[t] = NewestTime /\ NewestTime \in 0..now
        /\ answer'[t] = Result("none", NoDb) /\ pc'[t] = label
        /\ label = "root" \/ (label = "cookies" /\ override.cookies = NoDb) =>
             todo'[t] = AllDirs
        /\ UNCHANGED <<written, override>>
    <3>1. /\ best' = [best EXCEPT ![t] = None]
          /\ began' = [began EXCEPT ![t] = NewestTime] /\ NewestTime \in 0..now
          /\ answer' = [answer EXCEPT ![t] = Result("none", NoDb)]
          /\ UNCHANGED <<written, override>>
      BY <1>7, BeginEffect
    <3> QED
      BY <2>1, <3>1, PerSession
  <2>3. label # "origin" => Goals(t)' = {NewestTime}
    BY <2>2 DEF Goals
  <2>4. \/ 0 >= NewestTime
        \/ \E d \in ToSet(AllDirs) : (IF d \in Databases THEN written[d] ELSE 0) >= NewestTime
    <3>1. NewestTime > 0 => \E d \in Databases : written[d] = NewestTime
      BY NewestTimeIs DEF TypeInv
    <3>2. now \in Nat
      BY LocationAssumption DEF TypeInv
    <3> QED
      BY <2>2, <3>1, <3>2, AllDirsType, NoneType
  <2>5. Recent(t)'
    BY <2>2 DEF Recent, Result
  <2>6. SearchOn(t)'
    BY <2>1, <2>2, <2>3, <2>4, NoneType DEF SearchOn, Seeks, WrittenAt
  <2> QED
    BY <2>5, <2>6
<1>8. CASE Look(t)
  <2> DEFINE d == Head(todo[t])
             b == Better(best[t], d)
  <2>1. /\ d \in Dirs
        /\ ToSet(todo[t]) = {d} \cup ToSet(Tail(todo[t]))
        /\ best'[t] = b /\ todo'[t] = Tail(todo[t])
        /\ UNCHANGED <<now, written, override, pc, answer, began, calm>>
    <3>1. /\ d \in Dirs /\ ToSet(todo[t]) = {d} \cup ToSet(Tail(todo[t]))
          /\ best' = [best EXCEPT ![t] = b] /\ todo' = [todo EXCEPT ![t] = Tail(todo[t])]
          /\ UNCHANGED <<now, written, override, pc, answer, began, calm>>
      BY <1>8, LookEffect
    <3> HIDE DEF d, b
    <3> QED
      BY <3>1, PerSession
  <2> HIDE DEF d
  <2>2. /\ b.time \in Nat /\ best[t].time \in Nat /\ WrittenAt(d) \in Nat
        /\ b.time >= best[t].time /\ b.time >= WrittenAt(d)
        /\ \/ b = best[t]
           \/ b.dir = d /\ b.time = WrittenAt(d)
    <3>1. best[t].time \in 0..now /\ now \in Nat /\ WrittenAt(d) \in 0..now
          /\ (WrittenAt(d) > 0 => d \in Databases)
      BY <2>1, WrittenType, LocationAssumption DEF TypeInv
    <3>2. /\ Better(best[t], d).time \in 0..now
          /\ Better(best[t], d).time >= best[t].time
          /\ Better(best[t], d).time >= WrittenAt(d)
          /\ \/ Better(best[t], d) = best[t]
             \/ /\ Better(best[t], d).dir = d /\ Better(best[t], d).time = WrittenAt(d)
                /\ WrittenAt(d) > 0
      BY <2>1, BetterType
    <3> QED
      BY <3>1, <3>2
  <2> HIDE DEF b
  <2>3. Recent(t) /\ SearchOn(t)
    BY <2>1 DEF RecentInv
  <2>4. Recent(t)'
    BY <2>1, <2>3 DEF Recent, AsRecent, WrittenAt
  <2>5. b.time > 0 => WrittenAt(b.dir) >= b.time
    BY <2>2, <2>3 DEF SearchOn
  <2>6. \A n \in Goals(t) : n \in Nat
    BY LocationAssumption DEF Goals, TypeInv
  <2>7. Seeks(t) =>
          \A n \in Goals(t) :
            \/ b.time >= n
            \/ \E e \in ToSet(Tail(todo[t])) : WrittenAt(e) >= n
    BY <2>1, <2>2, <2>3, <2>6 DEF SearchOn
  <2>8. Goals(t)' = Goals(t)
    BY <2>1 DEF Goals
  <2>9. SearchOn(t)'
    BY <2>1, <2>5, <2>7, <2>8 DEF SearchOn, Seeks, WrittenAt
  <2> QED
    BY <2>4, <2>9
<1>9. CASE RootFound(t)
  <2> DEFINE d == best[t].dir
  <2>1. /\ best[t].time > 0 /\ d \in Databases
        /\ pc'[t] = "origin" /\ todo'[t] = Under(d[1])
        /\ ToSet(Under(d[1])) = {d[1]} \X ToSet(Origins)
        /\ best'[t].time = 0
        /\ UNCHANGED <<now, written, override, answer, began, calm>>
    <3>1. /\ best[t].time > 0 /\ d \in Databases
          /\ pc' = [pc EXCEPT ![t] = "origin"] /\ todo' = [todo EXCEPT ![t] = Under(d[1])]
          /\ ToSet(Under(d[1])) = {d[1]} \X ToSet(Origins)
          /\ best' = [best EXCEPT ![t] = [time |-> 0, dir |-> <<d[1], NoPath>>]]
          /\ UNCHANGED <<now, written, override, answer, began, calm>>
      BY <1>9, RootFoundEffect
    <3> HIDE DEF d
    <3> QED
      BY <3>1, PerSession
  <2>2. best[t].time >= began[t] /\ WrittenAt(d) >= best[t].time
    <3>1. began[t] \in Goals(t)
      BY DEF Goals
    <3> QED
      BY <1>9, <2>1, <3>1, SearchEnds DEF RootFound, Seeks
  <2>3. d \in ToSet(Under(d[1]))
    <3>1. d \in Roots \X ToSet(Origins)
      BY <2>1, NoneType DEF Dirs
    <3> QED
      BY <2>1, <3>1
  <2> HIDE DEF d
  <2>4. Goals(t)' = {began[t], 1}
    BY <2>1 DEF Goals
  <2>5. (IF d \in Databases THEN written[d] ELSE 0) >= began[t]
        /\ (IF d \in Databases THEN written[d] ELSE 0) >= 1
    <3>1. best[t].time \in Nat /\ began[t] \in Nat
      BY LocationAssumption DEF TypeInv
    <3> QED
      BY <1>1, <2>1, <2>2, <3>1 DEF WrittenAt
  <2>6. Recent(t)'
    <3>1. Recent(t)
      BY <2>1 DEF RecentInv
    <3> QED
      BY <2>1, <3>1 DEF Recent, AsRecent, WrittenAt
  <2>7. SearchOn(t)'
    BY <2>1, <2>3, <2>4, <2>5 DEF SearchOn, WrittenAt
  <2> QED
    BY <2>6, <2>7
<1>10. CASE Ends(t)
  <2>1. calm[t] /\ best'[t] = None /\ pc'[t] = "idle"
    BY <1>10, EndEffect DEF TypeInv
  <2>2. SearchOn(t)'
    BY <2>1, NoneType DEF SearchOn, Seeks
  <2> QED
    BY <1>10, <2>1, <2>2, AnswerRecent
<1> QED
  BY <1>2, <1>3, <1>4, <1>5, <1>6, <1>7, <1>8, <1>9, <1>10, StepCases DEF SessionStep

LEMMA RecentInit == Init => RecentInv
BY NoneType DEF Init, RecentInv, Recent, SearchOn, Seeks, Result

-----------------------------------------------------------------------------
\* When a fetch begins while the session's profile is the one in use.
LEMMA FetchBegins ==
  ASSUME TypeInv, NEW r, OnlyNewest(r)
  PROVE  /\ NewestTime > 0
         /\ \A d \in Databases : d[1] # r => written[d] < NewestTime
         /\ \E d \in Databases : d[1] = r /\ written[d] >= NewestTime
<1>1. /\ now \in Nat /\ \A d \in Databases : written[d] \in Nat /\ d[1] \in Roots
  BY LocationAssumption DEF TypeInv
<1>2. /\ NewestTime \in Nat
      /\ \A d \in Databases : written[d] <= NewestTime
      /\ NewestTime > 0 => \E d \in Databases : written[d] = NewestTime
  BY <1>1, NewestTimeIs DEF TypeInv
<1>3. \A q : /\ NewestIn(q) \in Nat
             /\ \A d \in Databases : d[1] = q => written[d] <= NewestIn(q)
             /\ NewestIn(q) > 0 => \E d \in Databases : d[1] = q /\ written[d] = NewestIn(q)
  BY <1>1, NewestInIs DEF TypeInv
<1>4. NewestIn(r) > 0 /\ \A q \in Roots \ {r} : NewestIn(q) < NewestIn(r)
  BY DEF OnlyNewest
<1>5. NewestIn(r) <= NewestTime
  <2>1. PICK d \in Databases : d[1] = r /\ written[d] = NewestIn(r)
    BY <1>3, <1>4
  <2> QED
    BY <1>2, <2>1
<1>6. ASSUME NEW d \in Databases, d[1] # r PROVE written[d] < NewestTime
  <2>1. written[d] <= NewestIn(d[1]) /\ NewestIn(d[1]) < NewestIn(r)
    BY <1>1, <1>3, <1>4, <1>6
  <2> QED
    BY <1>1, <1>2, <1>3, <1>5, <2>1
<1>7. PICK d \in Databases : written[d] = NewestTime
  BY <1>2, <1>3, <1>4, <1>5
<1>8. d[1] = r
  BY <1>1, <1>2, <1>6, <1>7
<1> QED
  BY <1>1, <1>2, <1>3, <1>4, <1>5, <1>6, <1>7, <1>8

\* The variables of the environment do not change.
LEMMA OverrideStays == [Next]_vars => override' = override
BY DEF Next, vars, Tick, WriteDb, RemoveDb, Open, Look, NoDbPath, RootFound, Opened, DbMissing,
       Fetch, CookiesFound, Close, Return

LEMMA OwnStep == TypeInv /\ TypeInv' /\ OwnInv /\ [Next]_vars => OwnInv'
<1> SUFFICES ASSUME TypeInv, TypeInv', OwnInv, [Next]_vars, NEW t \in Sessions,
                    own'[t], override.cookies = NoDb
             PROVE  (OwnCookies(t) /\ (pc[t] = "cookies" => FetchOn(t)))'
  BY OverrideStays DEF OwnInv
<1> DEFINE Goal == (OwnCookies(t) /\ (pc[t] = "cookies" => FetchOn(t)))'
<1>1. /\ \A d \in Databases : written[d] \in Nat /\ written'[d] \in Nat
      /\ began[t] \in Nat /\ best[t].time \in Nat /\ now \in Nat
  BY LocationAssumption DEF TypeInv
<1>2. ASSUME Same(t), own'[t] = own[t], db'[t] = db[t], written' = written PROVE Goal
  BY <1>2 DEF OwnInv, Same, OwnCookies, FetchOn, WrittenAt
<1>3. CASE UNCHANGED vars
  BY <1>2, <1>3 DEF vars, Same
<1>4. CASE Tick
  BY <1>2, <1>4 DEF Tick, Same
<1>5. ASSUME NEW d \in Databases, WriteDb(d) PROVE Goal
  <2>1. /\ own[t] /\ (pc[t] = "cookies" => d[1] = db[t][1])
        /\ written' = [written EXCEPT ![d] = now]
        /\ UNCHANGED <<override, pc, todo, best, db, answer, began>>
    BY <1>5 DEF WriteDb, TypeInv
  <2>2. OwnCookies(t)'
    BY <2>1 DEF OwnInv, OwnCookies
  <2>3. ASSUME pc[t] = "cookies" PROVE FetchOn(t)'
    <3>1. FetchOn(t)
      BY <2>1, <2>3 DEF OwnInv
    <3>2. \A e \in Databases : /\ written[e] <= written'[e]
                               /\ e[1] # db[t][1] => written'[e] = written[e]
      <4>1. written[d] <= now
        BY <1>1 DEF TypeInv
      <4> QED
        BY <1>1, <2>1, <2>3, <4>1 DEF TypeInv
    <3>3. \A e \in Databases : e[1] # db[t][1] => written'[e] < began[t]
      BY <3>1, <3>2 DEF FetchOn
    <3>4. \/ best[t].time >= began[t]
          \/ \E e \in ToSet(todo[t]) : /\ e[1] = db[t][1]
                                       /\ (IF e \in Databases THEN written'[e] ELSE 0) >= began[t]
      BY <1>1, <3>1, <3>2 DEF FetchOn, WrittenAt
    <3> QED
      BY <2>1, <3>1, <3>3, <3>4 DEF FetchOn, WrittenAt
  <2> QED
    BY <2>1, <2>2, <2>3
<1>6. ASSUME NEW d \in Databases, RemoveDb(d) PROVE Goal
  <2>1. /\ own[t] /\ (pc[t] = "cookies" => d[1] # db[t][1])
        /\ written' = [written EXCEPT ![d] = 0]
        /\ UNCHANGED <<override, pc, todo, best, db, answer, began>>
    BY <1>6 DEF RemoveDb, TypeInv
  <2>2. OwnCookies(t)'
    BY <2>1 DEF OwnInv, OwnCookies
  <2>3. ASSUME pc[t] = "cookies" PROVE FetchOn(t)'
    <3>1. FetchOn(t)
      BY <2>1, <2>3 DEF OwnInv
    <3>2. \A e \in Databases : /\ e = d => written'[e] = 0
                               /\ e # d => written'[e] = written[e]
                               /\ e[1] = db[t][1] => e # d
      BY <1>1, <2>1, <2>3 DEF TypeInv
    <3>3. \A e \in Databases : e[1] # db[t][1] => written'[e] < began[t]
      BY <1>1, <3>1, <3>2 DEF FetchOn
    <3>4. \/ best[t].time >= began[t]
          \/ \E e \in ToSet(todo[t]) : /\ e[1] = db[t][1]
                                       /\ (IF e \in Databases THEN written'[e] ELSE 0) >= began[t]
      BY <1>1, <3>1, <3>2 DEF FetchOn, WrittenAt
    <3> QED
      BY <2>1, <3>1, <3>3, <3>4 DEF FetchOn, WrittenAt
  <2> QED
    BY <2>1, <2>2, <2>3
<1>7. ASSUME NEW s \in Sessions, SessionStep(s), s # t PROVE Goal
  <2>1. Same(t) /\ own'[t] = own[t] /\ db'[t] = db[t] /\ written' = written
    <3>1. CASE Open(s) \/ Fetch(s)
      <4>1. PICK label \in {"root", "cookies", "origin"}, dirs \in {<<>>, AllDirs} :
              pc' = [pc EXCEPT ![s] = label] /\ todo' = [todo EXCEPT ![s] = dirs]
        BY <3>1, BeginEffect
      <4>2. /\ best' = [best EXCEPT ![s] = None] /\ began' = [began EXCEPT ![s] = NewestTime]
            /\ answer' = [answer EXCEPT ![s] = Result("none", NoDb)]
            /\ UNCHANGED <<written, override, db>>
        BY <3>1, BeginEffect
      <4>3. PICK v : own' = [own EXCEPT ![s] = v]
        BY <3>1, BeginEffect
      <4>4. own'[t] = own[t]
        <5>1. own \in [Sessions -> BOOLEAN]
          BY DEF TypeInv
        <5> QED
          BY <1>7, <4>3, <5>1
      <4>5. Same(t) /\ db'[t] = db[t] /\ written' = written
        BY <1>7, <4>1, <4>2 DEF Same, TypeInv
      <4> QED
        BY <4>4, <4>5
    <3>2. CASE Look(s)
      BY <1>7, <3>2 DEF Look, TypeInv, Same
    <3>3. CASE RootFound(s)
      BY <1>7, <3>3 DEF RootFound, TypeInv, Same
    <3>4. CASE Ends(s)
      <4>1. /\ pc' = [pc EXCEPT ![s] = "idle"] /\ todo' = [todo EXCEPT ![s] = <<>>]
            /\ best' = [best EXCEPT ![s] = None]
            /\ UNCHANGED <<written, override, began, own>>
        BY <3>4, EndEffect
      <4>2. PICK a, d : answer' = [answer EXCEPT ![s] = a] /\ db' = [db EXCEPT ![s] = d]
        BY <3>4, EndEffect
      <4> QED
        BY <1>7, <4>1, <4>2, PerSession DEF Same
    <3> QED
      BY <1>7, <3>1, <3>2, <3>3, <3>4 DEF SessionStep
  <2> QED
    BY <1>2, <2>1
<1>8. CASE Open(t) \/ Fetch(t)
  <2> DEFINE r == db[t][1]
  <2>1. PICK label \in {"root", "cookies", "origin"} :
          /\ pc' = [pc EXCEPT ![t] = label]
          /\ label = "cookies" => todo' = [todo EXCEPT ![t] = AllDirs]
          /\ label = "cookies" <=> db[t] # NoDb
    BY <1>8, BeginEffect
  <2>2. /\ best'[t] = None /\ began'[t] = NewestTime
        /\ answer'[t] = Result("none", NoDb) /\ pc'[t] = label
        /\ label = "cookies" => todo'[t] = AllDirs
        /\ own'[t] = (db[t] # NoDb /\ OnlyNewest(r))
        /\ UNCHANGED <<written, db>>
    <3>1. /\ best' = [best EXCEPT ![t] = None]
          /\ began' = [began EXCEPT ![t] = NewestTime]
          /\ answer' = [answer EXCEPT ![t] = Result("none", NoDb)]
          /\ own' = [own EXCEPT ![t] = db[t] # NoDb /\ OnlyNewest(r)]
          /\ UNCHANGED <<written, db>>
      BY <1>8, BeginEffect
    <3> HIDE DEF r
    <3> QED
      BY <2>1, <3>1, PerSession
  <2>3. db[t] # NoDb /\ OnlyNewest(r)
    BY <2>2
  <2>4. /\ NewestTime > 0 /\ NewestTime \in Nat
        /\ \A d \in Databases : d[1] # r => written[d] < NewestTime
        /\ \E d \in Databases : d[1] = r /\ written[d] >= NewestTime
    <3>1. NewestTime \in Nat
      BY NewestTimeIs, LocationAssumption DEF TypeInv
    <3> HIDE DEF r
    <3> QED
      BY <2>3, <3>1, FetchBegins
  <2>5. \E d \in ToSet(AllDirs) :
          d[1] = r /\ (IF d \in Databases THEN written[d] ELSE 0) >= NewestTime
    BY <2>4, AllDirsType, NoneType
  <2>6. ~(0 >= NewestTime)
    BY <2>4
  <2>7. FetchOn(t)'
    BY <2>1, <2>2, <2>3, <2>4, <2>5, <2>6, NoneType DEF FetchOn, WrittenAt
  <2>8. OwnCookies(t)'
    BY <2>2 DEF OwnCookies, Result
  <2> QED
    BY <2>7, <2>8
<1>9. CASE Look(t)
  <2> DEFINE d == Head(todo[t])
             b == Better(best[t], d)
  <2>1. /\ d \in Dirs
        /\ ToSet(todo[t]) = {d} \cup ToSet(Tail(todo[t]))
        /\ best'[t] = b /\ todo'[t] = Tail(todo[t])
        /\ UNCHANGED <<written, pc, answer, began, own, db>>
    <3>1. /\ d \in Dirs /\ ToSet(todo[t]) = {d} \cup ToSet(Tail(todo[t]))
          /\ best' = [best EXCEPT ![t] = b] /\ todo' = [todo EXCEPT ![t] = Tail(todo[t])]
          /\ UNCHANGED <<written, pc, answer, began, own, db>>
      BY <1>9, LookEffect
    <3> HIDE DEF d, b
    <3> QED
      BY <3>1, PerSession
  <2> HIDE DEF d
  <2>2. /\ b.time \in Nat /\ WrittenAt(d) \in Nat
        /\ b.time >= best[t].time /\ b.time >= WrittenAt(d)
        /\ \/ b = best[t]
           \/ b.dir = d /\ b.time = WrittenAt(d) /\ b.time > 0
        /\ WrittenAt(d) > 0 => d \in Databases
    <3>1. best[t].time \in 0..now /\ now \in Nat /\ WrittenAt(d) \in 0..now
          /\ (WrittenAt(d) > 0 => d \in Databases)
      BY <2>1, WrittenType, LocationAssumption DEF TypeInv
    <3>2. /\ Better(best[t], d).time \in 0..now
          /\ Better(best[t], d).time >= best[t].time
          /\ Better(best[t], d).time >= WrittenAt(d)
          /\ \/ Better(best[t], d) = best[t]
             \/ /\ Better(best[t], d).dir = d /\ Better(best[t], d).time = WrittenAt(d)
                /\ WrittenAt(d) > 0
      BY <2>1, BetterType
    <3> QED
      BY <3>1, <3>2
  <2> HIDE DEF b
  <2>3. OwnCookies(t)'
    BY <2>1 DEF OwnInv, OwnCookies
  <2>4. ASSUME pc[t] = "cookies" PROVE FetchOn(t)'
    <3>1. FetchOn(t)
      BY <2>1, <2>4 DEF OwnInv
    <3>2. b.time >= began[t] => b.dir[1] = db[t][1]
      <4>1. CASE b = best[t]
        BY <3>1, <4>1 DEF FetchOn
      <4>2. CASE b.dir = d /\ b.time = WrittenAt(d) /\ b.time > 0
        BY <1>1, <2>2, <3>1, <4>2 DEF FetchOn, WrittenAt
      <4> QED
        BY <2>2, <4>1, <4>2
    <3>3. \/ b.time >= began[t]
          \/ \E e \in ToSet(Tail(todo[t])) : e[1] = db[t][1] /\ WrittenAt(e) >= began[t]
      BY <1>1, <2>1, <2>2, <3>1 DEF FetchOn
    <3> QED
      BY <2>1, <3>1, <3>2, <3>3 DEF FetchOn, WrittenAt
  <2> QED
    BY <2>1, <2>3, <2>4
<1>10. CASE RootFound(t)
  <2>1. pc'[t] = "origin" /\ UNCHANGED <<answer, db, own>>
    <3>1. pc' = [pc EXCEPT ![t] = "origin"] /\ UNCHANGED <<answer, db, own>>
      BY <1>10, RootFoundEffect
    <3> QED
      BY <3>1 DEF TypeInv
  <2> QED
    BY <2>1 DEF OwnInv, OwnCookies
<1>11. CASE Ends(t)
  <2>1. pc'[t] = "idle" /\ own[t]
    BY <1>11, EndEffect DEF TypeInv
  <2>2. OwnCookies(t)'
    <3>1. CASE NoDbPath(t) \/ Opened(t) \/ DbMissing(t) \/ Close(t)
      <4>1. \E kind \in {"no_db_path", "opened", "db_missing", "none"} : \E p :
              answer' = [answer EXCEPT ![t] = Result(kind, p)]
        BY <3>1 DEF NoDbPath, Opened, DbMissing, Close, Return
      <4>2. answer'[t].kind \in {"no_db_path", "opened", "db_missing", "none"}
        BY <4>1 DEF TypeInv, Result
      <4> QED
        BY <4>2 DEF OwnCookies
    <3>2. CASE CookiesFound(t)
      <4>1. FetchOn(t) /\ todo[t] = <<>> /\ db' = db
        BY <2>1, <3>2 DEF OwnInv, CookiesFound
      <4>2. best[t].time >= began[t] /\ best[t].dir[1] = db[t][1] /\ best[t].time > 0
        BY <1>1, <4>1, NoElements DEF FetchOn
      <4>3. CookiesPath(t) = CookiesOf(db[t][1])
        BY <4>2, NoneType DEF CookiesPath
      <4>4. best[t].dir \in Databases /\ db[t][1] # NoPath
        BY <4>2, LocationAssumption DEF TypeInv
      <4>5. CookiesOf(db[t][1])[1] = db[t][1] /\ CookiesOf(db[t][1]) # NoDb
        BY <4>4 DEF CookiesOf, NoDb, None
      <4>6. \/ /\ ~Exists(CookiesPath(t))
               /\ answer'[t] = Result("no_cookies_db", NoDb)
            \/ answer'[t] = Result("cookies", CookiesPath(t))
        BY <3>2 DEF CookiesFound, Return, TypeInv
      <4>7. ~Exists(CookiesPath(t)) => Layout[db[t][1]] = "none"
        BY <4>3, <4>5 DEF Exists
      <4> QED
        BY <4>1, <4>3, <4>5, <4>6, <4>7 DEF OwnCookies, Result
    <3> QED
      BY <1>11, <3>1, <3>2 DEF Ends
  <2> QED
    BY <2>1, <2>2
<1> QED
  BY <1>3, <1>4, <1>5, <1>6, <1>7, <1>8, <1>9, <1>10, <1>11, StepCases DEF SessionStep

\* What a variable names stays what is opened and read.
LEMMA PinnedStep == TypeInv /\ PinnedInv /\ [Next]_vars => PinnedInv'
<1> SUFFICES ASSUME TypeInv, PinnedInv, [Next]_vars, NEW t \in Sessions
             PROVE  /\ override.db # NoDb => db'[t] \in {NoDb, override.db}
                    /\ pc'[t] = "cookies" => db'[t] # NoDb
                    /\ answer'[t].kind = "cookies" =>
                         /\ db'[t] # NoDb
                         /\ override.cookies # NoDb => answer'[t].path = override.cookies
  BY OverrideStays DEF PinnedInv
<1> DEFINE Goal == /\ override.db # NoDb => db'[t] \in {NoDb, override.db}
                   /\ pc'[t] = "cookies" => db'[t] # NoDb
                   /\ answer'[t].kind = "cookies" =>
                        /\ db'[t] # NoDb
                        /\ override.cookies # NoDb => answer'[t].path = override.cookies
<1>1. ASSUME pc'[t] = pc[t], db'[t] = db[t], answer'[t] = answer[t] PROVE Goal
  BY <1>1 DEF PinnedInv
<1>2. CASE UNCHANGED vars
  BY <1>1, <1>2 DEF vars
<1>3. CASE Tick
  BY <1>1, <1>3 DEF Tick
<1>4. ASSUME NEW d \in Databases, WriteDb(d) \/ RemoveDb(d) PROVE Goal
  BY <1>1, <1>4 DEF WriteDb, RemoveDb
<1>5. ASSUME NEW s \in Sessions, SessionStep(s), s # t PROVE Goal
  <2>1. CASE Open(s) \/ Fetch(s)
    <3>1. PICK label \in {"root", "cookies", "origin"} : pc' = [pc EXCEPT ![s] = label]
      BY <2>1, BeginEffect
    <3>2. answer' = [answer EXCEPT ![s] = Result("none", NoDb)] /\ db' = db
      BY <2>1, BeginEffect
    <3> QED
      BY <1>1, <1>5, <3>1, <3>2, PerSession
  <2>2. CASE Look(s)
    BY <1>1, <2>2 DEF Look
  <2>3. CASE RootFound(s)
    BY <1>1, <1>5, <2>3 DEF RootFound, TypeInv
  <2>4. CASE Ends(s)
    <3>1. pc' = [pc EXCEPT ![s] = "idle"]
      BY <2>4, EndEffect
    <3>2. PICK a, d : answer' = [answer EXCEPT ![s] = a] /\ db' = [db EXCEPT ![s] = d]
      BY <2>4, EndEffect
    <3> QED
      BY <1>1, <1>5, <3>1, <3>2, PerSession
  <2> QED
    BY <1>5, <2>1, <2>2, <2>3, <2>4 DEF SessionStep
<1>6. CASE Open(t) \/ Fetch(t)
  <2>1. PICK label \in {"root", "cookies", "origin"} :
          pc' = [pc EXCEPT ![t] = label] /\ (label = "cookies" <=> db[t] # NoDb)
    BY <1>6, BeginEffect
  <2>2. answer' = [answer EXCEPT ![t] = Result("none", NoDb)] /\ db' = db
    BY <1>6, BeginEffect
  <2>3. pc'[t] = label /\ answer'[t].kind = "none"
    BY <2>1, <2>2 DEF TypeInv, Result
  <2> QED
    BY <2>1, <2>2, <2>3 DEF PinnedInv
<1>7. CASE Look(t)
  BY <1>1, <1>7 DEF Look
<1>8. CASE RootFound(t)
  <2>1. pc'[t] = "origin" /\ db' = db /\ answer' = answer
    BY <1>8 DEF RootFound, TypeInv
  <2> QED
    BY <2>1 DEF PinnedInv, RootFound
<1>9. CASE Ends(t)
  <2>1. pc'[t] = "idle"
    BY <1>9, EndEffect DEF TypeInv
  <2>2. CASE NoDbPath(t) \/ DbMissing(t)
    <3>1. db' = db /\ answer'[t].kind \in {"no_db_path", "db_missing"}
      BY <2>2 DEF NoDbPath, DbMissing, Return, Result, TypeInv
    <3> QED
      BY <2>1, <3>1 DEF PinnedInv
  <2>3. CASE Close(t)
    <3>1. db'[t] = NoDb /\ answer'[t].kind = "none"
      BY <2>3 DEF Close, Return, Result, TypeInv
    <3> QED
      BY <2>1, <3>1
  <2>4. CASE Opened(t)
    <3>1. db'[t] = Chosen(t) /\ answer'[t].kind = "opened"
      BY <2>4 DEF Opened, Return, Result, TypeInv
    <3>2. override.db # NoDb => Chosen(t) = override.db
      BY DEF Chosen
    <3> QED
      BY <2>1, <3>1, <3>2
  <2>5. CASE CookiesFound(t)
    <3>1. db' = db /\ db[t] # NoDb
      BY <2>5 DEF CookiesFound, PinnedInv
    <3>2. \/ answer'[t] = Result("no_cookies_db", NoDb)
          \/ Exists(CookiesPath(t)) /\ answer'[t] = Result("cookies", CookiesPath(t))
      BY <2>5 DEF CookiesFound, Return, TypeInv
    <3>3. override.cookies # NoDb => CookiesPath(t) = override.cookies
      BY DEF CookiesPath
    <3> QED
      BY <2>1, <3>1, <3>2, <3>3 DEF PinnedInv, Result
  <2> QED
    BY <1>9, <2>2, <2>3, <2>4, <2>5 DEF Ends
<1> QED
  BY <1>2, <1>3, <1>4, <1>5, <1>6, <1>7, <1>8, <1>9, StepCases DEF SessionStep

-----------------------------------------------------------------------------
LInv == TypeInv /\ RecentInv /\ OwnInv /\ PinnedInv

THEOREM Invariance == Spec => []LInv
<1>1. Init => LInv
  <2>1. Init => OwnInv /\ PinnedInv
    BY DEF Init, OwnInv, PinnedInv, Result
  <2> QED
    BY <2>1, TypeInit, RecentInit DEF LInv
<1>2. LInv /\ [Next]_vars => LInv'
  BY TypeStep, RecentStep, OwnStep, PinnedStep DEF LInv
<1> QED
  BY <1>1, <1>2, PTL DEF Spec

\* Types: in particular only a database directory is ever opened, and the search
\* never leaves the candidates.
THEOREM LocationType == Spec => []TypeOK
<1>1. LInv => TypeOK
  BY TypeSuffices DEF LInv
<1> QED
  BY <1>1, Invariance, PTL

\* However the browsers write while the directories are looked at one by one, the
\* database opened and the profile whose cookies are read (newest_db_in and
\* platform_profile_root of location.rs) were written as recently as any had been
\* when the search began, and a database that exists is found, unless one is removed;
\* a file that TEAMS_MCP_DB or TEAMS_MCP_COOKIES names is not searched for.
THEOREM RecentChosen == Spec => []ChoosesRecent
<1>1. LInv => ChoosesRecent
  <2> SUFFICES ASSUME LInv, NEW s \in Sessions, calm[s]
               PROVE  /\ answer[s].kind = "opened" /\ override.db = NoDb =>
                            WrittenAt(answer[s].path) >= began[s]
                      /\ answer[s].kind = "cookies" /\ override.cookies = NoDb =>
                            NewestIn(answer[s].path[1]) >= began[s]
                      /\ answer[s].kind = "no_db_path" => began[s] = 0
                      /\ answer[s].kind = "db_missing" => override.db # NoDb
    BY DEF ChoosesRecent
  <2>1. Recent(s)
    BY DEF LInv, RecentInv
  <2>2. ASSUME answer[s].kind = "cookies", override.cookies = NoDb
        PROVE  NewestIn(answer[s].path[1]) >= began[s]
    <3>1. PICK r : r = answer[s].path[1]
      OBVIOUS
    <3>2. /\ NewestIn(r) \in Nat
          /\ \A d \in Databases : d[1] = r => written[d] <= NewestIn(r)
      BY NewestInIs, LocationAssumption DEF LInv, TypeInv
    <3>3. began[s] = 0 \/ \E d \in Databases : d[1] = r /\ written[d] >= began[s]
      BY <2>1, <2>2, <3>1 DEF Recent, AsRecent
    <3>4. began[s] \in Nat /\ \A d \in Databases : written[d] \in Nat
      BY LocationAssumption DEF LInv, TypeInv
    <3>5. NewestIn(r) >= began[s]
      BY <3>2, <3>3, <3>4
    <3> QED
      BY <3>1, <3>5
  <2> QED
    BY <2>1, <2>2 DEF Recent
<1> QED
  BY <1>1, Invariance, PTL

\* While the profile a session was opened in is the only one in use, the cookies it
\* fetches images with are that profile's, although default_cookies_path searches
\* anew at every call and does not know the session; and they are whatever happens
\* when TEAMS_MCP_DB and TEAMS_MCP_COOKIES name files of one profile.
THEOREM OwnCookiesUsed == Spec => []CookiesOfOwnProfile
<1>1. LInv => CookiesOfOwnProfile
  <2>1. LInv => \A s \in Sessions : own[s] /\ override.cookies = NoDb =>
          /\ answer[s].kind = "cookies" => answer[s].path[1] = db[s][1]
          /\ answer[s].kind = "no_cookies_db" => Layout[db[s][1]] = "none"
    BY DEF LInv, OwnInv, OwnCookies
  <2>2. LInv => \A s \in Sessions :
          NoDb \notin {override.db, override.cookies} /\ override.db[1] = override.cookies[1] =>
            (answer[s].kind = "cookies" => answer[s].path[1] = db[s][1])
    BY DEF LInv, PinnedInv
  <2> QED
    BY <2>1, <2>2 DEF CookiesOfOwnProfile
<1> QED
  BY <1>1, Invariance, PTL
=============================================================================
