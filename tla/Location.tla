------------------------------ MODULE Location ------------------------------
(***************************************************************************)
(* Where a session's data comes from: default_db_path and                  *)
(* default_cookies_path of crates/teams-core/src/location.rs on Linux, as  *)
(* TeamsServer::new uses the first once per session (crates/               *)
(* teams-mcp-http/src/main.rs makes one server per session) and            *)
(* fetch_image the second at every call, while the browsers write, make    *)
(* and remove profiles.                                                    *)
(*                                                                         *)
(* A database directory is <<root, origin>>; `written' is the newest       *)
(* modification time in it, 0 while there is none.  A directory is looked  *)
(* at in one step, different ones are not.                                 *)
(***************************************************************************)
EXTENDS Naturals, SequencesExt

CONSTANTS
  AppDirs,     \* application directories, in the order of APPS and of the three
               \* places (deb, snap, flatpak) of each
  Partitions,  \* per application directory, its subdirectories of Partitions, by name
  SubDirs,     \* per application directory, its subdirectories, by name
  Databases,   \* the database directories that may exist
  Layout,      \* per root, where its cookies are: "network", "legacy" or "none"
  NamedCookies, \* the files TEAMS_MCP_COOKIES may name: of a profile, there or not
  Sessions,
  MaxTime,     \* bound: modification times, from 1
  NoPath       \* no path

Origins == <<"teams.cloud.microsoft", "teams.microsoft.com">>

\* linux_profile_candidates
Candidates ==
  FlattenSeq([i \in DOMAIN AppDirs |->
    Partitions[AppDirs[i]] \o SubDirs[AppDirs[i]] \o <<AppDirs[i]>>])

Roots == ToSet(Candidates)

CookieFiles == {"Network/Cookies", "Cookies"}

Under(root) == [i \in DOMAIN Origins |-> <<root, Origins[i]>>]

ASSUME LocationAssumption ==
  /\ AppDirs \in Seq(ToSet(AppDirs))
  /\ \A a \in ToSet(AppDirs) : /\ Partitions[a] \in Seq(ToSet(Partitions[a]))
                               /\ SubDirs[a] \in Seq(ToSet(SubDirs[a]))
  /\ MaxTime \in Nat \ {0} /\ NoPath \notin Roots
  /\ Databases \subseteq Roots \X ToSet(Origins)
  /\ Layout \in [Roots -> {"network", "legacy", "none"}]
  /\ NamedCookies \subseteq Roots \X CookieFiles

VARIABLES
  now,       \* the clock of the file system; it may stand still between writes
  written,   \* Databases -> time
  override,  \* TEAMS_MCP_DB and TEAMS_MCP_COOKIES: [db, cookies]
  pc,        \* "idle", "root" and "origin" (opening), "cookies" (fetching)
  todo,      \* database directories still to be looked at
  best,      \* the newest found so far: [time, dir]
  db,        \* the path each session's store was opened with
  answer,    \* of the last open or fetch
  began,     \* the newest time of all databases when it began (history)
  calm,      \* no database was removed since (history)
  own        \* since the fetch began no profile but the session's was newest (history)

vars == <<now, written, override, pc, todo, best, db, answer, began, calm, own>>

None == [time |-> 0, dir |-> <<NoPath, NoPath>>]
NoDb == None.dir
Result(kind, path) == [kind |-> kind, path |-> path]

Init ==
  /\ now = 1 /\ written \in [Databases -> 0..1]
  /\ override \in [db : {NoDb} \cup Databases, cookies : {NoDb} \cup NamedCookies]
  /\ pc = [s \in Sessions |-> "idle"] /\ todo = [s \in Sessions |-> <<>>]
  /\ best = [s \in Sessions |-> None] /\ db = [s \in Sessions |-> NoDb]
  /\ answer = [s \in Sessions |-> Result("none", NoDb)]
  /\ began = [s \in Sessions |-> 0]
  /\ calm = [s \in Sessions |-> TRUE] /\ own = [s \in Sessions |-> FALSE]

-----------------------------------------------------------------------------
WrittenAt(dir) == IF dir \in Databases THEN written[dir] ELSE 0

NewestTime == CHOOSE n \in 0..MaxTime :
  /\ \A d \in Databases : written[d] <= n
  /\ n = 0 \/ \E d \in Databases : written[d] = n

\* What a session's profile was written last, and every other one.
NewestIn(root) == LET times == {WrittenAt(Under(root)[i]) : i \in DOMAIN Origins}
                  IN CHOOSE n \in times : \A m \in times : m <= n
OnlyNewest(root) ==
  NewestIn(root) > 0 /\ \A r \in Roots \ {root} : NewestIn(r) < NewestIn(root)

Start(s, label, dirs) ==
  /\ pc' = [pc EXCEPT ![s] = label]
  /\ todo' = [todo EXCEPT ![s] = dirs] /\ best' = [best EXCEPT ![s] = None]

Remember(s) ==
  /\ began' = [began EXCEPT ![s] = NewestTime] /\ calm' = [calm EXCEPT ![s] = TRUE]
  /\ own' = [own EXCEPT ![s] = db[s] # NoDb /\ OnlyNewest(db[s][1])]
  /\ answer' = [answer EXCEPT ![s] = Result("none", NoDb)]

\* A wrong AllDirs: the origin's name is fixed.
OneOrigin == [i \in DOMAIN Candidates |-> <<Candidates[i], Origins[1]>>]

AllDirs == FlattenSeq([i \in DOMAIN Candidates |-> Under(Candidates[i])])

\* A session begins: TeamsServer::new calls TeamsStore::open(None).
Open(s) ==
  /\ pc[s] = "idle" /\ db[s] = NoDb
  /\ IF override.db = NoDb THEN Start(s, "root", AllDirs) ELSE Start(s, "origin", <<>>)
  /\ Remember(s)
  /\ UNCHANGED <<now, written, override, db>>

\* fetch_image: load_asyncgw_cookies calls default_cookies_path, whatever the
\* session's database is; it looks for a profile unless TEAMS_MCP_COOKIES is set.
Fetch(s) ==
  /\ pc[s] = "idle" /\ db[s] # NoDb
  /\ Start(s, "cookies", IF override.cookies = NoDb THEN AllDirs ELSE <<>>)
  /\ Remember(s)
  /\ UNCHANGED <<now, written, override, db>>

\* A wrong Look: the first database there is.
LookFirst(s) ==
  /\ todo[s] # <<>>
  /\ best' = [best EXCEPT ![s] =
       IF @ = None /\ WrittenAt(Head(todo[s])) > 0
       THEN [time |-> WrittenAt(Head(todo[s])), dir |-> Head(todo[s])] ELSE @]
  /\ todo' = [todo EXCEPT ![s] = Tail(@)]
  /\ UNCHANGED <<now, written, override, pc, db, answer, began, calm, own>>

\* newest_db_in and platform_profile_root look at one directory more: it must be
\* strictly newer than the best one.  (The best of the best per profile is the
\* best of all, and the earlier one of equals in both.)
Look(s) ==
  /\ todo[s] # <<>>
  /\ best' = [best EXCEPT ![s] =
       IF WrittenAt(Head(todo[s])) > @.time
       THEN [time |-> WrittenAt(Head(todo[s])), dir |-> Head(todo[s])] ELSE @]
  /\ todo' = [todo EXCEPT ![s] = Tail(@)]
  /\ UNCHANGED <<now, written, override, pc, db, answer, began, calm, own>>

Return(s, result) ==
  /\ Start(s, "idle", <<>>) /\ answer' = [answer EXCEPT ![s] = result]
  /\ UNCHANGED <<now, written, override, began, calm, own>>

NoDbPath(s) ==
  /\ pc[s] = "root" /\ todo[s] = <<>> /\ best[s] = None
  /\ Return(s, Result("no_db_path", NoDb)) /\ UNCHANGED db

\* The profile is chosen; its two origins are looked at again.
RootFound(s) ==
  /\ pc[s] = "root" /\ todo[s] = <<>> /\ best[s] # None
  /\ pc' = [pc EXCEPT ![s] = "origin"]
  /\ todo' = [todo EXCEPT ![s] = Under(best[s].dir[1])]
  /\ best' = [best EXCEPT ![s] = [None EXCEPT !.dir = <<best[s].dir[1], NoPath>>]]
  /\ UNCHANGED <<now, written, override, db, answer, began, calm, own>>

\* A wrong Chosen: a profile without an origin is no path.
ChosenNoFallback(s) == IF override.db # NoDb THEN override.db ELSE best[s].dir

\* What open checks: without an origin, the path Teams used to have.
Chosen(s) ==
  IF override.db # NoDb THEN override.db
  ELSE IF best[s].time = 0 THEN <<best[s].dir[1], Origins[2]>> ELSE best[s].dir

Opened(s) ==
  /\ pc[s] = "origin" /\ todo[s] = <<>> /\ WrittenAt(Chosen(s)) > 0
  /\ Return(s, Result("opened", Chosen(s))) /\ db' = [db EXCEPT ![s] = Chosen(s)]

\* The session is refused; nothing of it stays.
DbMissing(s) ==
  /\ pc[s] = "origin" /\ todo[s] = <<>> /\ WrittenAt(Chosen(s)) = 0
  /\ Return(s, Result("db_missing", Chosen(s))) /\ UNCHANGED db

\* A profile's cookies: Network/Cookies if it is there, else Cookies.
CookiesOf(root) ==
  <<root, IF Layout[root] = "network" THEN "Network/Cookies" ELSE "Cookies">>

\* What default_cookies_path returns.
CookiesPath(s) ==
  IF override.cookies # NoDb THEN override.cookies
  ELSE IF best[s] = None THEN NoDb ELSE CookiesOf(best[s].dir[1])

\* path.exists()
Exists(path) == path # NoDb /\ Layout[path[1]] # "none" /\ path = CookiesOf(path[1])

\* default_cookies_path returns, and load_asyncgw_cookies asks whether the file is there.
CookiesFound(s) ==
  /\ pc[s] = "cookies" /\ todo[s] = <<>> /\ UNCHANGED db
  /\ Return(s, IF Exists(CookiesPath(s)) THEN Result("cookies", CookiesPath(s))
               ELSE Result("no_cookies_db", NoDb))

\* The client goes, or its session ends.
Close(s) ==
  /\ pc[s] = "idle" /\ db[s] # NoDb /\ db' = [db EXCEPT ![s] = NoDb]
  /\ Return(s, Result("none", NoDb))

\* A browser writes in a database, or makes it.
WriteDb(d) ==
  /\ written[d] # now /\ written' = [written EXCEPT ![d] = now]
  /\ own' = [s \in Sessions |-> own[s] /\ (pc[s] = "cookies" => d[1] = db[s][1])]
  /\ UNCHANGED <<now, override, pc, todo, best, db, answer, began, calm>>

\* The user removes a profile, or signs out.
RemoveDb(d) ==
  /\ written[d] # 0 /\ written' = [written EXCEPT ![d] = 0]
  /\ calm' = [s \in Sessions |-> FALSE]
  /\ own' = [s \in Sessions |-> own[s] /\ (pc[s] = "cookies" => d[1] # db[s][1])]
  /\ UNCHANGED <<now, override, pc, todo, best, db, answer, began>>

Tick ==
  /\ now < MaxTime /\ now' = now + 1
  /\ UNCHANGED <<written, override, pc, todo, best, db, answer, began, calm, own>>

Next ==
  \/ Tick \/ \E d \in Databases : WriteDb(d) \/ RemoveDb(d)
  \/ \E s \in Sessions : Open(s) \/ Look(s) \/ NoDbPath(s) \/ RootFound(s) \/ Opened(s)
                        \/ DbMissing(s) \/ Fetch(s) \/ CookiesFound(s) \/ Close(s)

Spec == Init /\ [][Next]_vars

-----------------------------------------------------------------------------
(* Properties *)

Path == {NoDb} \cup (Roots \X (ToSet(Origins) \cup CookieFiles))

TypeOK ==
  /\ now \in 1..MaxTime /\ written \in [Databases -> 0..now]
  /\ override \in [db : {NoDb} \cup Databases, cookies : {NoDb} \cup NamedCookies]
  /\ pc \in [Sessions -> {"idle", "root", "origin", "cookies"}]
  /\ \A s \in Sessions :
       /\ ToSet(todo[s]) \subseteq ToSet(AllDirs)
       /\ best[s].time \in 0..now /\ best[s].dir[1] \in Roots \cup {NoPath}
       /\ best[s].time > 0 => best[s].dir \in Databases
       /\ db[s] \in {NoDb} \cup Databases /\ answer[s].path \in Path /\ began[s] \in 0..now
  /\ calm \in [Sessions -> BOOLEAN] /\ own \in [Sessions -> BOOLEAN]

\* What the search finds, a database to open or a profile whose cookies to read, is in
\* use: it was written at least as recently as any database had been when the search
\* began, although the directories are looked at one after another while they are
\* written.  A database that exists is found.  (Unless one is removed meanwhile: then
\* it may be the one chosen, and an older one or none is what is left.)  What
\* TEAMS_MCP_DB or TEAMS_MCP_COOKIES names is not searched for, and may be of any age.
ChoosesRecent ==
  \A s \in Sessions : calm[s] =>
    /\ answer[s].kind = "opened" /\ override.db = NoDb => WrittenAt(answer[s].path) >= began[s]
    /\ answer[s].kind = "cookies" /\ override.cookies = NoDb =>
         NewestIn(answer[s].path[1]) >= began[s]
    /\ answer[s].kind = "no_db_path" => began[s] = 0
    /\ answer[s].kind = "db_missing" => override.db # NoDb

\* db_path is settled once per session, the cookies anew at every fetch.  When the
\* cookies are searched for, they are of the session's profile as long as it is the one
\* written last when the fetch begins and no other is written during it (else they may
\* be another profile's).  When both variables are set, to one profile, they are of the
\* session's profile whatever the browsers do.
CookiesOfOwnProfile ==
  \A s \in Sessions :
    /\ own[s] /\ override.cookies = NoDb =>
         /\ answer[s].kind = "cookies" => answer[s].path[1] = db[s][1]
         /\ answer[s].kind = "no_cookies_db" => Layout[db[s][1]] = "none"
    /\ NoDb \notin {override.db, override.cookies} /\ override.db[1] = override.cookies[1] =>
         (answer[s].kind = "cookies" => answer[s].path[1] = db[s][1])
=============================================================================
