---------------------------- MODULE CookieFetch -----------------------------
(***************************************************************************)
(* fetch_ams_image and load_asyncgw_cookies of crates/teams-core/src/      *)
(* media.rs, run by several threads at once.  Each copies the browser's    *)
(* Cookies database to one fixed temporary file, opens the copy, prepares  *)
(* the query, loads the decryption key (a subprocess or the key store),    *)
(* reads the rows, removes the file and sends the request.  Every early    *)
(* return before that leaves the file behind.                              *)
(*                                                                         *)
(* The browser writes Cookies meanwhile; `source' counts its writes.  A    *)
(* file is abstracted to the writes its bytes come from: one when it was   *)
(* copied in one piece.  Decryption and the contents of the request and    *)
(* its answer are left out.                                                *)
(***************************************************************************)
EXTENDS Naturals, FiniteSets

CONSTANTS
  Threads,    \* threads of the blocking pool
  MaxSource   \* bound: versions of the Cookies database, from 1

ASSUME FetchAssumption == IsFiniteSet(Threads) /\ MaxSource \in Nat \ {0}

VARIABLES
  source,     \* current version of the Cookies database, 0 while there is none
  path,       \* the file the temporary name refers to, 0 for none
  files,      \* file -> [writers, parts]: who is copying into it, what it holds
  pc,
  file,       \* the file each thread has open
  result,     \* [kind, version]: the cookies read, then sent, or the error returned
  began,      \* source when the fetch began (history)
  alone,      \* no other fetch overlapped this one (history)
  still       \* Cookies was not written while being copied (history)

vars == <<source, path, files, pc, file, result, began, alone, still>>

\* One file under the name and one open in each thread: an unlinked file is gone
\* when nobody has it open, and its number is used again.
Files == 1..(Cardinality(Threads) + 1)
Broken == 0      \* the part left by a copy that failed
Errors == {"forbidden_host", "no_cookies_db", "io", "cookies", "key", "decrypt",
           "http"}

Result(kind) == [kind |-> kind, version |-> 0]
Cookies(v) == [kind |-> "ok", version |-> v]
ResultType == {Cookies(v) : v \in 1..MaxSource}
                \cup {Result(k) : k \in {"none", "garbled"} \cup Errors}
Cell == [writers : SUBSET Threads, parts : SUBSET (0..MaxSource)]

Init ==
  /\ source \in {0, 1} /\ path = 0
  /\ files = [f \in Files |-> [writers |-> {}, parts |-> {}]]
  /\ pc = [t \in Threads |-> "idle"]
  /\ file = [t \in Threads |-> 0]
  /\ result = [t \in Threads |-> Result("none")]
  /\ began = [t \in Threads |-> source]
  /\ alone = [t \in Threads |-> TRUE]
  /\ still = [t \in Threads |-> TRUE]

-----------------------------------------------------------------------------
Goto(t, label) == pc' = [pc EXCEPT ![t] = label]

\* The `?' operator: nothing is cleaned up.
Fail(t, error) ==
  /\ Goto(t, "idle")
  /\ result' = [result EXCEPT ![t] = Result(error)]

Active == {t \in Threads : pc[t] # "idle"}
Unused == Files \ ({path} \cup {file[t] : t \in Threads})
NewFile == CHOOSE f \in Unused : TRUE

Begin(t, answer) ==
  /\ began' = [began EXCEPT ![t] = source]
  /\ still' = [still EXCEPT ![t] = TRUE]
  /\ alone' = [u \in Threads |-> IF u = t THEN Active = {}
                                 ELSE alone[u] /\ u \notin Active]
  /\ result' = [result EXCEPT ![t] = Result(answer)]

\* The URL names no host, or not one of the image service's.
ForbiddenHost(t) ==
  /\ pc[t] = "idle" /\ Begin(t, "forbidden_host")
  /\ UNCHANGED <<source, path, files, pc, file>>

\* path.exists() fails: nothing is copied.
NoCookiesDb(t) ==
  /\ pc[t] = "idle" /\ source = 0
  /\ Begin(t, "no_cookies_db")
  /\ UNCHANGED <<source, path, files, pc, file>>

\* std::fs::copy opens Cookies and creates the temporary file, or truncates the
\* one that is there, whoever is writing or reading it.
StartCopy(t, f) ==
  /\ path' = f /\ file' = [file EXCEPT ![t] = f]
  /\ files' = [files EXCEPT ![f] =
       IF f = path THEN [writers |-> @.writers \cup {t},
                         parts |-> {source} \cup IF @.writers = {} THEN {} ELSE @.parts]
       ELSE [writers |-> {t}, parts |-> {source}]]
  /\ Goto(t, "copy")

\* A wrong CopyBegin: an existing copy is used again.
CopyIfMissing(t) ==
  /\ pc[t] = "idle" /\ source # 0 /\ Begin(t, "none")
  /\ IF path # 0 THEN Goto(t, "open") /\ UNCHANGED <<path, files, file>>
     ELSE StartCopy(t, NewFile)
  /\ UNCHANGED source

CopyBegin(t) ==
  /\ pc[t] = "idle" /\ source # 0 /\ Begin(t, "none")
  /\ StartCopy(t, IF path # 0 THEN path ELSE NewFile)
  /\ UNCHANGED source

CopyEnd(t) ==
  /\ pc[t] = "copy"
  /\ files' = [files EXCEPT ![file[t]].writers = @ \ {t}]
  /\ file' = [file EXCEPT ![t] = 0]
  /\ Goto(t, "open")
  /\ UNCHANGED <<source, path, result, began, alone, still>>

CopyFails(t) ==
  /\ pc[t] = "copy"
  /\ files' = [files EXCEPT ![file[t]] = [writers |-> @.writers \ {t},
                                          parts |-> @.parts \cup {Broken}]]
  /\ file' = [file EXCEPT ![t] = 0]
  /\ Fail(t, "io")
  /\ UNCHANGED <<source, path, began, alone, still>>

\* A wrong Open: the name is taken to be there still.
OpenUnchecked(t) ==
  /\ pc[t] = "open"
  /\ file' = [file EXCEPT ![t] = path] /\ Goto(t, "prepare")
  /\ UNCHANGED <<source, path, files, result, began, alone, still>>

\* Connection::open_with_flags: the file the name refers to now.
Open(t) ==
  /\ pc[t] = "open"
  /\ IF path = 0 THEN Fail(t, "cookies") /\ UNCHANGED file
     ELSE /\ file' = [file EXCEPT ![t] = path]
          /\ Goto(t, "prepare") /\ UNCHANGED result
  /\ UNCHANGED <<source, path, files, began, alone, still>>

\* A file that is one database, and the version it is.
Whole(f) == files[f].writers = {} /\ files[f].parts # {Broken}
              /\ Cardinality(files[f].parts) = 1
Version(f) == CHOOSE v \in files[f].parts : TRUE

\* conn.prepare reads the schema: it may fail on a file that is not whole.
Prepare(t) ==
  /\ pc[t] = "prepare"
  /\ \/ Goto(t, "key") /\ UNCHANGED <<result, file>>
     \/ /\ ~Whole(file[t])
        /\ Fail(t, "cookies") /\ file' = [file EXCEPT ![t] = 0]
  /\ UNCHANGED <<source, path, files, began, alone, still>>

\* CookieCipher::load
LoadKey(t) ==
  /\ pc[t] = "key"
  /\ \/ Goto(t, "rows") /\ UNCHANGED <<result, file>>
     \/ Fail(t, "key") /\ file' = [file EXCEPT ![t] = 0]
  /\ UNCHANGED <<source, path, files, began, alone, still>>

\* The rows are read only now; of a file that is not whole they may be
\* unreadable, or wrong, or missing.
ReadRows(t) ==
  /\ pc[t] = "rows"
  /\ \/ /\ Whole(file[t])
        /\ result' = [result EXCEPT ![t] = Cookies(Version(file[t]))] /\ Goto(t, "remove")
     \/ /\ ~Whole(file[t])
        /\ result' = [result EXCEPT ![t] = Result("garbled")] /\ Goto(t, "remove")
     \/ ~Whole(file[t]) /\ Fail(t, "cookies")
  /\ file' = [file EXCEPT ![t] = 0]
  /\ UNCHANGED <<source, path, files, began, alone, still>>

\* remove_file, its error ignored: the name goes, whoever made the file.
RemoveFile(t) ==
  /\ pc[t] = "remove"
  /\ path' = 0
  /\ Goto(t, "request")
  /\ UNCHANGED <<source, files, file, result, began, alone, still>>

\* No cookie could be decrypted, the request fails, or its answer cannot be read.
RequestFails(t) ==
  /\ pc[t] = "request"
  /\ \E error \in {"decrypt", "http", "io"} : Fail(t, error)
  /\ UNCHANGED <<source, path, files, file, began, alone, still>>

\* The request is made with the cookies and answered.
Request(t) ==
  /\ pc[t] = "request"
  /\ Goto(t, "idle")
  /\ UNCHANGED <<source, path, files, file, result, began, alone, still>>

\* The browser writes its cookies, perhaps in the middle of a copy.
SourceWrite ==
  /\ source < MaxSource
  /\ source' = source + 1
  /\ files' = [f \in Files |->
                 [files[f] EXCEPT !.parts = IF files[f].writers = {} THEN @
                                            ELSE @ \cup {source + 1}]]
  /\ still' = [t \in Threads |-> still[t] /\ pc[t] # "copy"]
  /\ UNCHANGED <<path, pc, file, result, began, alone>>

Fetch(t) == ForbiddenHost(t) \/ NoCookiesDb(t) \/ CopyBegin(t) \/ CopyEnd(t)
              \/ CopyFails(t) \/ Open(t) \/ Prepare(t) \/ LoadKey(t) \/ ReadRows(t)
              \/ RemoveFile(t) \/ RequestFails(t) \/ Request(t)

Next == SourceWrite \/ \E t \in Threads : Fetch(t)

Spec == Init /\ [][Next]_vars

-----------------------------------------------------------------------------
(* Properties *)

TypeOK ==
  /\ source \in 0..MaxSource /\ path \in {0} \cup Files
  /\ files \in [Files -> Cell]
  /\ pc \in [Threads -> {"idle", "copy", "open", "prepare", "key", "rows", "remove",
                     "request"}]
  /\ file \in [Threads -> {0} \cup Files]
  /\ result \in [Threads -> ResultType]
  /\ began \in [Threads -> 0..MaxSource]
  /\ alone \in [Threads -> BOOLEAN] /\ still \in [Threads -> BOOLEAN]
  /\ \A t \in Threads : file[t] # 0 <=> pc[t] \in {"copy", "prepare", "key", "rows"}
  /\ path # 0 => files[path].parts # {}

\* A fetch that no other overlaps, and during whose copy the browser does not
\* write, sends exactly the cookies there were.  It never fails on the database,
\* and reports that there is none only if there was none: what earlier fetches
\* left behind under the name does not show.
AloneIsExact ==
  \A t \in Threads : alone[t] /\ still[t] =>
    /\ result[t].kind = "ok" => result[t].version = began[t]
    /\ result[t].kind \notin {"cookies", "garbled"}
    /\ result[t].kind = "no_cookies_db" => began[t] = 0

\* However fetches overlap, cookies from a whole file are never older than the
\* fetch that sends them.
NeverOlder ==
  \A t \in Threads : result[t].kind = "ok" => result[t].version >= began[t]

\* "copy to a temporary file and read that, to avoid the lock on the database"
\* (media.rs, load_asyncgw_cookies): reading the copy does not fail.  Violated by
\* two fetches at once: one truncates or removes the copy the other reads.
CopyIsReadable ==
  \A t \in Threads : result[t].kind \notin {"cookies", "garbled"}
=============================================================================
