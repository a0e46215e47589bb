----------------------------- MODULE ToolProofs -----------------------------
(***************************************************************************)
(* Proofs about what the tools do besides reading the store.  CookieFetch: *)
(* a fetch never sends cookies older than those there were when it began,  *)
(* and one that runs alone sends exactly those.  Clipboard: what was       *)
(* copied stays there.  Both for every set of threads of the blocking      *)
(* pool.  Formats: the keys of every record come back as they were         *)
(* written, for every name, id and payload, and the date of every day is   *)
(* the calendar's.                                                         *)
(***************************************************************************)
EXTENDS CookieFetch, Clipboard, Formats, SequenceLemmas

-----------------------------------------------------------------------------
(* The image fetch *)

\* There is always a file that has no name and is open nowhere.
LEMMA NewFileIsUnused ==
  ASSUME path = 0, file \in [Threads -> {0} \cup Files]
  PROVE  NewFile \in Files /\ \A t \in Threads : NewFile # file[t]
<1> DEFINE n == Cardinality(Threads)
           T == {file[t] : t \in Threads}
<1>1. n \in Nat
  BY FetchAssumption, FS_CardinalityType
<1>2. IsFiniteSet(T) /\ Cardinality(T) <= n
  <2>1. file \in Surjection(Threads, T)
    BY DEF Surjection
  <2> QED
    BY <2>1, FetchAssumption, FS_Surjection
<1>3. IsFiniteSet(Files) /\ Cardinality(Files) = n + 1
  BY <1>1, FS_Interval DEF Files
<1>4. Unused # {}
  <2> SUFFICES ASSUME Unused = {} PROVE FALSE
    OBVIOUS
  <2>1. 0 \notin Files
    BY <1>1 DEF Files
  <2>2. Files \subseteq T
    BY <2>1 DEF Unused
  <2>3. Cardinality(T) \in Nat
    BY <1>2, FS_CardinalityType
  <2> QED
    BY <1>1, <1>2, <1>3, <2>2, <2>3, FS_Subset
<1> QED
  BY <1>4 DEF NewFile, Unused

-----------------------------------------------------------------------------
\* What Whole and Version mean: the file holds one version and nothing else.
LEMMA WholeVersion ==
  ASSUME TypeOK, NEW f \in Files, Whole(f)
  PROVE  /\ Version(f) \in 1..MaxSource
         /\ files[f].parts = {Version(f)}
<1>1. files[f].parts \subseteq 0..MaxSource
  BY DEF TypeOK, Cell
<1>2. IsFiniteSet(files[f].parts)
  <2>1. IsFiniteSet(0..MaxSource)
    BY FetchAssumption, FS_Interval
  <2> QED
    BY <1>1, <2>1, FS_Subset
<1>3. PICK v : files[f].parts = {v}
  BY <1>2, FS_Singleton DEF Whole
<1>4. Version(f) = v
  BY <1>3 DEF Version
<1>5. v # 0
  BY <1>3 DEF Whole, Broken
<1>6. v \in 1..MaxSource
  BY <1>1, <1>3, <1>5, FetchAssumption
<1> QED
  BY <1>3, <1>4, <1>6

\* What a thread may have fetched.
LEMMA ResultsAreTyped ==
  /\ \A v \in 1..MaxSource : Cookies(v) \in ResultType
  /\ \A k \in {"none", "garbled"} \cup Errors : Result(k) \in ResultType
BY DEF ResultType

\* A file that one write left, and nobody is copying into, is whole.
LEMMA OneWriteIsWhole ==
  ASSUME NEW f \in Files, NEW v \in 1..MaxSource,
         files[f].parts = {v}, files[f].writers = {}
  PROVE  Whole(f) /\ Version(f) = v
<1>1. Cardinality({v}) = 1
  BY FS_Singleton
<1> QED
  BY <1>1 DEF Whole, Version, Broken

-----------------------------------------------------------------------------
\* A file has bytes no older than thread t's fetch.
Recent(t, f) == \E v \in files[f].parts : v >= began[t]

\* Whatever other fetches do to the name meanwhile, the file that a fetch has
\* open, or will find under the name, has bytes no older than the fetch: a copy
\* that reuses the file adds newer ones.
MadeInv ==
  \A t \in Threads :
    /\ began[t] <= source
    /\ pc[t] \in {"copy", "open"} /\ path # 0 => Recent(t, path)
    /\ file[t] # 0 => Recent(t, file[t])

\* A fetch that runs alone finds its own copy under the name and reads it.
AloneInv ==
  \A t \in Threads : alone[t] =>
    /\ pc[t] # "idle" => \A u \in Threads \ {t} : pc[u] = "idle"
    /\ pc[t] \in {"copy", "open"} => path # 0 /\ began[t] # 0
    /\ pc[t] = "copy" => file[t] = path
    /\ pc[t] \in {"prepare", "key", "rows"} => began[t] # 0
    /\ still[t] /\ pc[t] \in {"copy", "open"} => files[path].parts = {began[t]}
    /\ still[t] /\ pc[t] \in {"prepare", "key", "rows"} =>
         files[file[t]].parts = {began[t]}

\* Only threads that copy write to a file, each to the one it has open.
WritersInv ==
  \A f \in Files : \A t \in files[f].writers : pc[t] = "copy" /\ file[t] = f

IInv == TypeOK /\ WritersInv /\ MadeInv /\ AloneInv /\ AloneIsExact /\ NeverOlder

\* Copies end before their threads go on.
LEMMA WritersStep == IInv /\ [Next]_vars => WritersInv'
<1> SUFFICES ASSUME IInv, [Next]_vars PROVE WritersInv'
  OBVIOUS
<1> USE FetchAssumption DEF IInv, TypeOK, Cell, WritersInv, Goto, Fail, Begin, StartCopy
<1>1. CASE UNCHANGED vars
  BY <1>1 DEF vars
<1>2. CASE SourceWrite
  BY <1>2 DEF SourceWrite
<1>3. ASSUME NEW t \in Threads, ForbiddenHost(t) PROVE WritersInv'
  BY <1>3 DEF ForbiddenHost
<1>4. ASSUME NEW t \in Threads, NoCookiesDb(t) PROVE WritersInv'
  BY <1>4 DEF NoCookiesDb
<1>5. ASSUME NEW t \in Threads, CopyBegin(t) PROVE WritersInv'
  BY <1>5 DEF CopyBegin
<1>6. ASSUME NEW t \in Threads, CopyEnd(t) PROVE WritersInv'
  BY <1>6 DEF CopyEnd
<1>7. ASSUME NEW t \in Threads, CopyFails(t) PROVE WritersInv'
  BY <1>7 DEF CopyFails
<1>8. ASSUME NEW t \in Threads, Open(t) PROVE WritersInv'
  BY <1>8 DEF Open
<1>9. ASSUME NEW t \in Threads, Prepare(t) PROVE WritersInv'
  BY <1>9 DEF Prepare
<1>10. ASSUME NEW t \in Threads, LoadKey(t) PROVE WritersInv'
  BY <1>10 DEF LoadKey
<1>11. ASSUME NEW t \in Threads, ReadRows(t) PROVE WritersInv'
  BY <1>11 DEF ReadRows
<1>12. ASSUME NEW t \in Threads, RemoveFile(t) PROVE WritersInv'
  BY <1>12 DEF RemoveFile
<1>13. ASSUME NEW t \in Threads, RequestFails(t) PROVE WritersInv'
  BY <1>13 DEF RequestFails
<1>14. ASSUME NEW t \in Threads, Request(t) PROVE WritersInv'
  BY <1>14 DEF Request
<1> QED
  BY <1>1, <1>2, <1>3, <1>4, <1>5, <1>6, <1>7, <1>8, <1>9, <1>10, <1>11, <1>12, <1>13, <1>14 DEF Next, Fetch

\* Every variable keeps its type.
LEMMA TypeStep == IInv /\ [Next]_vars => TypeOK'
<1> SUFFICES ASSUME IInv, [Next]_vars PROVE TypeOK'
  OBVIOUS
<1> USE FetchAssumption, ResultsAreTyped DEF IInv, TypeOK, Cell, Errors, Files, Goto, Fail, Begin, StartCopy
<1>1. CASE UNCHANGED vars
  BY <1>1 DEF vars
<1>2. CASE SourceWrite
  <2>1. source' \in 0..MaxSource /\ source + 1 \in 0..MaxSource
    BY <1>2 DEF SourceWrite
  <2>2. ASSUME NEW f \in Files
        PROVE  files'[f] \in Cell /\ files[f].parts \subseteq files'[f].parts
    <3>1. files'[f] = [files[f] EXCEPT !.parts = IF files[f].writers = {} THEN @
                                                 ELSE @ \cup {source'}]
      BY <1>2 DEF SourceWrite
    <3>2. files[f] \in Cell
      BY DEF TypeOK
    <3> QED
      BY ONLY <2>1, <3>1, <3>2 DEF Cell
  <2>3. files' \in [Files -> Cell]
    BY <1>2, <2>2 DEF SourceWrite
  <2>4. still' \in [Threads -> BOOLEAN]
    BY <1>2 DEF SourceWrite
  <2>5. UNCHANGED <<path, pc, file, result, began, alone>>
    BY <1>2 DEF SourceWrite
  <2> QED
    BY <2>1, <2>2, <2>3, <2>4, <2>5
<1>3. ASSUME NEW t \in Threads, ForbiddenHost(t) PROVE TypeOK'
  BY <1>3 DEF ForbiddenHost
<1>4. ASSUME NEW t \in Threads, NoCookiesDb(t) PROVE TypeOK'
  BY <1>4 DEF NoCookiesDb
<1>5. ASSUME NEW t \in Threads, CopyBegin(t) PROVE TypeOK'
  <2> DEFINE f == IF path # 0 THEN path ELSE NewFile
  <2>1. f \in Files
    BY NewFileIsUnused
  <2>2. source \in 1..MaxSource
    BY <1>5 DEF CopyBegin
  <2>3. path' = f /\ file' = [file EXCEPT ![t] = f] /\ f # 0
    BY <1>5, <2>1 DEF CopyBegin
  <2>4. /\ files' \in [Files -> Cell]
        /\ source \in files'[f].parts
    BY <1>5, <2>1, <2>2 DEF CopyBegin
  <2>5. pc' = [pc EXCEPT ![t] = "copy"] /\ source' = source
    BY <1>5 DEF CopyBegin
  <2>6. result' \in [Threads -> ResultType]
    BY <1>5 DEF CopyBegin
  <2>7. began' \in [Threads -> 0..MaxSource] /\ still' \in [Threads -> BOOLEAN]
    BY <1>5 DEF CopyBegin
  <2>8. alone' \in [Threads -> BOOLEAN]
    BY <1>5 DEF CopyBegin
  <2> QED
    BY <2>1, <2>3, <2>4, <2>5, <2>6, <2>7, <2>8
<1>6. ASSUME NEW t \in Threads, CopyEnd(t) PROVE TypeOK'
  <2>1. /\ UNCHANGED <<source, path, result, began, alone, still>>
        /\ files' \in [Files -> Cell]
        /\ \A f \in Files : files'[f].parts = files[f].parts
    <3>1. files' = [files EXCEPT ![file[t]].writers = @ \ {t}]
      BY <1>6 DEF CopyEnd
    <3>2. \A f \in Files : files[f] \in Cell
      BY DEF TypeOK
    <3>3. \A f \in Files : /\ files'[f] \in Cell
                           /\ files'[f].parts = files[f].parts
      BY ONLY <3>1, <3>2, files \in [Files -> Cell] DEF Cell
    <3>4. files' \in [Files -> Cell]
      BY ONLY <3>1, <3>3, files \in [Files -> Cell]
    <3> QED
      BY <1>6, <3>3, <3>4 DEF CopyEnd
  <2>2. /\ file' = [file EXCEPT ![t] = 0]
        /\ pc' = [pc EXCEPT ![t] = "open"]
    BY <1>6 DEF CopyEnd
  <2> QED
    BY <2>1, <2>2
<1>7. ASSUME NEW t \in Threads, CopyFails(t) PROVE TypeOK'
  <2>1. result' \in [Threads -> ResultType]
    BY <1>7 DEF CopyFails
  <2>2. /\ files' \in [Files -> Cell]
        /\ path' # 0 => files'[path'].parts # {}
    BY <1>7 DEF CopyFails, Broken
  <2>3. /\ file' \in [Threads -> {0} \cup Files]
        /\ \A u \in Threads \ {t} : pc'[u] = pc[u] /\ file'[u] = file[u]
        /\ file'[t] # 0 <=> pc'[t] \in {"copy", "prepare", "key", "rows"}
    <3>1. file'[t] = 0 /\ pc'[t] = "idle"
      BY <1>7 DEF CopyFails
    <3>2. file' = [file EXCEPT ![t] = 0] /\ pc' = [pc EXCEPT ![t] = "idle"]
      BY <1>7 DEF CopyFails
    <3> QED
      BY <3>1, <3>2
  <2>4. /\ pc' \in [Threads -> {"idle", "copy", "open", "prepare", "key", "rows",
                              "remove", "request"}]
        /\ UNCHANGED <<source, path, began, alone, still>>
    BY <1>7 DEF CopyFails
  <2>5. \A u \in Threads :
          file'[u] # 0 <=> pc'[u] \in {"copy", "prepare", "key", "rows"}
    BY <2>3
  <2> QED
    BY <2>1, <2>2, <2>3, <2>4, <2>5
<1>8. ASSUME NEW t \in Threads, Open(t) PROVE TypeOK'
  <2>1. result' \in [Threads -> ResultType]
    BY <1>8 DEF Open
  <2>2. /\ files' \in [Files -> Cell]
        /\ path' # 0 => files'[path'].parts # {}
    BY <1>8 DEF Open
  <2>3. /\ file' \in [Threads -> {0} \cup Files]
        /\ \A u \in Threads \ {t} : pc'[u] = pc[u] /\ file'[u] = file[u]
        /\ file'[t] # 0 <=> pc'[t] \in {"copy", "prepare", "key", "rows"}
    <3>1. CASE path = 0
      <4>1. file' = file /\ pc' = [pc EXCEPT ![t] = "idle"] /\ file[t] = 0
        BY <1>8, <3>1 DEF Open
      <4> QED
        BY <4>1
    <3>2. CASE path # 0
      <4>1. file' = [file EXCEPT ![t] = path] /\ pc' = [pc EXCEPT ![t] = "prepare"]
        BY <1>8, <3>2 DEF Open
      <4> QED
        BY <3>2, <4>1
    <3> QED
      BY <3>1, <3>2
  <2>4. /\ pc' \in [Threads -> {"idle", "copy", "open", "prepare", "key", "rows",
                              "remove", "request"}]
        /\ UNCHANGED <<source, path, began, alone, still>>
    BY <1>8 DEF Open
  <2>5. \A u \in Threads :
          file'[u] # 0 <=> pc'[u] \in {"copy", "prepare", "key", "rows"}
    BY <2>3
  <2> QED
    BY <2>1, <2>2, <2>3, <2>4, <2>5
<1>9. ASSUME NEW t \in Threads, Prepare(t) PROVE TypeOK'
  <2>1. result' \in [Threads -> ResultType]
    BY <1>9 DEF Prepare
  <2>2. /\ files' \in [Files -> Cell]
        /\ path' # 0 => files'[path'].parts # {}
    BY <1>9 DEF Prepare
  <2>3. /\ file' \in [Threads -> {0} \cup Files]
        /\ \A u \in Threads \ {t} : pc'[u] = pc[u] /\ file'[u] = file[u]
        /\ file'[t] # 0 <=> pc'[t] \in {"copy", "prepare", "key", "rows"}
    <3>1. \/ file' = file /\ pc' = [pc EXCEPT ![t] = "key"] /\ file[t] # 0
          \/ file' = [file EXCEPT ![t] = 0] /\ pc' = [pc EXCEPT ![t] = "idle"]
      BY <1>9 DEF Prepare
    <3> QED
      BY <3>1
  <2>4. /\ pc' \in [Threads -> {"idle", "copy", "open", "prepare", "key", "rows",
                              "remove", "request"}]
        /\ UNCHANGED <<source, path, began, alone, still>>
    BY <1>9 DEF Prepare
  <2>5. \A u \in Threads :
          file'[u] # 0 <=> pc'[u] \in {"copy", "prepare", "key", "rows"}
    BY <2>3
  <2> QED
    BY <2>1, <2>2, <2>3, <2>4, <2>5
<1>10. ASSUME NEW t \in Threads, LoadKey(t) PROVE TypeOK'
  <2>1. result' \in [Threads -> ResultType]
    BY <1>10 DEF LoadKey
  <2>2. /\ files' \in [Files -> Cell]
        /\ path' # 0 => files'[path'].parts # {}
    BY <1>10 DEF LoadKey
  <2>3. /\ file' \in [Threads -> {0} \cup Files]
        /\ \A u \in Threads \ {t} : pc'[u] = pc[u] /\ file'[u] = file[u]
        /\ file'[t] # 0 <=> pc'[t] \in {"copy", "prepare", "key", "rows"}
    <3>1. \/ file' = file /\ pc' = [pc EXCEPT ![t] = "rows"] /\ file[t] # 0
          \/ file' = [file EXCEPT ![t] = 0] /\ pc' = [pc EXCEPT ![t] = "idle"]
      BY <1>10 DEF LoadKey
    <3> QED
      BY <3>1
  <2>4. /\ pc' \in [Threads -> {"idle", "copy", "open", "prepare", "key", "rows",
                              "remove", "request"}]
        /\ UNCHANGED <<source, path, began, alone, still>>
    BY <1>10 DEF LoadKey
  <2>5. \A u \in Threads :
          file'[u] # 0 <=> pc'[u] \in {"copy", "prepare", "key", "rows"}
    BY <2>3
  <2> QED
    BY <2>1, <2>2, <2>3, <2>4, <2>5
<1>11. ASSUME NEW t \in Threads, ReadRows(t) PROVE TypeOK'
  <2>1. file[t] \in Files
    BY <1>11 DEF ReadRows
  <2>2. result' \in [Threads -> ResultType]
    BY <1>11, <2>1, WholeVersion DEF ReadRows
  <2>3. /\ file' = [file EXCEPT ![t] = 0]
        /\ pc' = [pc EXCEPT ![t] = "remove"] \/ pc' = [pc EXCEPT ![t] = "idle"]
        /\ UNCHANGED <<source, path, files, began, alone, still>>
    BY <1>11 DEF ReadRows
  <2> QED
    BY <1>11, <2>2, <2>3
<1>12. ASSUME NEW t \in Threads, RemoveFile(t) PROVE TypeOK'
  BY <1>12 DEF RemoveFile
<1>13. ASSUME NEW t \in Threads, RequestFails(t) PROVE TypeOK'
  BY <1>13 DEF RequestFails
<1>14. ASSUME NEW t \in Threads, Request(t) PROVE TypeOK'
  BY <1>14 DEF Request
<1> QED
  BY <1>1, <1>2, <1>3, <1>4, <1>5, <1>6, <1>7, <1>8, <1>9, <1>10, <1>11, <1>12, <1>13, <1>14 DEF Next, Fetch

\* A file under the name or open in a thread only gets newer bytes.
LEMMA MadeStep == IInv /\ [Next]_vars => MadeInv'
<1> SUFFICES ASSUME IInv, [Next]_vars PROVE MadeInv'
  OBVIOUS
<1> USE FetchAssumption DEF IInv, TypeOK, Cell, MadeInv, Recent, Goto, Fail, Begin, StartCopy
<1>1. CASE UNCHANGED vars
  BY <1>1 DEF vars
<1>2. CASE SourceWrite
  BY <1>2 DEF SourceWrite
<1>3. ASSUME NEW t \in Threads, ForbiddenHost(t) PROVE MadeInv'
  BY <1>3 DEF ForbiddenHost
<1>4. ASSUME NEW t \in Threads, NoCookiesDb(t) PROVE MadeInv'
  BY <1>4 DEF NoCookiesDb
<1>5. ASSUME NEW t \in Threads, CopyBegin(t) PROVE MadeInv'
  BY <1>5, NewFileIsUnused DEF CopyBegin
<1>6. ASSUME NEW t \in Threads, CopyEnd(t) PROVE MadeInv'
  BY <1>6 DEF CopyEnd
<1>7. ASSUME NEW t \in Threads, CopyFails(t) PROVE MadeInv'
  BY <1>7 DEF CopyFails
<1>8. ASSUME NEW t \in Threads, Open(t) PROVE MadeInv'
  BY <1>8 DEF Open
<1>9. ASSUME NEW t \in Threads, Prepare(t) PROVE MadeInv'
  BY <1>9 DEF Prepare
<1>10. ASSUME NEW t \in Threads, LoadKey(t) PROVE MadeInv'
  BY <1>10 DEF LoadKey
<1>11. ASSUME NEW t \in Threads, ReadRows(t) PROVE MadeInv'
  BY <1>11 DEF ReadRows
<1>12. ASSUME NEW t \in Threads, RemoveFile(t) PROVE MadeInv'
  BY <1>12 DEF RemoveFile
<1>13. ASSUME NEW t \in Threads, RequestFails(t) PROVE MadeInv'
  BY <1>13 DEF RequestFails
<1>14. ASSUME NEW t \in Threads, Request(t) PROVE MadeInv'
  BY <1>14 DEF Request
<1> QED
  BY <1>1, <1>2, <1>3, <1>4, <1>5, <1>6, <1>7, <1>8, <1>9, <1>10, <1>11, <1>12, <1>13, <1>14 DEF Next, Fetch

\* A fetch that begins is alone if no other is running, and ends that of others.
LEMMA BeginAlone ==
  ASSUME NEW t \in Threads, NEW answer, Begin(t, answer)
  PROVE  /\ alone'[t] => Active = {}
         /\ \A u \in Threads \ {t} : alone'[u] => alone[u] /\ u \notin Active
BY DEF Begin

\* While a fetch is alone its copy stays as it was made.
LEMMA AloneStep == IInv /\ [Next]_vars => AloneInv'
<1> SUFFICES ASSUME IInv, [Next]_vars PROVE AloneInv'
  OBVIOUS
<1> USE FetchAssumption DEF IInv, TypeOK, Cell, WritersInv, AloneInv, Active, Goto, Fail, Begin, StartCopy
<1>1. CASE UNCHANGED vars
  BY <1>1 DEF vars
<1>2. CASE SourceWrite
  <2>1. ASSUME NEW t \in Threads, still'[t], pc[t] \in {"prepare", "key", "rows"},
               alone[t]
        PROVE  files'[file[t]] = files[file[t]]
    <3>1. files[file[t]].writers = {}
      BY <2>1
    <3> QED
      BY <1>2, <2>1, <3>1 DEF SourceWrite
  <2>2. ASSUME NEW t \in Threads, still'[t], pc[t] = "open", alone[t]
        PROVE  files'[path] = files[path]
    <3>1. files[path].writers = {}
      BY <2>2
    <3> QED
      BY <1>2, <2>2, <3>1 DEF SourceWrite
  <2>3. /\ UNCHANGED <<path, pc, file, began, alone>>
        /\ \A t \in Threads : still'[t] => still[t] /\ pc[t] # "copy"
    BY <1>2 DEF SourceWrite
  <2> QED
    BY <2>1, <2>2, <2>3
<1>3. ASSUME NEW t \in Threads, ForbiddenHost(t) PROVE AloneInv'
  BY <1>3 DEF ForbiddenHost
<1>4. ASSUME NEW t \in Threads, NoCookiesDb(t) PROVE AloneInv'
  BY <1>4 DEF NoCookiesDb
<1>5. ASSUME NEW t \in Threads, CopyBegin(t) PROVE AloneInv'
  <2> DEFINE f == IF path # 0 THEN path ELSE NewFile
  <2>1. f \in Files /\ 0 \notin Files
    BY NewFileIsUnused DEF Files
  <2>2. /\ path' = f /\ pc' = [pc EXCEPT ![t] = "copy"]
        /\ file' = [file EXCEPT ![t] = f]
        /\ began' = [began EXCEPT ![t] = source] /\ source # 0
    BY <1>5 DEF CopyBegin
  <2>3. /\ alone'[t] => Active = {}
        /\ \A u \in Threads \ {t} : alone'[u] => alone[u] /\ u \notin Active
    BY <1>5, BeginAlone DEF CopyBegin
  <2>4. alone'[t] => /\ \A u \in Threads \ {t} : pc'[u] = "idle"
                     /\ files'[f].parts = {source}
    <3>1. Active = {} => files[f].writers = {}
      BY <2>1
    <3> QED
      BY <1>5, <2>1, <2>2, <2>3, <3>1 DEF CopyBegin
  <2>5. \A u \in Threads \ {t} : alone'[u] => pc'[u] = "idle"
    BY <2>2, <2>3
  <2> QED
    BY <2>1, <2>2, <2>4, <2>5
<1>6. ASSUME NEW t \in Threads, CopyEnd(t) PROVE AloneInv'
  BY <1>6 DEF CopyEnd
<1>7. ASSUME NEW t \in Threads, CopyFails(t) PROVE AloneInv'
  BY <1>7 DEF CopyFails
<1>8. ASSUME NEW t \in Threads, Open(t) PROVE AloneInv'
  BY <1>8 DEF Open
<1>9. ASSUME NEW t \in Threads, Prepare(t) PROVE AloneInv'
  BY <1>9 DEF Prepare
<1>10. ASSUME NEW t \in Threads, LoadKey(t) PROVE AloneInv'
  BY <1>10 DEF LoadKey
<1>11. ASSUME NEW t \in Threads, ReadRows(t) PROVE AloneInv'
  BY <1>11 DEF ReadRows
<1>12. ASSUME NEW t \in Threads, RemoveFile(t) PROVE AloneInv'
  BY <1>12 DEF RemoveFile
<1>13. ASSUME NEW t \in Threads, RequestFails(t) PROVE AloneInv'
  BY <1>13 DEF RequestFails
<1>14. ASSUME NEW t \in Threads, Request(t) PROVE AloneInv'
  BY <1>14 DEF Request
<1> QED
  BY <1>1, <1>2, <1>3, <1>4, <1>5, <1>6, <1>7, <1>8, <1>9, <1>10, <1>11, <1>12, <1>13, <1>14 DEF Next, Fetch

\* A fetch that is alone sends what it copied.
LEMMA AloneExactStep == IInv /\ [Next]_vars => AloneIsExact'
<1> SUFFICES ASSUME IInv, [Next]_vars PROVE AloneIsExact'
  OBVIOUS
<1> USE FetchAssumption DEF IInv, TypeOK, Cell, WritersInv, AloneInv, AloneIsExact, Active, Cookies, Result, Goto, Fail, Begin, StartCopy
<1>1. CASE UNCHANGED vars
  BY <1>1 DEF vars
<1>2. CASE SourceWrite
  BY <1>2 DEF SourceWrite
<1>3. ASSUME NEW t \in Threads, ForbiddenHost(t) PROVE AloneIsExact'
  BY <1>3 DEF ForbiddenHost
<1>4. ASSUME NEW t \in Threads, NoCookiesDb(t) PROVE AloneIsExact'
  BY <1>4 DEF NoCookiesDb
<1>5. ASSUME NEW t \in Threads, CopyBegin(t) PROVE AloneIsExact'
  BY <1>5 DEF CopyBegin
<1>6. ASSUME NEW t \in Threads, CopyEnd(t) PROVE AloneIsExact'
  BY <1>6 DEF CopyEnd
<1>7. ASSUME NEW t \in Threads, CopyFails(t) PROVE AloneIsExact'
  BY <1>7 DEF CopyFails
<1>8. ASSUME NEW t \in Threads, Open(t) PROVE AloneIsExact'
  BY <1>8 DEF Open
<1>9. ASSUME NEW t \in Threads, Prepare(t) PROVE AloneIsExact'
  <2>1. alone[t] /\ still[t] => Whole(file[t])
    BY <1>9, OneWriteIsWhole DEF Prepare
  <2> QED
    BY <1>9, <2>1 DEF Prepare
<1>10. ASSUME NEW t \in Threads, LoadKey(t) PROVE AloneIsExact'
  BY <1>10 DEF LoadKey
<1>11. ASSUME NEW t \in Threads, ReadRows(t) PROVE AloneIsExact'
  BY <1>11, OneWriteIsWhole DEF ReadRows
<1>12. ASSUME NEW t \in Threads, RemoveFile(t) PROVE AloneIsExact'
  BY <1>12 DEF RemoveFile
<1>13. ASSUME NEW t \in Threads, RequestFails(t) PROVE AloneIsExact'
  BY <1>13 DEF RequestFails
<1>14. ASSUME NEW t \in Threads, Request(t) PROVE AloneIsExact'
  BY <1>14 DEF Request
<1> QED
  BY <1>1, <1>2, <1>3, <1>4, <1>5, <1>6, <1>7, <1>8, <1>9, <1>10, <1>11, <1>12, <1>13, <1>14 DEF Next, Fetch

\* The rows read have bytes no older than the fetch.
LEMMA OlderStep == IInv /\ [Next]_vars => NeverOlder'
<1> SUFFICES ASSUME IInv, [Next]_vars PROVE NeverOlder'
  OBVIOUS
<1> USE FetchAssumption DEF IInv, TypeOK, Cell, MadeInv, Recent, NeverOlder, Cookies, Result, Goto, Fail, Begin, StartCopy
<1>1. CASE UNCHANGED vars
  BY <1>1 DEF vars
<1>2. CASE SourceWrite
  BY <1>2 DEF SourceWrite
<1>3. ASSUME NEW t \in Threads, ForbiddenHost(t) PROVE NeverOlder'
  BY <1>3 DEF ForbiddenHost
<1>4. ASSUME NEW t \in Threads, NoCookiesDb(t) PROVE NeverOlder'
  BY <1>4 DEF NoCookiesDb
<1>5. ASSUME NEW t \in Threads, CopyBegin(t) PROVE NeverOlder'
  BY <1>5 DEF CopyBegin
<1>6. ASSUME NEW t \in Threads, CopyEnd(t) PROVE NeverOlder'
  BY <1>6 DEF CopyEnd
<1>7. ASSUME NEW t \in Threads, CopyFails(t) PROVE NeverOlder'
  BY <1>7 DEF CopyFails
<1>8. ASSUME NEW t \in Threads, Open(t) PROVE NeverOlder'
  BY <1>8 DEF Open
<1>9. ASSUME NEW t \in Threads, Prepare(t) PROVE NeverOlder'
  BY <1>9 DEF Prepare
<1>10. ASSUME NEW t \in Threads, LoadKey(t) PROVE NeverOlder'
  BY <1>10 DEF LoadKey
<1>11. ASSUME NEW t \in Threads, ReadRows(t) PROVE NeverOlder'
  BY <1>11, WholeVersion DEF ReadRows
<1>12. ASSUME NEW t \in Threads, RemoveFile(t) PROVE NeverOlder'
  BY <1>12 DEF RemoveFile
<1>13. ASSUME NEW t \in Threads, RequestFails(t) PROVE NeverOlder'
  BY <1>13 DEF RequestFails
<1>14. ASSUME NEW t \in Threads, Request(t) PROVE NeverOlder'
  BY <1>14 DEF Request
<1> QED
  BY <1>1, <1>2, <1>3, <1>4, <1>5, <1>6, <1>7, <1>8, <1>9, <1>10, <1>11, <1>12, <1>13, <1>14 DEF Next, Fetch

-----------------------------------------------------------------------------
\* The invariant holds at first.
LEMMA InitIInv == Init => IInv
<1> SUFFICES ASSUME Init PROVE IInv
  OBVIOUS
<1> USE FetchAssumption DEF Init
<1>1. TypeOK
  BY ResultsAreTyped DEF TypeOK, Cell
<1>2. WritersInv /\ MadeInv /\ AloneInv
  BY DEF WritersInv, MadeInv, AloneInv
<1>3. AloneIsExact /\ NeverOlder
  BY DEF AloneIsExact, NeverOlder, Result
<1> QED
  BY <1>1, <1>2, <1>3 DEF IInv

\* It always holds.
THEOREM Invariance == Spec => []IInv
<1>1. IInv /\ [Next]_vars => IInv'
  BY WritersStep, TypeStep, MadeStep, AloneStep, AloneExactStep, OlderStep DEF IInv
<1> QED
  BY InitIInv, <1>1, PTL DEF Spec

\* Every variable keeps its type, and every open file is one there is.
THEOREM FetchType == Spec => []TypeOK
<1>1. IInv => TypeOK
  BY DEF IInv
<1> QED
  BY Invariance, <1>1, PTL

\* However fetches overlap, cookies are never older than the fetch that sends them.
THEOREM Recency == Spec => []NeverOlder
<1>1. IInv => NeverOlder
  BY DEF IInv
<1> QED
  BY Invariance, <1>1, PTL

\* A fetch that runs alone sends exactly the cookies of the moment, whatever
\* earlier fetches left under the temporary name.
THEOREM Exactness == Spec => []AloneIsExact
<1>1. IInv => AloneIsExact
  BY DEF IInv
<1> QED
  BY Invariance, <1>1, PTL

-----------------------------------------------------------------------------
(* The clipboard.  The instance in the cell is never dropped, because a thread that
   loses OnceLock::set drops its own instance, and nothing was ever written through
   that one. *)

\* The instance in the cell exists, its maker will not set or drop it again, and
\* one about to be set exists.
CellInv ==
  /\ cell # Nobody => cell \in live
  /\ \A t \in Callers : stage[t] \in {"create", "set"} => cell # t
  /\ \A t \in Callers : stage[t] = "set" => t \in live

\* Only the instance in the cell is written through.
ServedInv ==
  /\ \A t \in Callers : stage[t] \in {"lock", "write"} => cell # Nobody
  /\ selection.by \in Callers => selection.by = cell
  /\ selection.text = last

ClipInv == ClipboardTypeOK /\ CellInv /\ ServedInv

\* The invariant holds at first.
LEMMA ClipInit == ClipboardInit => ClipInv
<1> SUFFICES ASSUME ClipboardInit PROVE ClipInv
  OBVIOUS
<1> USE ClipboardAssumption DEF ClipboardInit, Empty
<1>1. poisoned \in BOOLEAN
  OBVIOUS
<1>2. ClipboardTypeOK
  BY <1>1 DEF ClipboardTypeOK
<1>3. CellInv /\ ServedInv
  BY DEF CellInv, ServedInv
<1>4. QED
  BY <1>2, <1>3 DEF ClipInv

\* Every step keeps the invariant.
LEMMA ClipStep == ClipInv /\ [ClipboardNext]_clipboardVars => ClipInv'
<1> SUFFICES ASSUME ClipInv, [ClipboardNext]_clipboardVars PROVE ClipInv'
  OBVIOUS
<1> USE ClipboardAssumption DEF ClipInv, ClipboardTypeOK, CellInv, ServedInv
<1>1. CASE OtherCopies
  BY <1>1 DEF OtherCopies
<1>2. ASSUME NEW t \in Callers, Call(t) PROVE ClipInv'
  BY <1>2 DEF Call, Enter
<1>3. ASSUME NEW t \in Callers, Create(t) PROVE ClipInv'
  BY <1>3 DEF Create, Enter
<1>4. ASSUME NEW t \in Callers, CreateFails(t) PROVE ClipInv'
  BY <1>4 DEF CreateFails, Return, Enter
<1>5. ASSUME NEW t \in Callers, Set(t) PROVE ClipInv'
  <2>1. CASE cell = Nobody
    BY <1>5, <2>1 DEF Set, Enter
  <2>2. CASE cell # Nobody
    <3>1. cell # t /\ selection.by # t
      BY <1>5 DEF Set
    <3>2. selection' = selection /\ live' = live \ {t} /\ cell' = cell
      BY <1>5, <2>2, <3>1 DEF Set, Dropped
    <3>3. QED
      BY <1>5, <2>2, <3>1, <3>2 DEF Set, Enter
  <2>3. QED
    BY <2>1, <2>2
<1>6. ASSUME NEW t \in Callers, Lock(t) PROVE ClipInv'
  BY <1>6 DEF Lock, Return, Enter
<1>7. ASSUME NEW t \in Callers, Write(t) PROVE ClipInv'
  BY <1>7 DEF Write, Return, Enter
<1>8. ASSUME NEW t \in Callers, WriteFails(t) PROVE ClipInv'
  BY <1>8 DEF WriteFails, Return, Enter
<1>9. ASSUME NEW t \in Callers, WritePanics(t) PROVE ClipInv'
  BY <1>9 DEF WritePanics, Return, Enter
<1>10. CASE UNCHANGED clipboardVars
  BY <1>10 DEF clipboardVars
<1>11. QED
  BY <1>1, <1>2, <1>3, <1>4, <1>5, <1>6, <1>7, <1>8, <1>9, <1>10 DEF ClipboardNext, Step

\* It always holds.
LEMMA ClipInvariance == ClipboardSpec => []ClipInv
  BY ClipInit, ClipStep, PTL DEF ClipboardSpec

\* Every variable keeps its type (clipboard.rs with_clipboard, copy_html).
THEOREM ClipboardType == ClipboardSpec => []ClipboardTypeOK
<1>1. ClipInv => ClipboardTypeOK
  BY DEF ClipInv
<1>2. QED
  BY <1>1, ClipInvariance, PTL

\* A text that was copied can be pasted until something else is copied, whatever
\* first calls run together and whatever fails (clipboard.rs, "kept alive").
THEOREM CopyKept == ClipboardSpec => []CopyStays
<1>1. ClipInv => CopyStays
  BY ClipboardAssumption DEF ClipInv, ClipboardTypeOK, CellInv, ServedInv, CopyStays
<1>2. QED
  BY <1>1, ClipInvariance, PTL

-----------------------------------------------------------------------------
(* The conversions: numbers and their digits. *)

\* The powers of two are numbers, as their recursion says.
LEMMA Powers ==
  /\ Power2 \in [Nat -> Nat]
  /\ Power2[0] = 1
  /\ \A k \in Nat : Power2[k + 1] = 2 * Power2[k]
<1> DEFINE prev == [m \in Nat |-> IF m = 0 THEN 0 ELSE m - 1]
           step == [m \in Nat |-> [v \in Nat |-> 2 * v]]
           Is(f) == f = [k \in Nat |-> IF k = 0 THEN 1 ELSE 2 * f[k - 1]]
<1>1. prev \in [Nat -> Nat] /\ step \in [Nat -> [Nat -> Nat]] /\ \A m \in Nat : m # 0 => prev[m] < m
  OBVIOUS
<1>2. \A m \in Nat : m # 0 => m - 1 \in Nat /\ prev[m] = m - 1
  OBVIOUS
<1>3. \A m, v \in Nat : step[m][v] = 2 * v
  OBVIOUS
<1> HIDE DEF prev, step
<1>4. PICK f \in [Nat -> Nat] : Recursion(f, 1, prev, step)
  BY <1>1, 1 \in Nat, RecursionExists, Zenon
<1>5. ASSUME NEW m \in Nat PROVE f[m] = IF m = 0 THEN 1 ELSE 2 * f[m - 1]
  <2>1. CASE m = 0
    BY <1>4, <2>1 DEF Recursion
  <2>2. CASE m # 0
    <3>1. f[m - 1] \in Nat /\ f[m] = step[m][f[m - 1]]
      BY <1>2, <1>4, <2>2 DEF Recursion
    <3> QED
      BY <1>3, <2>2, <3>1
  <2> QED
    BY <2>1, <2>2
<1>6. Is(f)
  BY <1>5
<1>7. Is(Power2)
  BY <1>6 DEF Power2
<1>8. \A m \in Nat : Power2[m] = IF m = 0 THEN 1 ELSE 2 * Power2[m - 1]
  BY <1>7
<1>9. \A k \in Nat : k + 1 \in Nat /\ k + 1 # 0 /\ (k + 1) - 1 = k
  OBVIOUS
<1>10. Power2[0] = 1 /\ \A k \in Nat : Power2[k + 1] = 2 * Power2[k]
  BY <1>8, <1>9
<1>11. Power2 \in [Nat -> Nat]
  <2> DEFINE T == {k \in Nat : Power2[k] \in Nat}
  <2>1. 0 \in T
    BY <1>10
  <2>2. \A k \in T : k + 1 \in T
    BY <1>10
  <2>3. T \subseteq Nat
    OBVIOUS
  <2>4. \A k \in Nat : k \in T
    <3> HIDE DEF T
    <3> QED
      BY <2>1, <2>2, <2>3, NatSetInduction
  <2>5. Power2 = [k \in Nat |-> Power2[k]]
    <3>1. \E e : Power2 = e /\ e = [k \in Nat |-> e[k]]
      BY <1>7
    <3> QED
      BY <3>1
  <2> QED
    BY <2>4, <2>5
<1> QED
  BY <1>10, <1>11

\* They grow with their exponents.
LEMMA PowersGrow ==
  ASSUME NEW i \in Nat, NEW k \in Nat, i <= k
  PROVE  1 <= Power2[i] /\ Power2[i] <= Power2[k]
<1> DEFINE T == {n \in Nat : 1 <= Power2[i] /\ Power2[i] <= Power2[i + n]}
           U == {n \in Nat : 1 <= Power2[n]}
<1>1. \A n \in Nat : Power2[n] \in Nat
  BY Powers
<1>2. \A n \in Nat : n \in U
  <2>1. U \subseteq Nat /\ 0 \in U
    BY Powers
  <2>2. \A n \in U : n + 1 \in U
    BY <1>1, Powers
  <2> HIDE DEF U
  <2> QED
    BY <2>1, <2>2, NatSetInduction
<1>3. \A n \in Nat : n \in T
  <2>1. T \subseteq Nat /\ 0 \in T
    BY <1>1, <1>2
  <2>2. ASSUME NEW n \in T PROVE n + 1 \in T
    <3>1. n \in Nat /\ i + n \in Nat /\ i + (n + 1) = (i + n) + 1
      OBVIOUS
    <3>2. Power2[i + (n + 1)] = 2 * Power2[i + n]
      BY <3>1, Powers
    <3> QED
      BY <1>1, <3>1, <3>2
  <2> HIDE DEF T
  <2> QED
    BY <2>1, <2>2, NatSetInduction
<1>4. k - i \in Nat /\ i + (k - i) = k
  OBVIOUS
<1>5. k - i \in T
  <2> HIDE DEF T
  <2> QED
    BY <1>3, <1>4
<1> QED
  BY <1>4, <1>5

-----------------------------------------------------------------------------
\* The last of the bytes make up a number too.
IsValue(f, bytes, base) ==
  f = [k \in 0..Len(bytes) |->
         IF k = 0 THEN 0 ELSE (bytes[Len(bytes) + 1 - k] % base) + base * f[k - 1]]

\* A digit is below the base.
LEMMA DigitType ==
  ASSUME NEW n \in Nat, NEW base \in Nat, 0 < base
  PROVE  (n % base) \in 0..(base - 1)
OBVIOUS

\* There is a function of the values of the ends of some bytes.
LEMMA ValuesExist ==
  ASSUME NEW bytes \in Seq(Nat), NEW base \in Nat \ {0}
  PROVE  \E f \in [0..Len(bytes) -> Nat] : IsValue(f, bytes, base)
<1> DEFINE n == Len(bytes)
           prev == [m \in Nat |-> IF m = 0 THEN 0 ELSE m - 1]
           digit == [m \in Nat |-> IF m \in 1..n THEN bytes[n + 1 - m] % base ELSE 0]
           step == [m \in Nat |-> [v \in Nat |-> digit[m] + base * v]]
<1>1. n \in Nat /\ \A i \in 1..n : bytes[i] \in Nat
  BY LenProperties, ElementOfSeq
<1> HIDE DEF n
<1>2. digit \in [Nat -> Nat]
  <2>1. ASSUME NEW m \in 1..n PROVE bytes[n + 1 - m] % base \in Nat
    <3>1. n + 1 - m \in 1..n
      BY <1>1
    <3> QED
      BY <1>1, <3>1, DigitType
  <2> QED
    BY <2>1
<1>3. \A m \in 1..n : digit[m] = bytes[n + 1 - m] % base
  BY <1>1
<1> HIDE DEF digit
<1>4. \A m, v \in Nat : digit[m] + base * v \in Nat
  <2>1. \A m \in Nat : digit[m] \in Nat
    BY <1>2
  <2>2. \A v \in Nat : base * v \in Nat
    OBVIOUS
  <2>3. \A i, k \in Nat : i + k \in Nat
    OBVIOUS
  <2> QED
    BY <2>1, <2>2, <2>3, Zenon
<1>5. step \in [Nat -> [Nat -> Nat]] /\ \A m, v \in Nat : step[m][v] = digit[m] + base * v
  BY <1>4
<1>6. prev \in [Nat -> Nat] /\ \A m \in Nat : m # 0 => prev[m] < m /\ prev[m] = m - 1
  OBVIOUS
<1> HIDE DEF prev, step
<1>7. PICK f \in [Nat -> Nat] : Recursion(f, 0, prev, step)
  BY <1>5, <1>6, 0 \in Nat, RecursionExists, Zenon
<1> DEFINE g == [m \in 0..n |-> f[m]]
<1>8. ASSUME NEW m \in 0..n
      PROVE  g[m] = IF m = 0 THEN 0 ELSE (bytes[n + 1 - m] % base) + base * g[m - 1]
  <2>1. CASE m = 0
    BY <1>7, <2>1 DEF Recursion
  <2>2. CASE m # 0
    <3>1. m \in Nat /\ m \in 1..n /\ m - 1 \in 0..n /\ m - 1 \in Nat
      BY <1>1, <2>2
    <3>2. f[m] = step[m][f[m - 1]]
      BY <1>6, <1>7, <2>2, <3>1 DEF Recursion
    <3>3. f[m] = digit[m] + base * f[m - 1]
      BY <1>5, <1>7, <3>1, <3>2
    <3>4. g[m] = f[m] /\ g[m - 1] = f[m - 1]
      BY <3>1
    <3> QED
      BY <1>3, <2>2, <3>1, <3>3, <3>4
  <2> QED
    BY <2>1, <2>2
<1>9. g \in [0..n -> Nat]
  BY <1>7
<1>10. g = [m \in 0..n |-> IF m = 0 THEN 0 ELSE (bytes[n + 1 - m] % base) + base * g[m - 1]]
  <2>1. g = [m \in 0..n |-> g[m]]
    OBVIOUS
  <2> HIDE DEF g
  <2> QED
    BY <1>8, <2>1
<1> HIDE DEF g
<1> QED
  BY <1>9, <1>10 DEF IsValue, n

\* The value of no bytes, and that of a byte and the bytes after it.
OfFirst(d, s, base) ==
  /\ Value(s, base) \in Nat
  /\ Value(<<>>, base) = 0
  /\ Value(<<d>> \o s, base) = (d % base) + base * Value(s, base)

\* So values of bytes can be computed from their first byte.
LEMMA ValueOfFirst ==
  ASSUME NEW s \in Seq(Nat), NEW d \in Nat, NEW base \in Nat \ {0}
  PROVE  OfFirst(d, s, base)
<1>1. \A t \in Seq(Nat) : \E f : /\ f \in [0..Len(t) -> Nat] /\ IsValue(f, t, base)
                                 /\ Value(t, base) = f[Len(t)]
  <2> TAKE t \in Seq(Nat)
  <2> DEFINE f == CHOOSE e : IsValue(e, t, base)
  <2>1. PICK e \in [0..Len(t) -> Nat] : IsValue(e, t, base)
    BY ValuesExist
  <2>2. IsValue(f, t, base)
    BY <2>1, Zenon
  <2>3. Value(t, base) = f[Len(t)]
    BY Zenon DEF Value, IsValue
  <2> HIDE DEF f
  <2>4. Len(t) \in Nat
    BY LenProperties
  <2>5. ASSUME NEW k \in Nat, k <= Len(t) PROVE f[k] = e[k]
    <3> DEFINE T == {i \in Nat : i <= Len(t) => f[i] = e[i]}
    <3>1. 0 \in T
      BY <2>1, <2>2, <2>4 DEF IsValue
    <3>2. ASSUME NEW i \in T PROVE i + 1 \in T
      <4>0. i \in Nat /\ i + 1 \in Nat /\ (i + 1) - 1 = i /\ i + 1 # 0
        OBVIOUS
      <4> SUFFICES ASSUME i + 1 <= Len(t) PROVE f[i + 1] = e[i + 1]
        BY <4>0, Zenon
      <4>1. f[i] = e[i] /\ i + 1 \in 0..Len(t)
        BY <2>4, <4>0
      <4>2. f[i + 1] = (t[Len(t) + 1 - (i + 1)] % base) + base * f[i]
        BY <2>2, <4>0, <4>1 DEF IsValue
      <4>3. e[i + 1] = (t[Len(t) + 1 - (i + 1)] % base) + base * e[i]
        BY <2>1, <4>0, <4>1 DEF IsValue
      <4> QED
        BY <4>1, <4>2, <4>3
    <3>3. T \subseteq Nat
      OBVIOUS
    <3>4. k \in T
      <4> HIDE DEF T
      <4> QED
        BY <3>1, <3>2, <3>3, NatSetInduction
    <3> QED
      BY <2>5, <3>4
  <2>6. f[Len(t)] = e[Len(t)]
    BY <2>4, <2>5
  <2>7. e = f
    <3>1. e \in [0..Len(t) -> Nat]
      BY <2>1
    <3>2. DOMAIN f = 0..Len(t) /\ f = [k \in 0..Len(t) |-> f[k]]
      BY <2>2 DEF IsValue
    <3> QED
      BY <2>4, <2>5, <3>1, <3>2
  <2> QED
    BY <2>1, <2>2, <2>3, <2>7
<1> DEFINE t == <<d>> \o s
<1>2. /\ t \in Seq(Nat) /\ Len(t) = Len(s) + 1 /\ Len(s) \in Nat
      /\ t[1] = d /\ \A i \in 1..Len(s) : t[i + 1] = s[i]
  OBVIOUS
<1> HIDE DEF t
<1>3. PICK f : f \in [0..Len(t) -> Nat] /\ IsValue(f, t, base) /\ Value(t, base) = f[Len(t)]
  BY <1>1, <1>2
<1>4. PICK g : g \in [0..Len(s) -> Nat] /\ IsValue(g, s, base) /\ Value(s, base) = g[Len(s)]
  BY <1>1
<1>5. \A k \in Nat : k <= Len(s) => f[k] = g[k]
  <2> DEFINE T == {k \in Nat : k <= Len(s) => f[k] = g[k]}
  <2>1. 0 \in T
    BY <1>2, <1>3, <1>4 DEF IsValue
  <2>2. ASSUME NEW i \in T PROVE i + 1 \in T
    <3>0. i \in Nat /\ i + 1 \in Nat /\ (i + 1) - 1 = i /\ i + 1 # 0
      OBVIOUS
    <3> SUFFICES ASSUME i + 1 <= Len(s) PROVE f[i + 1] = g[i + 1]
      BY <3>0, Zenon
    <3>1. f[i] = g[i] /\ i + 1 \in 0..Len(s) /\ i + 1 \in 0..Len(t)
      <4>1. i <= Len(s) /\ i + 1 \in 0..Len(s) /\ i + 1 \in 0..Len(t)
        BY <1>2, <3>0, SMT
      <4>2. i <= Len(s) => f[i] = g[i]
        BY Zenon
      <4> QED
        BY <4>1, <4>2, Zenon
    <3>2. f[i + 1] = (t[Len(t) + 1 - (i + 1)] % base) + base * f[i]
      BY <1>3, <3>0, <3>1, Zenon DEF IsValue
    <3>3. g[i + 1] = (s[Len(s) + 1 - (i + 1)] % base) + base * g[i]
      BY <1>4, <3>0, <3>1, Zenon DEF IsValue
    <3>4. Len(s) - i \in 1..Len(s) /\ Len(s) + 1 - (i + 1) = Len(s) - i
          /\ Len(t) + 1 - (i + 1) = (Len(s) - i) + 1
      BY <1>2, <3>0
    <3>5. t[Len(t) + 1 - (i + 1)] = s[Len(s) + 1 - (i + 1)]
      BY <1>2, <3>4
    <3> QED
      BY <3>1, <3>2, <3>3, <3>5
  <2>3. T \subseteq Nat
    OBVIOUS
  <2>4. \A k \in Nat : k \in T
    <3> HIDE DEF T
    <3> QED
      BY <2>1, <2>2, <2>3, NatSetInduction
  <2> QED
    BY <2>4
<1>6. f[Len(s)] = Value(s, base) /\ Value(s, base) \in Nat
  BY <1>2, <1>4, <1>5
<1>7. f[Len(t)] = (d % base) + base * f[Len(s)]
  <2>1. Len(t) \in 0..Len(t) /\ Len(t) # 0 /\ Len(t) - 1 = Len(s) /\ Len(t) + 1 - Len(t) = 1
    BY <1>2
  <2> QED
    BY <1>2, <1>3, <2>1 DEF IsValue
<1>8. Value(<<>>, base) = 0
  <2>1. <<>> \in Seq(Nat) /\ Len(<<>>) = 0
    OBVIOUS
  <2>2. PICK e : e \in [0..Len(<<>>) -> Nat] /\ IsValue(e, <<>>, base) /\ Value(<<>>, base) = e[Len(<<>>)]
    BY <1>1, <2>1
  <2> QED
    BY <2>1, <2>2 DEF IsValue
<1> QED
  BY <1>3, <1>6, <1>7, <1>8 DEF t, OfFirst

\* The value of a single digit.
LEMMA ValueOfOne ==
  ASSUME NEW d \in Nat, NEW base \in Nat \ {0}, d < base
  PROVE  Value(<<d>>, base) = d
<1>1. <<>> \in Seq(Nat) /\ <<d>> \o <<>> = <<d>>
  OBVIOUS
<1>2. OfFirst(d, <<>>, base)
  BY <1>1, ValueOfFirst, Zenon
<1>3. (d % base) = d /\ base * 0 = 0 /\ d + 0 = d
  OBVIOUS
<1> QED
  BY <1>1, <1>2, <1>3, Zenon DEF OfFirst

\* Quotient and remainder, and that the quotient is smaller.
LEMMA Divide ==
  ASSUME NEW n \in Nat, NEW b \in Nat, 2 <= b
  PROVE  /\ n \div b \in Nat /\ (n % b) \in Nat /\ (n % b) < b
         /\ n = b * (n \div b) + (n % b)
         /\ b <= n => n \div b < n /\ 0 < n \div b
<1>1. n \div b \in Nat /\ (n % b) \in Nat /\ (n % b) < b /\ n = b * (n \div b) + (n % b)
  BY SMT
<1>2. \A q, r \in Nat : n = b * q + r /\ r < b /\ b <= n => q < n /\ 0 < q
  BY SMT
<1> QED
  BY <1>1, <1>2

\* A number below the base is its own remainder.
LEMMA Small ==
  ASSUME NEW n \in Nat, NEW b \in Nat, n < b
  PROVE  (n % b) = n /\ n \div b = 0
BY SMT

-----------------------------------------------------------------------------
\* The recursion of Digits.
IsDigits(f, base) ==
  f = [m \in Nat |-> IF m < base THEN <<m>> ELSE <<m % base>> \o f[m \div base]]

\* There is a function from numbers to their digits.
LEMMA DigitsExist ==
  ASSUME NEW base \in Nat, 2 <= base
  PROVE  \E f \in [Nat -> Seq(0..(base - 1))] : IsDigits(f, base)
<1> DEFINE S == Seq(0..(base - 1))
           prev == [m \in Nat |-> IF m < base THEN 0 ELSE m \div base]
           step == [m \in Nat |-> [v \in S |-> IF m < base THEN <<m>> ELSE <<m % base>> \o v]]
<1>1. \A m \in Nat : base <= m => m \div base \in Nat /\ m \div base < m
  BY Divide
<1>2. \A m \in Nat : (m % base) \in 0..(base - 1)
  BY Divide
<1>3. prev \in [Nat -> Nat] /\ \A m \in Nat : m # 0 => prev[m] < m
  BY <1>1
<1>4. \A m \in Nat : base <= m => prev[m] = m \div base
  OBVIOUS
<1>5. \A m \in Nat, v \in S :
         /\ step[m][v] \in S
         /\ m < base => step[m][v] = <<m>>
         /\ base <= m => step[m][v] = <<m % base>> \o v
  <2> TAKE m \in Nat, v \in S
  <2>1. CASE m < base
    <3>1. step[m][v] = <<m>> /\ m \in 0..(base - 1)
      BY <2>1
    <3> QED
      BY <2>1, <3>1
  <2>2. CASE base <= m
    <3>1. step[m][v] = <<m % base>> \o v
      BY <2>2
    <3>2. <<m % base>> \in S
      BY <1>2, OneElement, Zenon
    <3>3. <<m % base>> \o v \in S
      BY <3>2, ConcatProperties
    <3> QED
      BY <2>2, <3>1, <3>3
  <2> QED
    BY <2>1, <2>2
<1>6. step \in [Nat -> [S -> S]]
  <2>1. \A m \in Nat : step[m] \in [S -> S]
    <3> TAKE m \in Nat
    <3>1. step[m] = [v \in S |-> step[m][v]]
      OBVIOUS
    <3> HIDE DEF step
    <3> QED
      BY <1>5, <3>1
  <2>2. step = [m \in Nat |-> step[m]]
    OBVIOUS
  <2> HIDE DEF step
  <2> QED
    BY <2>1, <2>2
<1>7. <<0>> \in S
  OBVIOUS
<1> HIDE DEF S, prev, step
<1>8. PICK f \in [Nat -> S] : Recursion(f, <<0>>, prev, step)
  BY <1>3, <1>6, <1>7, RecursionExists, Zenon
<1>9. ASSUME NEW m \in Nat PROVE f[m] = IF m < base THEN <<m>> ELSE <<m % base>> \o f[m \div base]
  <2>1. CASE m = 0
    BY <1>8, <2>1 DEF Recursion
  <2>2. CASE m # 0
    <3>1. prev[m] \in Nat /\ f[m] = step[m][f[prev[m]]] /\ f[prev[m]] \in S
      BY <1>3, <1>8, <2>2 DEF Recursion
    <3>2. CASE m < base
      BY <1>5, <3>1, <3>2
    <3>3. CASE base <= m
      <4>1. ~(m < base) /\ prev[m] = m \div base
        BY <1>4, <3>3
      <4>2. f[m] = <<m % base>> \o f[prev[m]]
        BY <1>5, <3>1, <3>3, Zenon
      <4> QED
        BY <4>1, <4>2, Zenon
    <3> QED
      BY <3>2, <3>3
  <2> QED
    BY <2>1, <2>2
<1>10. f = [m \in Nat |-> IF m < base THEN <<m>> ELSE <<m % base>> \o f[m \div base]]
  BY <1>9
<1> QED
  BY <1>8, <1>10 DEF IsDigits, S

\* The digits of a number: its last, and those of the rest.
LEMMA DigitsOfFirst ==
  ASSUME NEW n \in Nat, NEW base \in Nat, 2 <= base
  PROVE  /\ n < base => Digits(n, base) = <<n>>
         /\ base <= n => Digits(n, base) = <<n % base>> \o Digits(n \div base, base)
<1> DEFINE f == CHOOSE e : IsDigits(e, base)
<1>1. IsDigits(f, base)
  BY DigitsExist, Zenon
<1>2. \A m : Digits(m, base) = f[m]
  BY Zenon DEF Digits, IsDigits
<1> HIDE DEF f
<1>3. n \div base \in Nat
  BY Divide
<1>4. f[n] = IF n < base THEN <<n>> ELSE <<n % base>> \o f[n \div base]
  BY <1>1 DEF IsDigits
<1>5. base <= n => ~(n < base)
  OBVIOUS
<1> QED
  BY <1>2, <1>4, <1>5, Zenon

\* The digits of a number: how many there are is bounded by its size.
AreDigits(s, n, base) ==
  /\ s \in Seq(0..(base - 1))
  /\ 1 <= Len(s)
  /\ Value(s, base) = n

\* Whatever the base.
LEMMA DigitsAre ==
  ASSUME NEW n \in Nat, NEW base \in Nat, 2 <= base
  PROVE  AreDigits(Digits(n, base), n, base)
<1> DEFINE T == {m \in Nat : AreDigits(Digits(m, base), m, base)}
<1>1. ASSUME NEW m \in Nat, \A k \in Nat : k < m => k \in T
      PROVE  m \in T
  <2>1. CASE m < base
    <3>1. Digits(m, base) = <<m>> /\ <<m>> \in Seq(0..(base - 1)) /\ Len(<<m>>) = 1
      <4>1. m \in 0..(base - 1)
        BY <2>1
      <4> QED
        BY <2>1, <4>1, DigitsOfFirst, OneElement, Zenon
    <3>3. Value(<<m>>, base) = m
      BY <2>1, base \in Nat \ {0}, ValueOfOne
    <3> QED
      BY <3>1, <3>3, 1 <= 1, Zenon DEF AreDigits
  <2>2. CASE base <= m
    <3>1. /\ m \div base \in Nat /\ m \div base < m /\ m = base * (m \div base) + (m % base)
          /\ (m % base) \in Nat /\ (m % base) < base
      BY <2>2, Divide
    <3> DEFINE s == Digits(m \div base, base)
               d == m % base
               q == m \div base
    <3>2. AreDigits(s, q, base)
      BY <1>1, <3>1
    <3>3. Digits(m, base) = <<d>> \o s
      BY <2>2, DigitsOfFirst
    <3> HIDE DEF s, d, q
    <3>4. s \in Seq(Nat) /\ d \in Nat /\ d < base /\ base \in Nat \ {0}
      BY <3>1, <3>2 DEF AreDigits, d
    <3>5. Value(<<d>> \o s, base) = (d % base) + base * q
      BY <3>2, <3>4, ValueOfFirst DEF AreDigits, OfFirst
    <3>6. Value(<<d>> \o s, base) = m
      BY <3>1, <3>4, <3>5, Small DEF d, q
    <3>7. <<d>> \o s \in Seq(0..(base - 1)) /\ Len(<<d>> \o s) = Len(s) + 1
      <4>1. <<d>> \in Seq(0..(base - 1)) /\ Len(<<d>>) = 1
        BY <3>4
      <4> QED
        BY <3>2, <4>1, ConcatProperties DEF AreDigits
    <3>8. 1 <= Len(s) + 1
      BY <3>2, LenProperties DEF AreDigits
    <3> QED
      BY <3>3, <3>6, <3>7, <3>8 DEF AreDigits
  <2> QED
    BY <2>1, <2>2
<1>2. T \subseteq Nat
  OBVIOUS
<1>3. n \in T
  <2> HIDE DEF T
  <2> QED
    BY <1>1, <1>2, StrongInduction
<1> QED
  BY <1>3

-----------------------------------------------------------------------------
\* A varint by its first byte and the varint of what is left.
LEMMA VarintOfFirst ==
  ASSUME NEW n \in Nat
  PROVE  /\ n < 128 => EncodeVarint(n) = <<n>>
         /\ 128 <= n => EncodeVarint(n) = <<128 + (n % 128)>> \o EncodeVarint(n \div 128)
<1> DEFINE E(d) == [i \in DOMAIN d |-> IF i < Len(d) THEN 128 + d[i] ELSE d[i]]
<1>1. \A m : EncodeVarint(m) = E(Digits(m, 128))
  BY Zenon DEF EncodeVarint
<1>2. ASSUME n < 128 PROVE EncodeVarint(n) = <<n>>
  <2>1. Digits(n, 128) = <<n>>
    BY <1>2, 128 \in Nat, 2 <= 128, DigitsOfFirst
  <2>2. E(<<n>>) = <<n>>
    OBVIOUS
  <2> QED
    BY <1>1, <2>1, <2>2
<1>3. ASSUME 128 <= n PROVE EncodeVarint(n) = <<128 + (n % 128)>> \o EncodeVarint(n \div 128)
  <2> DEFINE s == Digits(n \div 128, 128)
             d == n % 128
  <2>1. Digits(n, 128) = <<d>> \o s
    BY <1>3, DigitsOfFirst, SMTT(20)
  <2>2. AreDigits(s, n \div 128, 128)
    BY DigitsAre, Divide
  <2>3. d \in Nat
    BY Divide
  <2> HIDE DEF s, d
  <2>4. s \in Seq(Nat) /\ Len(s) \in Nat /\ 1 <= Len(s)
    <3>1. s \in Seq(0..(128 - 1)) /\ 0..(128 - 1) \subseteq Nat /\ 1 <= Len(s)
      BY <2>2 DEF AreDigits
    <3> QED
      BY <3>1, MoreValues
  <2> DEFINE t == <<d>> \o s
             u == <<128 + d>> \o E(s)
  <2>5. /\ t \in Seq(Nat) /\ DOMAIN t = 1..(Len(s) + 1) /\ Len(t) = Len(s) + 1
        /\ t[1] = d /\ \A i \in 2..(Len(s) + 1) : t[i] = s[i - 1]
    BY <2>3, <2>4
  <2>6. E(s) \in Seq(Nat) /\ Len(E(s)) = Len(s) /\ \A i \in 1..Len(s) : E(s)[i] = IF i < Len(s) THEN 128 + s[i] ELSE s[i]
    BY <2>4
  <2>7. /\ DOMAIN u = 1..(Len(s) + 1)
        /\ u[1] = 128 + d /\ \A i \in 2..(Len(s) + 1) : u[i] = E(s)[i - 1]
        /\ u = [i \in 1..(Len(s) + 1) |-> u[i]]
    <3> HIDE DEF E
    <3> QED
      BY <2>3, <2>4, <2>6
  <2>8. E(t) = [i \in 1..(Len(s) + 1) |-> IF i < Len(s) + 1 THEN 128 + t[i] ELSE t[i]]
    BY <2>5
  <2>9. ASSUME NEW i \in 1..(Len(s) + 1)
        PROVE  u[i] = IF i < Len(s) + 1 THEN 128 + t[i] ELSE t[i]
    <3> HIDE DEF E, t, u
    <3>1. CASE i = 1
      BY <2>4, <2>5, <2>7, <3>1
    <3>2. CASE i # 1
      <4>1. i \in 2..(Len(s) + 1) /\ i - 1 \in 1..Len(s) /\ (i - 1 < Len(s) <=> i < Len(s) + 1)
        BY <2>4, <3>2
      <4>2. u[i] = E(s)[i - 1] /\ t[i] = s[i - 1]
        BY <2>5, <2>7, <4>1
      <4> QED
        BY <2>6, <4>1, <4>2
    <3> QED
      BY <3>1, <3>2
  <2>10. u = E(t)
    <3> HIDE DEF E, t, u
    <3> QED
      BY <2>7, <2>8, <2>9
  <2>11. EncodeVarint(n) = E(t) /\ EncodeVarint(n \div 128) = E(s)
    <3> HIDE DEF E
    <3> QED
      BY <1>1, <2>1, Zenon DEF s
  <2>12. EncodeVarint(n) = <<128 + d>> \o EncodeVarint(n \div 128)
    <3> HIDE DEF E
    <3> QED
      BY <2>10, <2>11, Zenon
  <2> QED
    BY <2>12, Zenon DEF d
<1> QED
  BY <1>2, <1>3

\* A varint of n: the last byte is the one below 128, and no group is superfluous.
IsVarint(e, n) ==
  /\ e \in Seq(0..255)
  /\ 1 <= Len(e)
  /\ e[Len(e)] < 128
  /\ \A i \in 1..(Len(e) - 1) : 128 <= e[i]
  /\ Value(e, 128) = n
  /\ 1 < Len(e) => Power2[7 * (Len(e) - 1)] <= n

\* A group of seven bits.
LEMMA SevenMore ==
  ASSUME NEW k \in Nat
  PROVE  Power2[k + 7] = 128 * Power2[k]
<1>1. \A i \in Nat : Power2[i] \in Nat /\ Power2[i + 1] = 2 * Power2[i]
  BY Powers
<1>2. \A i \in Nat : Power2[i + 2] = 4 * Power2[i] /\ Power2[i + 3] = 8 * Power2[i]
  <2> TAKE i \in Nat
  <2>1. i + 1 \in Nat /\ i + 2 \in Nat /\ i + 2 = (i + 1) + 1 /\ i + 3 = (i + 2) + 1
    OBVIOUS
  <2>2. Power2[i + 1] = 2 * Power2[i] /\ Power2[i + 2] = 2 * Power2[i + 1]
        /\ Power2[i + 3] = 2 * Power2[i + 2]
    BY <1>1, <2>1
  <2> QED
    BY <1>1, <2>2
<1>3. k + 2 \in Nat /\ k + 5 \in Nat /\ k + 4 = (k + 2) + 2 /\ k + 7 = (k + 4) + 3 /\ k + 4 \in Nat
  OBVIOUS
<1>4. Power2[k + 4] = 4 * Power2[k + 2] /\ Power2[k + 7] = 8 * Power2[k + 4]
  BY <1>2, <1>3
<1> QED
  BY <1>1, <1>2, <1>4

\* What is written for every number is such a varint.
LEMMA VarintIs ==
  ASSUME NEW n \in Nat
  PROVE  IsVarint(EncodeVarint(n), n)
<1> DEFINE T == {m \in Nat : IsVarint(EncodeVarint(m), m)}
<1>1. ASSUME NEW m \in Nat, \A k \in Nat : k < m => k \in T
      PROVE  m \in T
  <2>1. CASE m < 128
    <3>1. EncodeVarint(m) = <<m>> /\ <<m>> \in Seq(0..255) /\ Len(<<m>>) = 1 /\ <<m>>[1] = m
      <4>1. m \in 0..255
        BY <2>1
      <4> QED
        BY <2>1, <4>1, VarintOfFirst, OneElement, Zenon
    <3>3. Value(<<m>>, 128) = m
      <4>1. 128 \in Nat \ {0}
        BY SMT
      <4> QED
        BY <2>1, <4>1, ValueOfOne, SMT
    <3>4. 1..(1 - 1) = {} /\ 1 <= 1
      OBVIOUS
    <3> DEFINE w == <<m>>
    <3>5. /\ EncodeVarint(m) = w /\ w \in Seq(0..255) /\ Len(w) = 1 /\ w[1] = m
          /\ Value(w, 128) = m
      BY <3>1, <3>3
    <3> HIDE DEF w
    <3> QED
      <4>1. w[Len(w)] < 128 /\ ~(1 < Len(w)) /\ 1 <= Len(w) /\ 1..(Len(w) - 1) = {}
        BY <2>1, <3>5, SMT
      <4>2. IsVarint(w, m)
        BY <3>5, <4>1, Zenon DEF IsVarint
      <4> QED
        BY <3>5, <4>2, Zenon
  <2>2. CASE 128 <= m
    <3> DEFINE s == EncodeVarint(m \div 128)
               d == 128 + (m % 128)
               q == m \div 128
    <3>1. /\ q \in Nat /\ 0 < q /\ q < m /\ d \in 128..255 /\ m = 128 * q + (d % 128)
      BY <2>2, SMT
    <3>2. IsVarint(s, q)
      BY <1>1, <3>1
    <3>3. EncodeVarint(m) = <<d>> \o s
      BY <2>2, VarintOfFirst
    <3> HIDE DEF s, d, q
    <3>4. s \in Seq(0..255) /\ s \in Seq(Nat) /\ Len(s) \in Nat /\ 1 <= Len(s) /\ d \in Nat /\ d \in 0..255
      <4>1. s \in Seq(0..255) /\ 0..255 \subseteq Nat /\ 1 <= Len(s)
        BY <3>2, SMT DEF IsVarint
      <4>2. s \in Seq(Nat) /\ Len(s) \in Nat
        BY <4>1, MoreValues
      <4> QED
        BY <3>1, <4>1, <4>2, SMT
    <3>5. Value(<<d>> \o s, 128) = m
      <4>1. Value(<<d>> \o s, 128) = (d % 128) + 128 * Value(s, 128)
        <5>1. 128 \in Nat \ {0}
          BY SMT
        <5>2. OfFirst(d, s, 128)
          BY <3>4, <5>1, ValueOfFirst, SMT
        <5> QED
          BY <5>2, SMT DEF OfFirst
      <4> QED
        BY <3>1, <3>2, <4>1, SMT DEF IsVarint
    <3> DEFINE t == <<d>> \o s
    <3>6. /\ t \in Seq(0..255) /\ Len(t) = Len(s) + 1 /\ t[1] = d
          /\ \A i \in 2..(Len(s) + 1) : t[i] = s[i - 1]
      <4>1. <<d>> \in Seq(0..255) /\ Len(<<d>>) = 1
        BY <3>4, OneElement, Zenon
      <4> QED
        BY <3>4, <4>1, ConcatProperties, SMT
    <3> HIDE DEF t
    <3>7. t[Len(t)] < 128
      <4>1. Len(t) \in 2..(Len(s) + 1) /\ Len(t) - 1 = Len(s)
        BY <3>4, <3>6, SMT
      <4>2. t[Len(t)] = s[Len(s)]
        BY <3>6, <4>1, Zenon
      <4> QED
        BY <3>2, <4>2 DEF IsVarint
    <3>8. ASSUME NEW i \in 1..(Len(t) - 1) PROVE 128 <= t[i]
      <4>1. CASE i = 1
        BY <3>1, <3>6, <4>1, SMT
      <4>2. CASE i # 1
        <5>1. i \in 2..(Len(s) + 1) /\ i - 1 \in 1..(Len(s) - 1)
          BY <3>4, <3>6, <4>2, SMT
        <5>2. t[i] = s[i - 1]
          BY <3>6, <5>1, Zenon
        <5> QED
          BY <3>2, <5>1, <5>2 DEF IsVarint
      <4> QED
        BY <4>1, <4>2
    <3>9. Power2[7 * (Len(t) - 1)] <= m
      <4>1. Power2[7 * (Len(s) - 1)] \in Nat /\ Power2[7 * (Len(s) - 1)] <= q
        <5>1. 7 * (Len(s) - 1) \in Nat
          BY <3>4, SMT
        <5>2. Power2[7 * (Len(s) - 1)] \in Nat
          BY <5>1, Powers
        <5>3. CASE Len(s) = 1
          BY <3>1, <5>3, Powers, SMT
        <5>4. CASE 1 < Len(s)
          BY <3>2, <5>2, <5>4, SMT DEF IsVarint
        <5>5. Len(s) = 1 \/ 1 < Len(s)
          <6>1. \A k \in Nat : 1 <= k => k = 1 \/ 1 < k
            BY SMT
          <6> QED
            BY <3>4, <6>1, Zenon
        <5> QED
          BY <5>2, <5>3, <5>4, <5>5
      <4>2. 7 * (Len(t) - 1) = 7 * (Len(s) - 1) + 7 /\ 7 * (Len(s) - 1) \in Nat
        BY <3>4, <3>6, SMT
      <4>3. Power2[7 * (Len(t) - 1)] = 128 * Power2[7 * (Len(s) - 1)]
        BY <4>2, SevenMore
      <4> QED
        BY <3>1, <4>1, <4>3, SMT
    <3>10. 1 <= Len(t)
      BY <3>4, <3>6, SMT
    <3> QED
      BY <3>3, <3>5, <3>6, <3>7, <3>8, <3>9, <3>10, ZenonT(30) DEF IsVarint, t
  <2> QED
    BY <2>1, <2>2, SMT
<1>2. T \subseteq Nat
  OBVIOUS
<1>3. n \in T
  <2> HIDE DEF T
  <2> QED
    BY <1>1, <1>2, StrongInduction
<1> QED
  BY <1>3

-----------------------------------------------------------------------------
\* The bytes e are in buf, at pos.
Holds(buf, pos, e) ==
  /\ pos \in Nat \ {0}
  /\ pos + Len(e) <= Len(buf) + 1
  /\ \A i \in 1..Len(e) : buf[pos + i - 1] = e[i]

\* A buffer holds itself.
LEMMA HoldsAll ==
  ASSUME NEW S, NEW buf \in Seq(S)
  PROVE  Holds(buf, 1, buf)
<1>1. Len(buf) \in Nat
  BY LenProperties
<1>2. \A i \in 1..Len(buf) : 1 + i - 1 = i
  BY <1>1
<1> QED
  BY <1>1, <1>2 DEF Holds

\* Bytes that are joined are bytes, as many as both.
Joined(s, t) == s \o t \in Seq(0..255) /\ Len(s \o t) = Len(s) + Len(t)

\* So they are always.
LEMMA JoinedBytes ==
  ASSUME NEW s \in Seq(0..255), NEW t \in Seq(0..255)
  PROVE  Joined(s, t)
BY ConcatProperties DEF Joined

\* A buffer that holds a join holds both parts, one after the other.
LEMMA HoldsParts ==
  ASSUME NEW S, NEW buf, Len(buf) \in Nat, NEW pos, NEW e \in Seq(S), NEW f \in Seq(S), Holds(buf, pos, e \o f)
  PROVE  Holds(buf, pos, e) /\ Holds(buf, pos + Len(e), f)
<1> DEFINE g == e \o f
<1>1. /\ Len(e) \in Nat /\ Len(f) \in Nat /\ Len(g) = Len(e) + Len(f)
      /\ \A i \in 1..(Len(e) + Len(f)) : g[i] = IF i <= Len(e) THEN e[i] ELSE f[i - Len(e)]
  BY ConcatProperties, LenProperties
<1>2. /\ pos \in Nat \ {0} /\ pos + Len(g) <= Len(buf) + 1
      /\ \A i \in 1..Len(g) : buf[pos + i - 1] = g[i]
  BY DEF Holds
<1> HIDE DEF g
<1>3. ASSUME NEW i \in 1..Len(e) PROVE buf[pos + i - 1] = e[i]
  BY <1>1, <1>2
<1>4. ASSUME NEW i \in 1..Len(f) PROVE buf[(pos + Len(e)) + i - 1] = f[i]
  <2>1. /\ Len(e) + i \in 1..Len(g) /\ (pos + Len(e)) + i - 1 = pos + (Len(e) + i) - 1
        /\ ~(Len(e) + i <= Len(e)) /\ (Len(e) + i) - Len(e) = i
    BY <1>1, <1>2
  <2> QED
    BY <1>1, <1>2, <2>1
<1>5. pos + Len(e) <= Len(buf) + 1 /\ pos + Len(e) \in Nat \ {0} /\ (pos + Len(e)) + Len(f) <= Len(buf) + 1
  BY <1>1, <1>2
<1> QED
  BY <1>2, <1>3, <1>4, <1>5 DEF Holds

\* What it holds is there when it is sliced out.
LEMMA HoldsSlice ==
  ASSUME NEW S, NEW buf \in Seq(S), NEW pos, NEW e \in Seq(S), Holds(buf, pos, e)
  PROVE  Has(buf, pos, Len(e)) /\ Slice(buf, pos, Len(e)) = e
<1>1. /\ pos \in Nat \ {0} /\ pos + Len(e) <= Len(buf) + 1 /\ Len(e) \in Nat /\ Len(buf) \in Nat
      /\ \A i \in 1..Len(e) : buf[pos + i - 1] = e[i]
  BY LenProperties DEF Holds
<1> DEFINE m == pos + Len(e) - 1
           t == SubSeq(buf, pos, m)
<1>2. /\ DOMAIN t = 1..Len(e) /\ \A i \in 1..Len(e) : t[i] = buf[pos + i - 1]
      /\ t = [i \in 1..Len(e) |-> t[i]]
  <2>1. pos \in Nat /\ m \in Int /\ m - pos + 1 = Len(e) /\ 1 <= pos /\ m <= Len(buf)
    BY <1>1
  <2>2. t = [i \in 1..(m - pos + 1) |-> buf[pos + i - 1]]
    <3> HIDE DEF m
    <3> QED
      BY <2>1
  <2>3. t = [i \in 1..Len(e) |-> buf[pos + i - 1]]
    BY <2>1, <2>2
  <2> HIDE DEF t
  <2> QED
    BY <2>3
<1>3. e = [i \in 1..Len(e) |-> e[i]]
  BY LenProperties
<1> HIDE DEF t
<1>4. t = e
  BY <1>1, <1>2, <1>3
<1> QED
  BY <1>1, <1>4 DEF Slice, Has, t

-----------------------------------------------------------------------------
\* A varint is read as it was written, wherever it is.
LEMMA ReadsVarint ==
  ASSUME BytesAssumption, NEW n \in Nat, n < Power2[WordBits],
         NEW buf \in Seq(0..255), NEW pos, Holds(buf, pos, EncodeVarint(n))
  PROVE  ReadVarint(buf, pos) = Found(n, Len(EncodeVarint(n)))
<1> DEFINE e == EncodeVarint(n)
           l == Len(e)
           ends == {i \in pos..Len(buf) : buf[i] < 128}
           stop == CHOOSE i \in ends : \A j \in ends : i <= j
           used == stop - pos + 1
<1>1. IsVarint(e, n)
  BY VarintIs
<1> HIDE DEF e
<1>2. l \in Nat /\ 1 <= l /\ Len(buf) \in Nat /\ e \in Seq(0..255)
  BY <1>1, LenProperties DEF IsVarint
<1>3. /\ pos \in Nat \ {0} /\ pos + l <= Len(buf) + 1
      /\ \A i \in 1..l : buf[pos + i - 1] = e[i]
  BY DEF Holds, e
<1>4. pos + l - 1 \in ends /\ \A j \in ends : pos + l - 1 <= j
  <2>1. pos + l - 1 \in ends
    <3>1. l \in 1..l /\ pos + l - 1 \in pos..Len(buf)
      BY <1>2, <1>3
    <3>2. buf[pos + l - 1] = e[l]
      BY <1>3, <3>1
    <3> QED
      BY <1>1, <3>1, <3>2 DEF IsVarint
  <2>2. ASSUME NEW j \in ends, j < pos + l - 1 PROVE FALSE
    <3>1. j \in Nat /\ j - pos + 1 \in 1..(l - 1) /\ j - pos + 1 \in 1..l /\ pos + (j - pos + 1) - 1 = j
      BY <1>2, <1>3, <2>2
    <3>2. buf[j] = e[j - pos + 1] /\ 128 <= e[j - pos + 1]
      BY <1>1, <1>3, <3>1 DEF IsVarint
    <3>3. buf[j] < 128
      BY <2>2
    <3>4. buf[j] \in 0..255
      BY <1>2, <1>3, <2>2, j \in 1..Len(buf), ElementOfSeq
    <3>5. \A x \in 0..255 : ~(x < 128 /\ 128 <= x)
      BY SMT
    <3> QED
      BY <3>2, <3>3, <3>4, <3>5
  <2>3. \A j \in ends : j \in Nat
    BY <1>3
  <2> QED
    BY <1>2, <1>3, <2>1, <2>2, <2>3
<1> HIDE DEF ends
<1>5. stop \in ends /\ \A j \in ends : stop <= j
  BY <1>4
<1>6. \A i \in ends : i \in Nat
  BY <1>3 DEF ends
<1>7. stop = pos + l - 1
  <2> HIDE DEF stop
  <2> QED
    BY <1>2, <1>3, <1>4, <1>5, <1>6
<1>8. used = l
  <2> HIDE DEF stop
  <2> QED
    BY <1>2, <1>3, <1>7
<1>9. ~(7 * (l - 1) >= WordBits)
  <2>1. CASE l = 1
    BY <2>1 DEF BytesAssumption
  <2>2. CASE 1 < l
    <3>1. Power2[7 * (l - 1)] <= n /\ 7 * (l - 1) \in Nat
      BY <1>1, <1>2, <2>2 DEF IsVarint
    <3>2. SUFFICES ASSUME WordBits <= 7 * (l - 1) PROVE FALSE
      BY <3>1 DEF BytesAssumption
    <3>3. Power2[WordBits] <= Power2[7 * (l - 1)]
      BY <3>1, <3>2, PowersGrow DEF BytesAssumption
    <3>4. Power2[WordBits] \in Nat /\ Power2[7 * (l - 1)] \in Nat
      BY <3>1, Powers DEF BytesAssumption
    <3> QED
      BY <3>1, <3>3, <3>4
  <2> QED
    BY <1>2, <2>1, <2>2
<1>10. Slice(buf, pos, l) = e
  BY <1>2, HoldsSlice DEF e
<1>11. Value(e, 128) % Power2[WordBits] = n
  <2>1. Value(e, 128) = n
    BY <1>1 DEF IsVarint
  <2>2. Power2[WordBits] \in Nat
    BY Powers DEF BytesAssumption
  <2>3. n % Power2[WordBits] = n
    BY <2>2, Small
  <2> QED
    BY <2>1, <2>3
<1>12. ReadVarint(buf, pos) =
         IF ends = {} \/ 7 * (used - 1) >= WordBits THEN Nothing
         ELSE Found(Value(Slice(buf, pos, used), 128) % Power2[WordBits], used)
  BY DEF ReadVarint, ends
<1> HIDE DEF used, l
<1> QED
  BY <1>4, <1>8, <1>9, <1>10, <1>11, <1>12 DEF l, e

\* So is a number of fixed width.
LEMMA ReadsInt ==
  ASSUME NEW n \in Nat, NEW buf \in Seq(0..255), NEW pos, Holds(buf, pos, EncodeInt(n))
  PROVE  ReadLe(buf, pos, Len(EncodeInt(n))) = n
<1>1. AreDigits(EncodeInt(n), n, 256)
  BY DigitsAre, 256 \in Nat, 2 <= 256 DEF EncodeInt
<1>2. EncodeInt(n) \in Seq(0..255) /\ Value(EncodeInt(n), 256) = n
  BY <1>1, 256 - 1 = 255 DEF AreDigits
<1> QED
  BY <1>2, HoldsSlice DEF ReadLe

\* A number of fixed width has at least a byte.
LEMMA IntIs ==
  ASSUME NEW n \in Nat
  PROVE  EncodeInt(n) \in Seq(0..255) /\ Len(EncodeInt(n)) \in Nat /\ 1 <= Len(EncodeInt(n))
<1>1. AreDigits(EncodeInt(n), n, 256)
  BY DigitsAre, 256 \in Nat, 2 <= 256 DEF EncodeInt
<1> QED
  BY <1>1, 256 - 1 = 255, LenProperties DEF AreDigits

\* Its width, where that has a limit.
LEMMA WidthsAre ==
  ASSUME NEW n \in Nat, NEW w \in Nat, Len(EncodeInt(n)) <= w
  PROVE  EncodeInt(n) \in Seq(0..255) /\ Len(EncodeInt(n)) \in 1..w
BY IntIs

\* The byte of the three lengths gives each of them.
Lengths(l, m, k) == 32 * (l - 1) + 4 * (m - 1) + k - 1

AreLengths(x, l, m, k) ==
  x \div 32 + 1 = l /\ ((x \div 4) % 8) + 1 = m /\ (x % 4) + 1 = k

\* The shifts and masks of KeyPrefix::parse undo those of its writer.
LEMMA LengthsRead ==
  ASSUME NEW l \in 1..8, NEW m \in 1..8, NEW k \in 1..4
  PROVE  Lengths(l, m, k) \in 0..255 /\ AreLengths(Lengths(l, m, k), l, m, k)
<1>1. \A b, i, j \in Nat : j < b => (b * i + j) \div b = i /\ ((b * i + j) % b) = j
  BY SMT
<1> DEFINE x == Lengths(l, m, k)
<1>2. /\ x = 32 * (l - 1) + (4 * (m - 1) + k - 1)
      /\ x = 4 * (8 * (l - 1) + (m - 1)) + (k - 1)
      /\ l - 1 \in Nat /\ m - 1 \in Nat /\ k - 1 \in Nat /\ m - 1 < 8 /\ k - 1 < 4
      /\ 4 * (m - 1) + k - 1 \in Nat /\ 4 * (m - 1) + k - 1 < 32
      /\ 8 * (l - 1) + (m - 1) \in Nat /\ x \in 0..255
  BY SMT DEF Lengths
<1> HIDE DEF x
<1>3. x \div 32 = l - 1
  BY <1>2, SMT
<1>4. x \div 4 = 8 * (l - 1) + (m - 1) /\ (x % 4) = k - 1
  BY <1>2, SMT
<1>5. ((8 * (l - 1) + (m - 1)) % 8) = m - 1
  BY <1>2, SMT
<1> QED
  BY <1>2, <1>3, <1>4, <1>5, SMT DEF x, AreLengths

\* The bytes of a prefix.
LEMMA PrefixIs ==
  ASSUME NEW db \in Nat, NEW store \in Nat, NEW index \in Nat,
         Len(EncodeInt(db)) <= 8, Len(EncodeInt(store)) <= 8, Len(EncodeInt(index)) <= 4
  PROVE  EncodePrefix(db, store, index) \in Seq(0..255)
<1> DEFINE d == EncodeInt(db)
           s == EncodeInt(store)
           i == EncodeInt(index)
           first == Lengths(Len(d), Len(s), Len(i))
<1>1. /\ d \in Seq(0..255) /\ s \in Seq(0..255) /\ i \in Seq(0..255)
      /\ Len(d) \in 1..8 /\ Len(s) \in 1..8 /\ Len(i) \in 1..4
  BY WidthsAre
<1>2. first \in 0..255
  <2> HIDE DEF d, s, i
  <2> QED
    BY <1>1, LengthsRead
<1>3. <<first>> \in Seq(0..255)
  <2> HIDE DEF first
  <2> QED
    BY <1>2, OneElement
<1>4. EncodePrefix(db, store, index) = <<first>> \o d \o s \o i
  BY DEF EncodePrefix, Lengths
<1> HIDE DEF first, d, s, i
<1>5. <<first>> \o d \in Seq(0..255)
  BY <1>1, <1>3, ConcatProperties
<1>6. <<first>> \o d \o s \in Seq(0..255)
  BY <1>1, <1>5, ConcatProperties
<1>7. <<first>> \o d \o s \o i \in Seq(0..255)
  BY <1>1, <1>6, ConcatProperties
<1> QED
  BY <1>4, <1>7

\* The ids of a key, whatever their widths.
PrefixRead(key, db, store, index) ==
  LET p == EncodePrefix(db, store, index)
  IN KeyPrefix(key) = Found([database |-> db, store |-> store, index |-> index], Len(p))

\* KeyPrefix::parse gives the ids that were written.
LEMMA ReadsPrefix ==
  ASSUME NEW db \in Nat, NEW store \in Nat, NEW index \in Nat,
         Len(EncodeInt(db)) <= 8, Len(EncodeInt(store)) <= 8, Len(EncodeInt(index)) <= 4,
         NEW key \in Seq(0..255), Holds(key, 1, EncodePrefix(db, store, index))
  PROVE  PrefixRead(key, db, store, index)
<1> DEFINE d == EncodeInt(db)
           s == EncodeInt(store)
           i == EncodeInt(index)
           l == Len(d)
           m == Len(s)
           k == Len(i)
           first == Lengths(l, m, k)
           e == <<first>>
           p == EncodePrefix(db, store, index)
<1>1. /\ d \in Seq(0..255) /\ s \in Seq(0..255) /\ i \in Seq(0..255)
      /\ l \in 1..8 /\ m \in 1..8 /\ k \in 1..4
  BY WidthsAre
<1>2. p = e \o d \o s \o i
  BY DEF EncodePrefix, Lengths
<1>3. /\ ReadLe(key, 2, l) = db
      /\ ReadLe(key, 2 + l, m) = store
      /\ ReadLe(key, 2 + l + m, k) = index
      /\ key[1] = first /\ key # <<>> /\ Has(key, 2, l + m + k)
      /\ Len(p) = 1 + l + m + k
  <2>1. /\ e \in Seq(0..255) /\ Len(e) = 1 /\ e[1] = first
        /\ l \in Nat /\ m \in Nat /\ k \in Nat /\ Len(key) \in Nat
    <3>1. first \in 0..255
      <4> HIDE DEF l, m, k
      <4> QED
        BY <1>1, LengthsRead
    <3> HIDE DEF first
    <3> QED
      BY <1>1, <3>1, OneElement, LenProperties
  <2> HIDE DEF first
  <2>2. e \o d \in Seq(0..255) /\ Len(e \o d) = 1 + l
    BY <1>1, <2>1, ConcatProperties
  <2> HIDE DEF e
  <2>3. (e \o d) \o s \in Seq(0..255) /\ Len((e \o d) \o s) = 1 + l + m
    <3> DEFINE ed == e \o d
    <3>1. ed \in Seq(0..255) /\ Len(ed) = 1 + l
      BY <2>2
    <3> HIDE DEF ed
    <3>2. s \in Seq(0..255)
      BY <1>1
    <3> HIDE DEF s
    <3>3. ed \o s \in Seq(0..255) /\ Len(ed \o s) = Len(ed) + Len(s)
      BY <3>1, <3>2, JoinedBytes, ZenonT(40) DEF Joined
    <3>4. Len(ed \o s) = 1 + l + m
      BY <3>1, <3>3
    <3> QED
      BY <3>3, <3>4 DEF ed
  <2> HIDE DEF d, s, i
  <2>4. Holds(key, 1, (e \o d) \o s) /\ Holds(key, 1 + Len((e \o d) \o s), i)
    <3> DEFINE f == (e \o d) \o s
    <3>1. f \in Seq(0..255) /\ Holds(key, 1, f \o i)
      BY <1>2, <2>3
    <3> HIDE DEF f
    <3>2. Holds(key, 1, f) /\ Holds(key, 1 + Len(f), i)
      BY <1>1, <2>1, <3>1, HoldsParts, ZenonT(40)
    <3> QED
      BY <3>2 DEF f
  <2>5. Holds(key, 1, e \o d) /\ Holds(key, 1 + Len(e \o d), s)
    BY <1>1, <2>1, <2>2, <2>4, HoldsParts
  <2>6. Holds(key, 1, e) /\ Holds(key, 1 + Len(e), d)
    BY <1>1, <2>1, <2>5, HoldsParts
  <2>7. /\ Holds(key, 2, d) /\ Holds(key, 2 + l, s) /\ Holds(key, 2 + l + m, i)
    <3>1. 1 + Len(e) = 2 /\ 1 + Len(e \o d) = 2 + l /\ 1 + Len((e \o d) \o s) = 2 + l + m
      BY <2>1, <2>2, <2>3
    <3> QED
      BY <2>4, <2>5, <2>6, <3>1
  <2>8. key[1] = first /\ key # <<>> /\ Has(key, 2, l + m + k)
    <3>1. /\ 1 + Len(e) <= Len(key) + 1 /\ \A j \in 1..Len(e) : key[1 + j - 1] = e[j]
      BY <2>6 DEF Holds
    <3>2. 2 + l + m + Len(i) <= Len(key) + 1
      BY <2>7 DEF Holds
    <3>3. key[1] = first
      BY <2>1, <3>1
    <3> QED
      BY <2>1, <3>1, <3>2, <3>3 DEF Has
  <2>9. Len(p) = 1 + l + m + k
    <3> DEFINE f == (e \o d) \o s
    <3>1. f \in Seq(0..255) /\ Len(f) = 1 + l + m /\ p = f \o i
      BY <1>2, <2>3
    <3> HIDE DEF f, p
    <3>2. Len(f \o i) = Len(f) + k
      BY <1>1, <3>1, JoinedBytes, ZenonT(40) DEF Joined
    <3> QED
      BY <2>1, <3>1, <3>2
  <2>10. /\ ReadLe(key, 2, l) = db
         /\ ReadLe(key, 2 + l, m) = store
         /\ ReadLe(key, 2 + l + m, k) = index
    BY <2>7, ReadsInt DEF d, s, i
  <2> QED
    BY <2>8, <2>9, <2>10
<1>4. AreLengths(first, l, m, k)
  <2> HIDE DEF l, m, k
  <2> QED
    BY <1>1, LengthsRead
<1> HIDE DEF l, m, k, first, p
<1>5. /\ key[1] \div 32 + 1 = l /\ ((key[1] \div 4) % 8) + 1 = m /\ (key[1] % 4) + 1 = k
  BY <1>3, <1>4, Zenon DEF AreLengths
<1>6. KeyPrefix(key) =
        Found([database |-> ReadLe(key, 2, l), store |-> ReadLe(key, 2 + l, m),
               index |-> ReadLe(key, 2 + l + m, k)], 1 + l + m + k)
  BY <1>3, <1>5, Zenon DEF KeyPrefix
<1> QED
  BY <1>3, <1>6, Zenon DEF PrefixRead, p

-----------------------------------------------------------------------------
\* The two bytes of a code unit give it back.
OfTwoBytes(u) ==
  u \div 256 \in 0..255 /\ (u % 256) \in 0..255 /\ 256 * (u \div 256) + (u % 256) = u

LEMMA UnitBytes ==
  ASSUME NEW u \in CodeUnits
  PROVE  OfTwoBytes(u)
<1>1. u \in Nat /\ u < 65536
  BY SMT DEF CodeUnits
<1>2. u \div 256 \in 0..255
  BY <1>1, SMT
<1>3. (u % 256) \in 0..255 /\ 256 * (u \div 256) + (u % 256) = u
  BY <1>1, SMT
<1> QED
  BY <1>2, <1>3 DEF OfTwoBytes

\* A string comes back from its bytes.
LEMMA ReadsUtf16 ==
  ASSUME NEW s, IsName(s)
  PROVE  /\ EncodeUtf16Be(s) \in Seq(0..255)
         /\ Len(EncodeUtf16Be(s)) = 2 * Len(s)
         /\ DecodeUtf16Be(EncodeUtf16Be(s)) = Found(s, 2 * Len(s))
<1> DEFINE n == Len(s)
           e == EncodeUtf16Be(s)
<1>1. n \in Nat /\ DOMAIN s = 1..n /\ s = [i \in 1..n |-> s[i]] /\ \A i \in 1..n : s[i] \in CodeUnits
  BY LenProperties, ElementOfSeq, Zenon DEF IsName
<1> HIDE DEF n
<1>2. e = [i \in 1..(2 * n) |-> IF i % 2 = 1 THEN s[(i + 1) \div 2] \div 256 ELSE s[i \div 2] % 256]
  BY DEF EncodeUtf16Be, n
<1>3. \A u \in CodeUnits : OfTwoBytes(u)
  BY UnitBytes, Zenon
<1>4. ASSUME NEW i \in 1..n
      PROVE  /\ 2 * i - 1 \in 1..(2 * n) /\ 2 * i \in 1..(2 * n)
             /\ e[2 * i - 1] = s[i] \div 256 /\ e[2 * i] = s[i] % 256
  <2>1. 2 * i - 1 \in 1..(2 * n) /\ 2 * i \in 1..(2 * n) /\ i \in Nat
    BY <1>1, SMT
  <2>2. (2 * i - 1) % 2 = 1 /\ ~((2 * i) % 2 = 1)
    BY <2>1, SMT
  <2>3. ((2 * i - 1) + 1) \div 2 = i /\ (2 * i) \div 2 = i
    BY <2>1, SMT
  <2> QED
    BY <1>2, <2>1, <2>2, <2>3
<1>5. ASSUME NEW i \in 1..(2 * n) PROVE e[i] \in 0..255
  <2>1. CASE i % 2 = 1
    <3> DEFINE u == s[(i + 1) \div 2]
    <3>1. (i + 1) \div 2 \in 1..n
      BY <1>1, <2>1, SMT
    <3>2. u \in CodeUnits
      BY <1>1, <3>1, Zenon
    <3>3. e[i] = u \div 256
      BY <1>2, <2>1
    <3> HIDE DEF u
    <3>4. (u \div 256) \in 0..255
      BY <1>3, <3>2, SMT DEF OfTwoBytes
    <3> QED
      BY <3>3, <3>4
  <2>2. CASE i % 2 # 1
    <3> DEFINE u == s[i \div 2]
    <3>1. i \div 2 \in 1..n
      BY <1>1, <2>2, SMT
    <3>2. u \in CodeUnits
      BY <1>1, <3>1, Zenon
    <3>3. e[i] = u % 256
      BY <1>2, <2>2
    <3> HIDE DEF u
    <3>4. (u % 256) \in 0..255
      BY <1>3, <3>2, SMT DEF OfTwoBytes
    <3> QED
      BY <3>3, <3>4
  <2> QED
    BY <2>1, <2>2
<1>6. e \in Seq(0..255) /\ Len(e) = 2 * n /\ 2 * n \in Nat
  <2>1. DOMAIN e = 1..(2 * n) /\ e = [i \in 1..(2 * n) |-> e[i]] /\ 2 * n \in Nat
    <3> HIDE DEF e
    <3>1. e = [i \in 1..(2 * n) |-> e[i]] /\ DOMAIN e = 1..(2 * n)
      BY <1>2
    <3> QED
      BY <1>1, <3>1
  <2> HIDE DEF e
  <2>2. e \in [1..(2 * n) -> 0..255]
    BY <1>5, <2>1
  <2> DEFINE k == 2 * n
  <2>3. e \in [1..k -> 0..255] /\ k \in Nat
    BY <2>1, <2>2
  <2> HIDE DEF k
  <2>4. e \in Seq(0..255) /\ Len(e) = k
    BY <2>3
  <2> QED
    BY <2>1, <2>4 DEF k
<1>7. Len(e) \div 2 = n /\ ~(Len(e) % 2 = 1)
  BY <1>1, <1>6, SMTT(20)
<1>8. [i \in 1..(Len(e) \div 2) |-> 256 * e[2 * i - 1] + e[2 * i]] = s
  <2>1. ASSUME NEW i \in 1..n PROVE 256 * e[2 * i - 1] + e[2 * i] = s[i]
    <3>1. e[2 * i - 1] = s[i] \div 256 /\ e[2 * i] = s[i] % 256
      BY <1>4
    <3>2. OfTwoBytes(s[i])
      BY <1>1, <1>3, Zenon
    <3> QED
      BY <3>1, <3>2, ZenonT(40) DEF OfTwoBytes
  <2> HIDE DEF e
  <2> QED
    BY <1>1, <1>7, <2>1
<1>9. DecodeUtf16Be(e) =
        LET t == [i \in 1..(Len(e) \div 2) |-> 256 * e[2 * i - 1] + e[2 * i]]
        IN IF Len(e) % 2 = 1 \/ (\E i \in DOMAIN t : Lone(t, i)) THEN Nothing ELSE Found(t, Len(e))
  BY DEF DecodeUtf16Be
<1> HIDE DEF e
<1>10. DecodeUtf16Be(e) = Found(s, Len(e))
  BY <1>7, <1>8, <1>9, Zenon DEF IsName
<1> QED
  BY <1>6, <1>10 DEF e, n

\* The bytes of a varint.
LEMMA VarintBytes ==
  ASSUME NEW n \in Nat
  PROVE  EncodeVarint(n) \in Seq(0..255) /\ Len(EncodeVarint(n)) \in Nat
BY VarintIs, LenProperties DEF IsVarint

\* So does a string from its bytes after their length.
LEMMA ReadsString ==
  ASSUME BytesAssumption, NEW s, IsName(s), Len(s) < Power2[WordBits],
         NEW buf \in Seq(0..255), NEW pos, Holds(buf, pos, EncodeString(s))
  PROVE  ReadString(buf, pos) = Found(s, Len(EncodeString(s)))
<1> DEFINE n == Len(s)
           v == EncodeVarint(n)
           u == EncodeUtf16Be(s)
           x == ReadVarint(buf, pos)
<1>1. n \in Nat /\ Len(buf) \in Nat
  BY LenProperties DEF IsName
<1>2. v \in Seq(0..255) /\ Len(v) \in Nat
  BY <1>1, VarintBytes
<1>3. /\ u \in Seq(0..255) /\ Len(u) = 2 * n /\ DecodeUtf16Be(u) = Found(s, 2 * n)
  BY ReadsUtf16
<1>4. EncodeString(s) = v \o u
  BY DEF EncodeString
<1>5. Holds(buf, pos, v) /\ Holds(buf, pos + Len(v), u)
  <2> HIDE DEF v, u
  <2> QED
    BY <1>1, <1>2, <1>3, <1>4, HoldsParts
<1>6. x = Found(n, Len(v))
  BY <1>1, <1>5, ReadsVarint
<1>7. Has(buf, pos + Len(v), 2 * n) /\ Slice(buf, pos + Len(v), 2 * n) = u
  <2> HIDE DEF v, u
  <2>1. Has(buf, pos + Len(v), Len(u)) /\ Slice(buf, pos + Len(v), Len(u)) = u
    BY <1>3, <1>5, HoldsSlice
  <2> QED
    BY <1>3, <2>1
<1>8. Len(EncodeString(s)) = Len(v) + 2 * n
  <2> HIDE DEF v, u, n
  <2>1. Len(v \o u) = Len(v) + Len(u)
    BY <1>2, <1>3, JoinedBytes, ZenonT(40) DEF Joined
  <2> QED
    BY <1>3, <1>4, <2>1
<1> HIDE DEF v, u, n, x
<1>9. x.ok /\ x.used = Len(v) /\ x.value = n
  BY <1>6 DEF Found
<1>10. ReadString(buf, pos) =
         IF ~x.ok \/ ~Has(buf, pos + x.used, 2 * x.value) THEN Nothing
         ELSE LET t == DecodeUtf16Be(Slice(buf, pos + x.used, 2 * x.value))
              IN IF t.ok THEN Found(t.value, x.used + t.used) ELSE Nothing
  BY DEF ReadString, x
<1> DEFINE t == DecodeUtf16Be(u)
<1>11. ReadString(buf, pos) = IF t.ok THEN Found(t.value, Len(v) + t.used) ELSE Nothing
  <2> HIDE DEF t
  <2> QED
    BY <1>7, <1>9, <1>10, Zenon DEF t
<1>12. t.ok /\ t.value = s /\ t.used = 2 * n
  BY <1>3 DEF Found
<1> HIDE DEF t
<1> QED
  BY <1>8, <1>11, <1>12

-----------------------------------------------------------------------------
\* Ids as FormatsAssumption has them.
IsId(n) == n \in Nat \ {0} /\ Len(EncodeInt(n)) <= 8 /\ n < Power2[WordBits]

\* The ids of the metadata's own keys have one byte.
LEMMA ZeroIs == Len(EncodeInt(0)) = 1
<1>1. Digits(0, 256) = <<0>>
  BY 0 \in Nat, 256 \in Nat, 2 <= 256, 0 < 256, DigitsOfFirst
<1> QED
  BY <1>1, 0 \in Nat, OneElement DEF EncodeInt

\* The bytes of a string.
LEMMA StringIs ==
  ASSUME NEW s, IsName(s)
  PROVE  EncodeString(s) \in Seq(0..255) /\ Len(EncodeString(s)) \in Nat
<1>1. Len(s) \in Nat
  BY LenProperties DEF IsName
<1>2. EncodeVarint(Len(s)) \in Seq(0..255) /\ EncodeUtf16Be(s) \in Seq(0..255)
  BY <1>1, VarintBytes, ReadsUtf16
<1>3. EncodeVarint(Len(s)) \o EncodeUtf16Be(s) \in Seq(0..255)
  BY <1>2, ConcatProperties
<1> QED
  BY <1>3, LenProperties DEF EncodeString

\* What the code makes of a record, and what the record says.
IsRead(r) ==
  <<DatabaseName(r.key, r.value), StoreName(r.key, r.value), IsObjectStoreData(r.key)>> =
    <<r.database, r.store, r.data>>

\* A record is read by its five fields.
LEMMA RecordIsRead ==
  ASSUME NEW key, NEW value, NEW database, NEW store, NEW data,
         DatabaseName(key, value) = database, StoreName(key, value) = store,
         IsObjectStoreData(key) = data
  PROVE  IsRead(Record(key, value, database, store, data))
<1> DEFINE r == Record(key, value, database, store, data)
<1>1. r.key = key /\ r.value = value /\ r.database = database /\ r.store = store /\ r.data = data
  BY DEF Record
<1> HIDE DEF r
<1> QED
  BY <1>1, Zenon DEF IsRead, r

\* The parts of a key: its prefix, a byte of its type, and more.
Associates(s, t, u) == (s \o t) \o u = s \o (t \o u)

\* Joining bytes is associative.
LEMMA JoinsAgree ==
  ASSUME NEW s \in Seq(0..255), NEW t \in Seq(0..255), NEW u \in Seq(0..255)
  PROVE  Associates(s, t, u)
BY ConcatAssociative DEF Associates

\* Each part is at its place.
IsTyped(key, p, b, rest) ==
  /\ Holds(key, 1, p) /\ TypeByte(key, Len(p) + 1, b) /\ Holds(key, Len(p) + 2, rest)

\* A key that is joined from its parts has each of them at its place.
LEMMA TypedKey ==
  ASSUME NEW p \in Seq(0..255), NEW b \in 0..255, NEW rest \in Seq(0..255),
         NEW key \in Seq(0..255), key = (p \o <<b>>) \o rest
  PROVE  IsTyped(key, p, b, rest)
<1> DEFINE e == <<b>>
           f == p \o e
<1>1. e \in Seq(0..255) /\ Len(e) = 1 /\ e[1] = b /\ Len(p) \in Nat /\ Len(key) \in Nat
  BY OneElement, LenProperties
<1> HIDE DEF e
<1>2. f \in Seq(0..255) /\ Len(f) = Len(p) + 1
  <2>1. p \o e \in Seq(0..255) /\ Len(p \o e) = Len(p) + Len(e)
    BY <1>1, JoinedBytes, ZenonT(40) DEF Joined
  <2> QED
    BY <1>1, <2>1
<1> HIDE DEF f
<1>3. Holds(key, 1, f \o rest)
  BY HoldsAll DEF e, f
<1>4. Holds(key, 1, f) /\ Holds(key, 1 + Len(f), rest)
  BY <1>1, <1>2, <1>3, HoldsParts, ZenonT(40)
<1>5. Holds(key, 1, p) /\ Holds(key, 1 + Len(p), e)
  BY <1>1, <1>4, HoldsParts, ZenonT(40) DEF f
<1>6. key[Len(p) + 1] = b /\ Has(key, Len(p) + 1, 1)
  <2>1. 1 + Len(p) + Len(e) <= Len(key) + 1 /\ \A i \in 1..Len(e) : key[1 + Len(p) + i - 1] = e[i]
    BY <1>5 DEF Holds
  <2>2. 1 \in 1..Len(e) /\ 1 + Len(p) + 1 - 1 = Len(p) + 1
    BY <1>1
  <2>3. key[1 + Len(p) + 1 - 1] = e[1]
    BY <2>1, <2>2
  <2> QED
    BY <1>1, <2>1, <2>2, <2>3 DEF Has
<1>7. 1 + Len(f) = Len(p) + 2
  BY <1>1, <1>2
<1> QED
  BY <1>4, <1>5, <1>6, <1>7 DEF TypeByte, IsTyped

\* The name and id of a database are read as such, and as nothing else.
LEMMA ReadsDatabase ==
  ASSUME BytesAssumption, NEW origin, NEW name, NEW id, IsId(id),
         IsName(origin), IsName(name), Len(origin) < Power2[WordBits], Len(name) < Power2[WordBits]
  PROVE  IsRead(DatabaseRecord(origin, name, id))
<1> DEFINE p == EncodePrefix(0, 0, 0)
           o == EncodeString(origin)
           n == EncodeString(name)
           key == ((p \o <<201>>) \o o) \o n
           value == EncodeInt(id)
<1>1. p \in Seq(0..255) /\ Len(p) \in Nat /\ o \in Seq(0..255) /\ n \in Seq(0..255)
      /\ Len(o) \in Nat /\ value \in Seq(0..255) /\ id \in Nat
  <2>1. 0 \in Nat /\ 1 <= 8 /\ 1 <= 4
    OBVIOUS
  <2>2. p \in Seq(0..255)
    BY <2>1, ZeroIs, PrefixIs
  <2> QED
    BY <2>2, StringIs, IntIs, LenProperties DEF IsId
<1>2. DatabaseRecord(origin, name, id) =
        Record(key, value, Found(<<name, id>>, 0), Nothing, FALSE)
  BY DEF DatabaseRecord
<1>3. ReadLe(value, 1, Len(value)) = id
  BY <1>1, HoldsAll, ReadsInt
<1> HIDE DEF o, n, p, value
<1>4. o \o n \in Seq(0..255) /\ key = (p \o <<201>>) \o (o \o n)
      /\ key \in Seq(0..255) /\ Len(key) \in Nat
  <2> DEFINE e == <<201>>
             f == p \o e
  <2>1. e \in Seq(0..255)
    BY 201 \in 0..255, OneElement
  <2> HIDE DEF e
  <2>2. f \in Seq(0..255) /\ o \o n \in Seq(0..255)
    BY <1>1, <2>1, ConcatProperties
  <2> HIDE DEF f
  <2>3. (f \o o) \o n = f \o (o \o n)
    <3>1. Associates(f, o, n)
      BY <1>1, <2>2, JoinsAgree
    <3> QED
      BY <3>1 DEF Associates
  <2>4. f \o (o \o n) \in Seq(0..255)
    BY <2>2, ConcatProperties
  <2> QED
    BY <2>2, <2>3, <2>4, LenProperties, ZenonT(40) DEF f, e
<1> HIDE DEF key
<1>5. Holds(key, 1, p) /\ TypeByte(key, Len(p) + 1, 201) /\ Holds(key, Len(p) + 2, o \o n)
  <2>1. IsTyped(key, p, 201, o \o n)
    BY <1>1, <1>4, 201 \in 0..255, TypedKey, ZenonT(40)
  <2> QED
    BY <2>1 DEF IsTyped
<1>6. Holds(key, Len(p) + 2, o) /\ Holds(key, Len(p) + 2 + Len(o), n)
  <2> DEFINE q == Len(p) + 2
  <2>1. Holds(key, q, o \o n)
    BY <1>5
  <2> HIDE DEF q
  <2>2. Holds(key, q, o) /\ Holds(key, q + Len(o), n)
    BY <1>1, <1>4, <2>1, HoldsParts, ZenonT(40)
  <2> QED
    BY <2>2 DEF q
<1>7. KeyPrefix(key) = Found([database |-> 0, store |-> 0, index |-> 0], Len(p))
  <2>1. 0 \in Nat /\ 1 <= 8 /\ 1 <= 4
    OBVIOUS
  <2>2. PrefixRead(key, 0, 0, 0)
    BY <1>4, <1>5, <2>1, ZeroIs, ReadsPrefix, ZenonT(30) DEF p
  <2> QED
    BY <2>2 DEF PrefixRead, p
<1>8. ReadString(key, Len(p) + 2) = Found(origin, Len(o))
  BY <1>4, <1>6, ReadsString, ZenonT(40) DEF o
<1>9. ReadString(key, Len(p) + 2 + Len(o)) = Found(name, Len(n))
  BY <1>4, <1>6, ReadsString, ZenonT(40) DEF n
<1>10. DatabaseName(key, value) = Found(<<name, id>>, 0)
  <2> DEFINE x == KeyPrefix(key)
             y == ReadString(key, x.used + 2)
             z == ReadString(key, x.used + 2 + y.used)
  <2>1. x.ok /\ x.used = Len(p) /\ x.value = [database |-> 0, store |-> 0, index |-> 0]
    BY <1>7 DEF Found
  <2>2. y.ok /\ y.used = Len(o) /\ y.value = origin
    <3> HIDE DEF x
    <3> QED
      BY <1>8, <2>1 DEF Found
  <2>3. z.ok /\ z.value = name
    <3> HIDE DEF x, y
    <3> QED
      BY <1>9, <2>1, <2>2 DEF Found
  <2>4. DatabaseName(key, value) =
          IF /\ x.ok /\ x.value = [database |-> 0, store |-> 0, index |-> 0]
             /\ TypeByte(key, x.used + 1, 201) /\ y.ok /\ z.ok
          THEN Found(<<z.value, ReadLe(value, 1, Len(value))>>, 0) ELSE Nothing
    BY DEF DatabaseName
  <2> HIDE DEF x, y, z
  <2> QED
    BY <1>3, <1>5, <2>1, <2>2, <2>3, <2>4, Zenon
<1>11. StoreName(key, value) = Nothing
  BY <1>7 DEF StoreName, Found
<1>12. IsObjectStoreData(key) = FALSE
  BY <1>7 DEF IsObjectStoreData, Found
<1> QED
  BY <1>2, <1>10, <1>11, <1>12, RecordIsRead, Zenon

\* The keys of a store's metadata.
LEMMA ReadsMetadata ==
  ASSUME BytesAssumption, NEW db, NEW store, IsId(db), IsId(store), NEW item \in 0..255, NEW value,
         NEW key, key = EncodePrefix(db, 0, 0) \o << 50 >> \o EncodeVarint(store) \o <<item>>
  PROVE  /\ DatabaseName(key, value) = Nothing
         /\ IsObjectStoreData(key) = FALSE
         /\ item # 0 => StoreName(key, value) = Nothing
         /\ item = 0 => StoreName(key, value) =
              LET name == DecodeUtf16Be(value)
              IN IF name.ok THEN Found(<<db, store, name.value>>, 0) ELSE Nothing
<1> DEFINE p == EncodePrefix(db, 0, 0)
           v == EncodeVarint(store)
           i == <<item>>
<1>1. p \in Seq(0..255) /\ Len(p) \in Nat /\ v \in Seq(0..255) /\ Len(v) \in Nat
      /\ db \in Nat /\ store \in Nat /\ db # 0
  <2>1. 0 \in Nat /\ 1 <= 8 /\ 1 <= 4 /\ db \in Nat /\ store \in Nat /\ db # 0
    BY DEF IsId
  <2>2. p \in Seq(0..255)
    BY <2>1, ZeroIs, PrefixIs, ZenonT(30) DEF IsId
  <2> QED
    BY <2>1, <2>2, VarintBytes, LenProperties
<1>2. i \in Seq(0..255) /\ Len(i) = 1 /\ i[1] = item
  BY OneElement
<1> HIDE DEF p, v, i
<1>3. v \o i \in Seq(0..255) /\ key = (p \o <<50>>) \o (v \o i)
      /\ key \in Seq(0..255) /\ Len(key) \in Nat
  <2> DEFINE e == <<50>>
             f == p \o e
  <2>0. key = (f \o v) \o i
    BY DEF p, v, i
  <2>1. e \in Seq(0..255)
    BY 50 \in 0..255, OneElement
  <2> HIDE DEF e
  <2>2. f \in Seq(0..255) /\ v \o i \in Seq(0..255)
    BY <1>1, <1>2, <2>1, ConcatProperties
  <2> HIDE DEF f
  <2>3. (f \o v) \o i = f \o (v \o i)
    <3>1. Associates(f, v, i)
      BY <1>1, <1>2, <2>2, JoinsAgree
    <3> QED
      BY <3>1 DEF Associates
  <2>4. f \o (v \o i) \in Seq(0..255)
    BY <2>2, ConcatProperties
  <2> QED
    BY <2>0, <2>2, <2>3, <2>4, LenProperties, ZenonT(40) DEF f, e
<1>4. Holds(key, 1, p) /\ TypeByte(key, Len(p) + 1, 50) /\ Holds(key, Len(p) + 2, v \o i)
  <2>1. IsTyped(key, p, 50, v \o i)
    BY <1>1, <1>3, 50 \in 0..255, TypedKey
  <2> QED
    BY <2>1 DEF IsTyped
<1>5. Holds(key, Len(p) + 2, v) /\ Holds(key, Len(p) + 2 + Len(v), i)
  <2> DEFINE q == Len(p) + 2
  <2>1. Holds(key, q, v \o i)
    BY <1>4
  <2> HIDE DEF q
  <2>2. Holds(key, q, v) /\ Holds(key, q + Len(v), i)
    BY <1>1, <1>2, <1>3, <2>1, HoldsParts
  <2> QED
    BY <2>2 DEF q
<1>6. KeyPrefix(key) = Found([database |-> db, store |-> 0, index |-> 0], Len(p))
  <2>1. 0 \in Nat /\ 1 <= 8 /\ 1 <= 4
    OBVIOUS
  <2>2. Len(EncodeInt(db)) <= 8 /\ Len(EncodeInt(0)) <= 8 /\ Len(EncodeInt(0)) <= 4
    BY <2>1, ZeroIs DEF IsId
  <2>3. Holds(key, 1, EncodePrefix(db, 0, 0)) /\ key \in Seq(0..255) /\ db \in Nat
    BY <1>1, <1>3, <1>4 DEF p
  <2>4. PrefixRead(key, db, 0, 0)
    BY <2>1, <2>2, <2>3, ReadsPrefix
  <2> QED
    BY <2>4 DEF PrefixRead, p
<1>7. ReadVarint(key, Len(p) + 2) = Found(store, Len(v))
  BY <1>1, <1>3, <1>5, ReadsVarint DEF v, IsId
<1>8. key[Len(p) + 2 + Len(v)] = item /\ Has(key, Len(p) + 2 + Len(v), 1)
  <2> DEFINE q == Len(p) + 2 + Len(v)
  <2>1. q \in Nat /\ q + Len(i) <= Len(key) + 1 /\ \A j \in 1..Len(i) : key[q + j - 1] = i[j]
    BY <1>5 DEF Holds
  <2> HIDE DEF q
  <2>2. 1 \in 1..Len(i) /\ q + 1 - 1 = q
    BY <1>2, <2>1
  <2> QED
    BY <1>2, <2>1, <2>2 DEF Has, q
<1>10. IsObjectStoreData(key) = FALSE
  BY <1>6 DEF IsObjectStoreData, Found
<1> DEFINE x == KeyPrefix(key)
           y == ReadVarint(key, x.used + 2)
           name == DecodeUtf16Be(value)
<1>11. /\ x.ok /\ x.used = Len(p)
       /\ x.value.database = db /\ x.value.store = 0 /\ x.value.index = 0
  BY <1>6 DEF Found
<1>9. DatabaseName(key, value) = Nothing
  <2> DEFINE o == ReadString(key, x.used + 2)
             n == ReadString(key, x.used + 2 + o.used)
  <2>1. DatabaseName(key, value) =
          IF /\ x.ok /\ x.value = [database |-> 0, store |-> 0, index |-> 0]
             /\ TypeByte(key, x.used + 1, 201) /\ o.ok /\ n.ok
          THEN Found(<<n.value, ReadLe(value, 1, Len(value))>>, 0) ELSE Nothing
    BY DEF DatabaseName
  <2> HIDE DEF x, o, n
  <2>2. x.value # [database |-> 0, store |-> 0, index |-> 0]
    BY <1>1, <1>11
  <2> QED
    BY <2>1, <2>2, Zenon
<1>12. y.ok /\ y.value = store /\ y.used = Len(v)
  <2> HIDE DEF x
  <2> QED
    BY <1>7, <1>11 DEF Found
<1>13. StoreName(key, value) =
         IF /\ x.ok /\ x.value.database # 0 /\ x.value.store = 0 /\ x.value.index = 0
            /\ TypeByte(key, x.used + 1, 50) /\ y.ok
            /\ TypeByte(key, x.used + 2 + y.used, 0) /\ name.ok
         THEN Found(<<x.value.database, y.value, name.value>>, 0) ELSE Nothing
  BY DEF StoreName
<1>14. TypeByte(key, x.used + 2 + y.used, 0) <=> item = 0
  <2> HIDE DEF x, y
  <2> QED
    <3> DEFINE q == Len(p) + 2 + Len(v)
    <3>1. x.used + 2 + y.used = q
      BY <1>11, <1>12
    <3>2. key[q] = item /\ Has(key, q, 1)
      BY <1>8
    <3> HIDE DEF q
    <3> QED
      BY <3>1, <3>2, Zenon DEF TypeByte
<1>15. TypeByte(key, x.used + 1, 50)
  <2> HIDE DEF x, y
  <2> QED
    BY <1>4, <1>11
<1> HIDE DEF x, y, name
<1>16. StoreName(key, value) = IF item = 0 /\ name.ok THEN Found(<<db, store, name.value>>, 0) ELSE Nothing
  BY <1>1, <1>11, <1>12, <1>13, <1>14, <1>15
<1> QED
  BY <1>9, <1>10, <1>16 DEF name

\* The name of a store is read as such, and as nothing else.
LEMMA ReadsStore ==
  ASSUME BytesAssumption, NEW db, NEW store, NEW name, IsId(db), IsId(store), IsName(name)
  PROVE  IsRead(StoreRecord(db, store, name))
<1> DEFINE key == EncodePrefix(db, 0, 0) \o <<50>> \o EncodeVarint(store) \o <<0>>
           value == EncodeUtf16Be(name)
<1>1. DatabaseName(key, value) = Nothing /\ IsObjectStoreData(key) = FALSE
      /\ StoreName(key, value) = LET n == DecodeUtf16Be(value)
                                 IN IF n.ok THEN Found(<<db, store, n.value>>, 0) ELSE Nothing
  BY 0 \in 0..255, ReadsMetadata, ZenonT(40)
<1>2. DecodeUtf16Be(value) = Found(name, 2 * Len(name))
  BY ReadsUtf16
<1>3. StoreRecord(db, store, name) = Record(key, value, Nothing, Found(<<db, store, name>>, 0), FALSE)
  BY DEF StoreRecord
<1> HIDE DEF key, value
<1>4. StoreName(key, value) = Found(<<db, store, name>>, 0)
  BY <1>1, <1>2 DEF Found
<1> QED
  BY <1>1, <1>3, <1>4, RecordIsRead, Zenon

\* Another item of a store's metadata is no name.
LEMMA ReadsItem ==
  ASSUME BytesAssumption, NEW db, NEW store, IsId(db), IsId(store), NEW item \in 1..255, NEW value
  PROVE  IsRead(StoreItem(db, store, item, value))
<1> DEFINE key == EncodePrefix(db, 0, 0) \o <<50>> \o EncodeVarint(store) \o <<item>>
<1>1. item \in 0..255 /\ item # 0
  OBVIOUS
<1>2. DatabaseName(key, value) = Nothing /\ IsObjectStoreData(key) = FALSE /\ StoreName(key, value) = Nothing
  BY <1>1, ReadsMetadata, ZenonT(40)
<1>3. StoreItem(db, store, item, value) = Record(key, value, Nothing, Nothing, FALSE)
  BY DEF StoreItem
<1> HIDE DEF key
<1> QED
  BY <1>2, <1>3, RecordIsRead, Zenon

\* An entry or an index's entry is no name, and an entry of data if the index is 1.
LEMMA ReadsEntry ==
  ASSUME NEW db, NEW store, IsId(db), IsId(store), NEW index \in Nat \ {0}, Len(EncodeInt(index)) <= 4,
         NEW rest \in Seq(0..255), NEW value
  PROVE  IsRead(Entry(db, store, index, rest, value))
<1> DEFINE p == EncodePrefix(db, store, index)
           key == p \o rest
<1>1. db \in Nat /\ store \in Nat /\ db # 0 /\ store # 0 /\ index \in Nat
  BY DEF IsId
<1>2. p \in Seq(0..255)
  BY <1>1, PrefixIs DEF IsId
<1>3. Entry(db, store, index, rest, value) = Record(key, value, Nothing, Nothing, index = 1)
  BY DEF Entry
<1>4. key \in Seq(0..255) /\ Len(key) \in Nat /\ Holds(key, 1, p)
  <2> HIDE DEF p
  <2>1. key \in Seq(0..255)
    BY <1>2, ConcatProperties
  <2>2. Len(key) \in Nat /\ Holds(key, 1, p \o rest)
    BY <2>1, HoldsAll, LenProperties
  <2> HIDE DEF key
  <2> QED
    BY <1>2, <2>1, <2>2, HoldsParts
<1> HIDE DEF key
<1>5. KeyPrefix(key) = Found([database |-> db, store |-> store, index |-> index], Len(p))
  <2>1. PrefixRead(key, db, store, index)
    BY <1>1, <1>4, ReadsPrefix DEF IsId
  <2> QED
    BY <2>1 DEF PrefixRead
<1> HIDE DEF p
<1>6. DatabaseName(key, value) = Nothing
  BY <1>1, <1>5 DEF DatabaseName, Found
<1>7. StoreName(key, value) = Nothing
  BY <1>1, <1>5 DEF StoreName, Found
<1>8. IsObjectStoreData(key) = (index = 1)
  BY <1>5 DEF IsObjectStoreData, Found
<1> QED
  <2> DEFINE data == index = 1
  <2>1. IsObjectStoreData(key) = data /\ Entry(db, store, index, rest, value) = Record(key, value, Nothing, Nothing, data)
    BY <1>3, <1>8
  <2> HIDE DEF data
  <2> QED
    BY <1>6, <1>7, <2>1, RecordIsRead, Zenon

\* Every record is read as it was written.
LEMMA RecordsRead ==
  ASSUME BytesAssumption, FormatsAssumption, NEW r \in Records
  PROVE  IsRead(r)
<1> USE DEF FormatsAssumption
<1>1. \A n \in Ids : IsId(n)
  BY DEF IsId
<1>2. \A n \in Names : IsName(n) /\ Len(n) < Power2[WordBits]
  OBVIOUS
<1>3. CASE r \in {DatabaseRecord(origin, name, id) : origin \in Names, name \in Names, id \in Ids}
  <2>1. PICK origin \in Names, name \in Names, id \in Ids : r = DatabaseRecord(origin, name, id)
    BY <1>3
  <2> QED
    BY <1>1, <1>2, <2>1, ReadsDatabase
<1>4. CASE r \in {StoreRecord(db, store, name) : db \in Ids, store \in Ids, name \in Names}
  <2>1. PICK db \in Ids, store \in Ids, name \in Names : r = StoreRecord(db, store, name)
    BY <1>4
  <2> QED
    BY <1>1, <1>2, <2>1, ReadsStore
<1>5. CASE r \in {StoreItem(db, store, item, value) :
                    db \in Ids, store \in Ids, item \in Items, value \in Payloads}
  <2>1. PICK db \in Ids, store \in Ids, item \in Items, value \in Payloads :
          r = StoreItem(db, store, item, value)
    BY <1>5
  <2>2. item \in 1..255
    OBVIOUS
  <2> QED
    BY <1>1, <2>1, <2>2, ReadsItem
<1>6. CASE r \in {Entry(db, store, index, rest, value) :
                    db \in Ids, store \in Ids, index \in Indexes, rest \in Payloads, value \in Payloads}
  <2>1. PICK db \in Ids, store \in Ids, index \in Indexes, rest \in Payloads, value \in Payloads :
          r = Entry(db, store, index, rest, value)
    BY <1>6
  <2>2. index \in Nat \ {0} /\ Len(EncodeInt(index)) <= 4 /\ rest \in Seq(0..255)
    OBVIOUS
  <2> QED
    BY <1>1, <2>1, <2>2, ReadsEntry
<1> QED
  BY <1>3, <1>4, <1>5, <1>6 DEF Records

-----------------------------------------------------------------------------
(* The dates of util.rs, in years that begin in March: day by day they are the
   calendar's. *)

\* Days before the first of March of year y, counted from that of year 0.
Start(y) == 365 * y + y \div 4 - y \div 100 + y \div 400

\* A year that begins in March has the February of the next.
LEMMA StartStep ==
  ASSUME NEW y \in Nat
  PROVE  /\ Start(y) \in Nat
         /\ IsLeap(y + 1) => Start(y + 1) = Start(y) + 366
         /\ ~IsLeap(y + 1) => Start(y + 1) = Start(y) + 365
<1>1. \A n \in {4, 100, 400} : (y + 1) \div n = y \div n + IF (y + 1) % n = 0 THEN 1 ELSE 0
  OBVIOUS
<1>2. (y + 1) % 400 = 0 => (y + 1) % 100 = 0
  OBVIOUS
<1>3. (y + 1) % 100 = 0 => (y + 1) % 4 = 0
  OBVIOUS
<1>4. Start(y) \in Nat
  BY DEF Start
<1> QED
  BY <1>1, <1>2, <1>3, <1>4 DEF Start, IsLeap

\* Such years begin one after the other.
LEMMA StartGrows ==
  ASSUME NEW x \in Nat, NEW y \in Nat, x < y
  PROVE  Start(x + 1) <= Start(y)
<1>1. x + 1 <= y
  OBVIOUS
<1>2. (x + 1) \div 4 <= y \div 4 /\ (x + 1) \div 400 <= y \div 400
  BY <1>1
<1>3. y \div 100 - (x + 1) \div 100 <= y - (x + 1)
  BY <1>1
<1> QED
  BY <1>1, <1>2, <1>3 DEF Start

\* The year of an era, 400 years, from its day.
YearOf(doe) == (doe - doe \div 1460 + doe \div 36524 - doe \div 146096) \div 365
\* Every day of an era is in the year that is computed from it.
LEMMA YearOfEra ==
  ASSUME NEW d \in Nat, d <= 146096
  PROVE  /\ YearOf(d) \in Nat /\ YearOf(d) <= 399
         /\ Start(YearOf(d)) <= d /\ d < Start(YearOf(d) + 1)
<1>1. PICK c, e \in Nat : /\ d = 36524 * c + e /\ c <= 3 /\ e <= 36524
                          /\ e = 36524 => c = 3
  <2>1. CASE d = 146096
    BY <2>1, 146096 = 36524 * 3 + 36524, SMT
  <2>2. CASE d # 146096
    <3>1. /\ d \div 36524 \in Nat /\ d \div 36524 <= 3 /\ (d % 36524) \in Nat
          /\ (d % 36524) < 36524 /\ d = 36524 * (d \div 36524) + (d % 36524)
      BY <2>2, SMT
    <3> QED
      BY <3>1, SMT
  <2> QED
    BY <2>1, <2>2, SMT
<1>2. PICK q, f \in Nat : e = 1461 * q + f /\ q <= 24 /\ f <= 1460
  <2>1. /\ e \div 1461 \in Nat /\ e \div 1461 <= 24 /\ (e % 1461) \in Nat
        /\ (e % 1461) <= 1460 /\ e = 1461 * (e \div 1461) + (e % 1461)
    BY <1>1, SMT
  <2> QED
    BY <2>1, SMT
<1>3. PICK r, g \in Nat : f = 365 * r + g /\ r <= 3 /\ g <= 365 /\ (g = 365 => r = 3)
  <2>1. CASE f = 1460
    BY <2>1, 1460 = 365 * 3 + 365, SMT
  <2>2. CASE f # 1460
    <3>1. /\ f \div 365 \in Nat /\ f \div 365 <= 3 /\ (f % 365) \in Nat /\ (f % 365) < 365
          /\ f = 365 * (f \div 365) + (f % 365)
      BY <1>2, <2>2, SMT
    <3> QED
      BY <3>1, SMT
  <2> QED
    BY <2>1, <2>2, SMT
<1> DEFINE y == 100 * c + 4 * q + r
           long == IF 365 * r + 24 * c + q + g >= 1460 THEN 1 ELSE 0
<1>4. y \in Nat /\ y <= 399 /\ y \div 4 = 25 * c + q /\ y \div 100 = c /\ y \div 400 = 0
  <2>1. y = 4 * (25 * c + q) + r /\ y = 100 * c + (4 * q + r) /\ 4 * q + r <= 99 /\ y <= 399
    BY <1>1, <1>2, <1>3, SMT
  <2>2. \A a, b \in Nat : b <= 3 => (4 * a + b) \div 4 = a
    BY SMT
  <2>3. \A a, b \in Nat : b <= 99 => (100 * a + b) \div 100 = a
    BY SMT
  <2> QED
    BY <1>3, <2>1, <2>2, <2>3, SMT
<1>5. d = 365 * y + 25 * c + q - c + g
  BY <1>1, <1>2, <1>3, SMT
<1>6. d = Start(y) + g
  BY <1>4, <1>5, SMT DEF Start
<1>7. d < Start(y + 1)
  <2>1. (y + 1) \div 4 = 25 * c + q + (IF r = 3 THEN 1 ELSE 0)
    BY <1>1, <1>2, <1>3, y + 1 = 4 * (25 * c + q) + (r + 1), SMT
  <2>2. (y + 1) \div 100 = c + (IF r = 3 /\ q = 24 THEN 1 ELSE 0)
    BY <1>1, <1>2, <1>3, y + 1 = 100 * c + (4 * q + r + 1), SMT
  <2>3. (y + 1) \div 400 = IF r = 3 /\ q = 24 /\ c = 3 THEN 1 ELSE 0
    BY <1>1, <1>2, <1>3, SMT
  <2>4. Start(y + 1) = 365 * y + 365 + (y + 1) \div 4 - (y + 1) \div 100 + (y + 1) \div 400
    BY <1>4, SMT DEF Start
  <2> QED
    BY <1>1, <1>2, <1>3, <1>5, <2>1, <2>2, <2>3, <2>4, SMT
<1>8. d \div 36524 - d \div 146096 = c
  BY <1>1, SMT
<1>9. d \div 1460 = 25 * c + q + long
  <2>1. d = 1460 * (25 * c + q) + (365 * r + 24 * c + q + g)
    BY <1>1, <1>2, <1>3, SMT
  <2>2. 365 * r + 24 * c + q + g < 2920
    BY <1>1, <1>2, <1>3, SMT
  <2>3. \A a, b \in Nat : b < 2920 => (1460 * a + b) \div 1460 = a + IF b >= 1460 THEN 1 ELSE 0
    BY SMT
  <2> QED
    BY <2>1, <2>2, <2>3, SMT
<1>10. YearOf(d) = y
  <2>1. d - d \div 1460 + d \div 36524 - d \div 146096 = 365 * y + (g - long)
    BY <1>5, <1>8, <1>9, SMT
  <2>2. g - long \in Nat /\ g - long <= 364
    BY <1>1, <1>2, <1>3, SMT
  <2>3. \A a, b \in Nat : b <= 364 => (365 * a + b) \div 365 = a
    BY SMT
  <2> QED
    BY <1>4, <2>1, <2>2, <2>3, SMT DEF YearOf
<1>11. Start(y) \in Nat
  BY <1>4, StartStep, SMT
<1> HIDE DEF y
<1> QED
  BY <1>4, <1>6, <1>7, <1>10, <1>11, SMT

\* The date of a day of a year that begins in March.
DateOf(y, doy) ==
  LET mp == (5 * doy + 2) \div 153
      m == IF mp < 10 THEN mp + 3 ELSE mp - 9
  IN <<IF m <= 2 THEN y + 1 ELSE y, m, doy - (153 * mp + 2) \div 5 + 1>>

\* The nth day of 1970 and after is day doy of year y.
FallsOn(n, y, doy) ==
  /\ n + 719468 = Start(y) + doy
  /\ n + 719468 < Start(y + 1)
  /\ CivilFromDays(n) = DateOf(y, doy)

\* The code's eras and years are years from their first of March.
LEMMA CivilIsDateOf ==
  ASSUME NEW n \in Nat
  PROVE  \E y, doy \in Nat : FallsOn(n, y, doy)
<1> DEFINE z == n + 719468
           era == z \div 146097
           doe == z - 146097 * era
           yoe == YearOf(doe)
           y == yoe + 400 * era
           doy == doe - (365 * yoe + yoe \div 4 - yoe \div 100)
<1>1. era \in Nat /\ doe \in Nat /\ doe <= 146096 /\ z = 146097 * era + doe
  BY SMT
<1>2. /\ yoe \in Nat /\ yoe <= 399
      /\ Start(yoe) <= doe /\ doe < Start(yoe + 1)
  BY <1>1, YearOfEra, SMT
<1>3. CivilFromDays(n) = DateOf(y, doy)
  BY SMT DEF CivilFromDays, DateOf, YearOf
<1> HIDE DEF era, doe, yoe
<1>4. \A x \in Nat : Start(x + 400 * era) = Start(x) + 146097 * era
  <2>1. \A x \in Nat : /\ (x + 400 * era) \div 4 = x \div 4 + 100 * era
                       /\ (x + 400 * era) \div 100 = x \div 100 + 4 * era
                       /\ (x + 400 * era) \div 400 = x \div 400 + era
    BY <1>1, SMT
  <2> QED
    BY <1>1, <2>1, SMT DEF Start
<1>5. Start(yoe) \in Nat /\ Start(yoe) = 365 * yoe + yoe \div 4 - yoe \div 100
  BY <1>2, StartStep, yoe \div 400 = 0, SMT DEF Start
<1>6. y \in Nat /\ y + 1 = yoe + 1 + 400 * era
  BY <1>1, <1>2, SMT
<1>7. Start(y) = Start(yoe) + 146097 * era /\ Start(y + 1) = Start(yoe + 1) + 146097 * era
  BY <1>2, <1>4, <1>6, SMT
<1>8. doy \in Nat /\ doe = Start(yoe) + doy
  BY <1>1, <1>2, <1>5, SMT
<1>9. Start(yoe + 1) \in Nat
  BY <1>2, StartStep, SMT
<1>10. z = Start(y) + doy /\ z < Start(y + 1)
  BY <1>1, <1>2, <1>5, <1>7, <1>8, <1>9, SMT
<1> HIDE DEF y, doy
<1> QED
  BY <1>3, <1>6, <1>8, <1>10, SMT DEF FallsOn

\* The months of a year from March, by their days.
IsDated(y, doy) ==
  /\ doy <= 30 => DateOf(y, doy) = <<y, 3, doy + 1>>
  /\ 31 <= doy /\ doy <= 60 => DateOf(y, doy) = <<y, 4, doy - 30>>
  /\ 61 <= doy /\ doy <= 91 => DateOf(y, doy) = <<y, 5, doy - 60>>
  /\ 92 <= doy /\ doy <= 121 => DateOf(y, doy) = <<y, 6, doy - 91>>
  /\ 122 <= doy /\ doy <= 152 => DateOf(y, doy) = <<y, 7, doy - 121>>
  /\ 153 <= doy /\ doy <= 183 => DateOf(y, doy) = <<y, 8, doy - 152>>
  /\ 184 <= doy /\ doy <= 213 => DateOf(y, doy) = <<y, 9, doy - 183>>
  /\ 214 <= doy /\ doy <= 244 => DateOf(y, doy) = <<y, 10, doy - 213>>
  /\ 245 <= doy /\ doy <= 274 => DateOf(y, doy) = <<y, 11, doy - 244>>
  /\ 275 <= doy /\ doy <= 305 => DateOf(y, doy) = <<y, 12, doy - 274>>
  /\ 306 <= doy /\ doy <= 336 => DateOf(y, doy) = <<y + 1, 1, doy - 305>>
  /\ 337 <= doy /\ doy <= 365 => DateOf(y, doy) = <<y + 1, 2, doy - 336>>

\* The code's months, by the days that begin them.
LEMMA Months ==
  ASSUME NEW y \in Nat, NEW doy \in Nat
  PROVE  IsDated(y, doy)
<1> DEFINE mp == (5 * doy + 2) \div 153
           m == IF mp < 10 THEN mp + 3 ELSE mp - 9
<1>0. DateOf(y, doy) = <<IF m <= 2 THEN y + 1 ELSE y, m, doy - (153 * mp + 2) \div 5 + 1>>
  BY Zenon DEF DateOf
<1>1. ASSUME 0 <= doy, doy <= 30 PROVE DateOf(y, doy) = <<y, 3, doy + 1>>
  <2>1. mp = 0 /\ (153 * 0 + 2) \div 5 = 0
    BY <1>1, SMT
  <2> HIDE DEF mp
  <2> QED
    BY <1>0, <2>1, SMT
<1>2. ASSUME 31 <= doy, doy <= 60 PROVE DateOf(y, doy) = <<y, 4, doy - 30>>
  <2>1. mp = 1 /\ (153 * 1 + 2) \div 5 = 31
    BY <1>2, SMT
  <2> HIDE DEF mp
  <2> QED
    BY <1>0, <2>1, SMT
<1>3. ASSUME 61 <= doy, doy <= 91 PROVE DateOf(y, doy) = <<y, 5, doy - 60>>
  <2>1. mp = 2 /\ (153 * 2 + 2) \div 5 = 61
    BY <1>3, SMT
  <2> HIDE DEF mp
  <2> QED
    BY <1>0, <2>1, SMT
<1>4. ASSUME 92 <= doy, doy <= 121 PROVE DateOf(y, doy) = <<y, 6, doy - 91>>
  <2>1. mp = 3 /\ (153 * 3 + 2) \div 5 = 92
    BY <1>4, SMT
  <2> HIDE DEF mp
  <2> QED
    BY <1>0, <2>1, SMT
<1>5. ASSUME 122 <= doy, doy <= 152 PROVE DateOf(y, doy) = <<y, 7, doy - 121>>
  <2>1. mp = 4 /\ (153 * 4 + 2) \div 5 = 122
    BY <1>5, SMT
  <2> HIDE DEF mp
  <2> QED
    BY <1>0, <2>1, SMT
<1>6. ASSUME 153 <= doy, doy <= 183 PROVE DateOf(y, doy) = <<y, 8, doy - 152>>
  <2>1. mp = 5 /\ (153 * 5 + 2) \div 5 = 153
    BY <1>6, SMT
  <2> HIDE DEF mp
  <2> QED
    BY <1>0, <2>1, SMT
<1>7. ASSUME 184 <= doy, doy <= 213 PROVE DateOf(y, doy) = <<y, 9, doy - 183>>
  <2>1. mp = 6 /\ (153 * 6 + 2) \div 5 = 184
    BY <1>7, SMT
  <2> HIDE DEF mp
  <2> QED
    BY <1>0, <2>1, SMT
<1>8. ASSUME 214 <= doy, doy <= 244 PROVE DateOf(y, doy) = <<y, 10, doy - 213>>
  <2>1. mp = 7 /\ (153 * 7 + 2) \div 5 = 214
    BY <1>8, SMT
  <2> HIDE DEF mp
  <2> QED
    BY <1>0, <2>1, SMT
<1>9. ASSUME 245 <= doy, doy <= 274 PROVE DateOf(y, doy) = <<y, 11, doy - 244>>
  <2>1. mp = 8 /\ (153 * 8 + 2) \div 5 = 245
    BY <1>9, SMT
  <2> HIDE DEF mp
  <2> QED
    BY <1>0, <2>1, SMT
<1>10. ASSUME 275 <= doy, doy <= 305 PROVE DateOf(y, doy) = <<y, 12, doy - 274>>
  <2>1. mp = 9 /\ (153 * 9 + 2) \div 5 = 275
    BY <1>10, SMT
  <2> HIDE DEF mp
  <2> QED
    BY <1>0, <2>1, SMT
<1>11. ASSUME 306 <= doy, doy <= 336 PROVE DateOf(y, doy) = <<y + 1, 1, doy - 305>>
  <2>1. mp = 10 /\ (153 * 10 + 2) \div 5 = 306
    BY <1>11, SMT
  <2> HIDE DEF mp
  <2> QED
    BY <1>0, <2>1, SMT
<1>12. ASSUME 337 <= doy, doy <= 365 PROVE DateOf(y, doy) = <<y + 1, 2, doy - 336>>
  <2>1. mp = 11 /\ (153 * 11 + 2) \div 5 = 337
    BY <1>12, SMT
  <2> HIDE DEF mp
  <2> QED
    BY <1>0, <2>1, SMT
<1> QED
  BY <1>1, <1>2, <1>3, <1>4, <1>5, <1>6, <1>7, <1>8, <1>9, <1>10, <1>11, <1>12, SMT DEF IsDated

\* The day after, in the same year from March and at its end.
LEMMA DateAfter ==
  ASSUME NEW y \in Nat, NEW doy \in Nat, Start(y) + doy < Start(y + 1)
  PROVE  NextDate(DateOf(y, doy)) =
           IF Start(y) + doy + 1 < Start(y + 1) THEN DateOf(y, doy + 1) ELSE DateOf(y + 1, 0)
<1>1. /\ Start(y) \in Nat
      /\ IsLeap(y + 1) => Start(y + 1) = Start(y) + 366
      /\ ~IsLeap(y + 1) => Start(y + 1) = Start(y) + 365
  BY StartStep, SMT
<1>2. doy <= 365 /\ (doy = 365 => IsLeap(y + 1))
  BY <1>1, SMT
<1>3. Start(y) + doy + 1 < Start(y + 1) <=> doy < IF IsLeap(y + 1) THEN 365 ELSE 364
  BY <1>1, SMT
<1>4. DateOf(y + 1, 0) = <<y + 1, 3, 1>>
  BY Months, y + 1 \in Nat, SMT DEF IsDated
<1>5. IsDated(y, doy) /\ IsDated(y, doy + 1)
  BY Months, doy + 1 \in Nat, SMT
<1>6. CASE doy <= 152
  BY <1>2, <1>3, <1>5, <1>6, SMT DEF IsDated, NextDate, DaysIn
<1>7. CASE 153 <= doy /\ doy <= 305
  BY <1>2, <1>3, <1>5, <1>7, SMT DEF IsDated, NextDate, DaysIn
<1>8. CASE 306 <= doy
  BY <1>2, <1>3, <1>4, <1>5, <1>8, SMT DEF IsDated, NextDate, DaysIn
<1> QED
  BY <1>6, <1>7, <1>8, SMT

\* The code's date of each day is the calendar's day after that of the day before.
LEMMA CalendarWalk ==
  ASSUME NEW n \in Nat
  PROVE  CivilFromDays(n + 1) = NextDate(CivilFromDays(n))
<1>1. PICK y, doy \in Nat : FallsOn(n, y, doy)
  BY CivilIsDateOf, Zenon
<1>2. PICK x, dox \in Nat : FallsOn(n + 1, x, dox)
  BY n + 1 \in Nat, CivilIsDateOf, Zenon
<1> USE DEF FallsOn
<1>3. Start(y) \in Nat /\ Start(x) \in Nat /\ Start(y + 1) \in Nat /\ Start(x + 1) \in Nat
      /\ Start(y + 1 + 1) \in Nat /\ Start(y + 1) < Start(y + 1 + 1)
  BY StartStep, y + 1 \in Nat, x + 1 \in Nat, y + 1 + 1 \in Nat, SMT
<1>4. CASE Start(y) + doy + 1 < Start(y + 1)
  <2>1. x = y
    BY <1>1, <1>2, <1>3, <1>4, StartGrows, SMT
  <2> QED
    BY <1>1, <1>2, <1>3, <1>4, <2>1, DateAfter, SMT
<1>5. CASE ~(Start(y) + doy + 1 < Start(y + 1))
  <2>1. x = y + 1
    <3>1. n + 1 + 719468 = Start(y + 1)
      BY <1>1, <1>3, <1>5, SMT
    <3>2. x < y + 1 => FALSE
      BY <1>1, <1>2, <1>3, <3>1, StartGrows, y + 1 \in Nat, SMT
    <3>3. y + 1 < x => FALSE
      <4>1. y + 1 < x => Start(y + 1 + 1) <= Start(x)
        BY StartGrows, y + 1 \in Nat, SMT
      <4> QED
        BY <1>2, <1>3, <3>1, <4>1, SMT
    <3> QED
      BY <3>2, <3>3, SMT
  <2>2. dox = 0
    BY <1>1, <1>2, <1>3, <1>5, <2>1, SMT
  <2> QED
    BY <1>1, <1>2, <1>3, <1>5, <2>1, <2>2, DateAfter, SMT
<1> QED
  BY <1>4, <1>5, SMT

-----------------------------------------------------------------------------
(* The conversions run: what is read is what was written. *)

\* A record is one that Chromium writes, and read by the three functions of idb.rs.
KeysInv ==
  format = "key" =>
    /\ written \in Records
    /\ read \in {<<>>, <<DatabaseName(written.key, written.value),
                         StoreName(written.key, written.value), IsObjectStoreData(written.key)>>}

\* Every step keeps the invariant of the keys.
LEMMA KeysStep == KeysInv /\ [FormatsNext]_formatsVars => KeysInv'
<1> SUFFICES ASSUME KeysInv, [FormatsNext]_formatsVars PROVE KeysInv'
  OBVIOUS
<1>1. CASE ReadKey
  BY <1>1 DEF ReadKey, KeysInv
<1>2. CASE ReadTable \/ ReadRecordValue \/ ReadContent \/ NextDay
  <2>1. format # "key" /\ format' = format
    BY <1>2 DEF ReadTable, ReadRecordValue, ReadContent, NextDay
  <2> QED
    BY <2>1 DEF KeysInv
<1>3. CASE UNCHANGED formatsVars
  BY <1>3 DEF formatsVars, KeysInv
<1> QED
  BY <1>1, <1>2, <1>3 DEF FormatsNext

\* Whatever the widths of its ids, the length of its name and the bytes that follow,
\* each record is taken for what it is and for nothing else (idb.rs
\* parse_database_name, parse_object_store_name, is_object_store_data).
THEOREM KeysRead == FormatsSpec => []KeysExact
<1>1. FormatsInit => KeysInv
  BY DEF FormatsInit, KeysInv
<1>2. KeysInv => KeysExact
  <2> SUFFICES ASSUME KeysInv, format = "key", read # <<>>
               PROVE  read = <<written.database, written.store, written.data>>
    BY DEF KeysExact
  <2>1. IsRead(written)
    BY BytesAssumption, FormatsAssumption, RecordsRead DEF KeysInv
  <2> QED
    BY <2>1 DEF KeysInv, IsRead
<1> QED
  BY <1>1, <1>2, KeysStep, PTL DEF FormatsSpec

\* The date counted by the calendar is the code's of the same day.
DatesInv ==
  format = "date" =>
    \/ read = <<>> /\ written = CivilFromDays(0)
    \/ \E day \in Nat : /\ read = <<day, Shown(day)>>
                        /\ written = CivilFromDays(day)

\* Time begins in 1970.
LEMMA FirstDay == CivilFromDays(0) = <<1970, 1, 1>>
BY SMT DEF CivilFromDays

\* Every step keeps the invariant of the dates: the next day is the day after.
LEMMA DatesStep == DatesInv /\ [FormatsNext]_formatsVars => DatesInv'
<1> SUFFICES ASSUME DatesInv, [FormatsNext]_formatsVars PROVE DatesInv'
  OBVIOUS
<1>1. CASE NextDay
  <2>1. CASE read = <<>>
    <3>1. read' = <<0, Shown(0)>> /\ written' = written
      BY <1>1, <2>1, Zenon DEF NextDay
    <3>2. written = CivilFromDays(0)
      BY <1>1, <2>1, Zenon DEF DatesInv, NextDay
    <3> QED
      BY <3>1, <3>2, 0 \in Nat, Zenon DEF DatesInv
  <2>2. CASE read # <<>>
    <3>1. PICK day \in Nat : /\ read = <<day, Shown(day)>>
                             /\ written = CivilFromDays(day)
      BY <1>1, <2>2, Zenon DEF DatesInv, NextDay
    <3>2. read[1] = day /\ day + 1 \in Nat
      BY <3>1
    <3>3. /\ written' = NextDate(written)
          /\ read' = <<read[1] + 1, Shown(read[1] + 1)>>
      BY <1>1, <2>2, Zenon DEF NextDay
    <3>4. /\ written' = CivilFromDays(day + 1)
          /\ read' = <<day + 1, Shown(day + 1)>>
      BY <3>1, <3>2, <3>3, CalendarWalk, Zenon
    <3> QED
      BY <3>2, <3>4, Zenon DEF DatesInv
  <2> QED
    BY <2>1, <2>2, Zenon
<1>2. CASE ReadKey \/ ReadTable \/ ReadRecordValue \/ ReadContent
  <2>1. format # "date" /\ format' = format
    BY <1>2 DEF ReadKey, ReadTable, ReadRecordValue, ReadContent
  <2> QED
    BY <2>1, Zenon DEF DatesInv
<1>3. CASE UNCHANGED formatsVars
  BY <1>3, Zenon DEF formatsVars, DatesInv
<1> QED
  BY <1>1, <1>2, <1>3, Zenon DEF FormatsNext

\* The date and the time of day, by their numbers.
OfDay(e, day, second) ==
  /\ SubSeq(e, 1, 3) = CivilFromDays(day)
  /\ 3600 * e[4] + 60 * e[5] + e[6] = second

\* The formatted date of a day after the first has the day's date and its second.
LEMMA SixNumbers ==
  ASSUME NEW day \in Nat, day # 0, NEW second \in Nat, NEW milli
  PROVE  OfDay(FormatEpoch(day, second, milli), day, second)
<1> DEFINE date == CivilFromDays(day)
           hour == second \div 3600
           minute == (second % 3600) \div 60
           rest == second % 60
           time == <<hour, minute, rest>>
           e == date \o time
<1>1. /\ hour \in Nat /\ minute \in Nat /\ rest \in Nat
      /\ 3600 * hour + 60 * minute + rest = second
  <2> DEFINE left == second % 3600
  <2>1. hour \in Nat /\ left \in Nat /\ second = 3600 * hour + left /\ left < 3600
    BY SMT
  <2>2. rest = left % 60
    <3>1. second = 60 * (60 * hour) + left
      BY <2>1, SMT
    <3> HIDE DEF hour, left
    <3> QED
      BY <2>1, <3>1, SMT
  <2> HIDE DEF hour, left
  <2>3. left \div 60 \in Nat /\ left = 60 * (left \div 60) + (left % 60) /\ (left % 60) \in Nat
    BY <2>1, SMT
  <2> QED
    BY <2>1, <2>2, <2>3, SMT DEF left
<1>2. PICK y, m, d \in Int : date = <<y, m, d>>
  <2>1. PICK x, doy \in Nat : date = DateOf(x, doy)
    BY CivilIsDateOf, SMT DEF FallsOn
  <2> DEFINE mp == (5 * doy + 2) \div 153
             month == IF mp < 10 THEN mp + 3 ELSE mp - 9
             year == IF month <= 2 THEN x + 1 ELSE x
             dom == doy - (153 * mp + 2) \div 5 + 1
  <2>2. DateOf(x, doy) = <<year, month, dom>>
    BY Zenon DEF DateOf
  <2>3. mp \in Nat
    BY SMT
  <2> HIDE DEF mp
  <2>4. (153 * mp + 2) \div 5 \in Nat
    BY <2>3, SMT
  <2>5. year \in Int /\ month \in Int /\ dom \in Int
    BY <2>3, <2>4, SMT
  <2> HIDE DEF year, month, dom, date
  <2> QED
    BY <2>1, <2>2, <2>5, Zenon
<1>3. FormatEpoch(day, second, milli) = e
  <2>1. ~(day < 0) /\ ~(day = 0)
    BY SMT
  <2> QED
    BY <2>1, SMT DEF FormatEpoch
<1> HIDE DEF date, hour, minute, rest
<1>4. time \in Seq(Int) /\ Len(time) = 3 /\ time[1] = hour /\ time[2] = minute /\ time[3] = rest
  BY <1>1
<1>5. date \in Seq(Int) /\ Len(date) = 3
  BY <1>2
<1> HIDE DEF time
<1>6. /\ e \in Seq(Int) /\ Len(e) = 6
      /\ \A i \in 1..6 : e[i] = IF i <= 3 THEN date[i] ELSE time[i - 3]
  <2>1. /\ e \in Seq(Int) /\ Len(e) = Len(date) + Len(time)
        /\ \A i \in 1..(Len(date) + Len(time)) :
             e[i] = IF i <= Len(date) THEN date[i] ELSE time[i - Len(date)]
    BY <1>4, <1>5, ConcatProperties
  <2>2. Len(date) = 3 /\ Len(date) + Len(time) = 6
    BY <1>4, <1>5
  <2> HIDE DEF e
  <2> QED
    BY <2>1, <2>2
<1> HIDE DEF e
<1>7. SubSeq(e, 1, 3) = date
  <2> DEFINE part == SubSeq(e, 1, 3)
  <2>1. part \in Seq(Int) /\ Len(part) = 3 /\ \A i \in 1..3 : part[i] = e[i]
    <3>1. e \in Seq(Int) /\ Len(e) = 6
      BY <1>6
    <3>2. ASSUME NEW i \in 1..3 PROVE e[i] \in Int
      <4>1. i \in 1..Len(e)
        BY <3>1
      <4> QED
        BY <3>1, <4>1, ElementOfSeq, Zenon
    <3> QED
      BY <3>1, <3>2
  <2> HIDE DEF part
  <2>2. \A i \in 1..Len(part) : part[i] = date[i]
    BY <1>6, <2>1
  <2> QED
    BY <1>5, <2>1, <2>2, SeqEqual DEF part
<1>8. e[4] = hour /\ e[5] = minute /\ e[6] = rest
  BY <1>4, <1>6
<1> HIDE DEF e
<1> QED
  BY <1>1, <1>3, <1>7, <1>8, SMT DEF OfDay, date

\* After the epoch and without end, the date and the time of day that are shown are
\* those of the second they were computed from; the epoch itself is shown as nothing
\* (util.rs format_epoch_ms).
THEOREM DatesRead == FormatsSpec => []DatesExact
<1>1. FormatsInit => DatesInv
  BY FirstDay, SMT DEF FormatsInit, DatesInv
<1>2. DatesInv => DatesExact
  <2> SUFFICES ASSUME DatesInv, format = "date", read # <<>>
               PROVE  IF read[1] = 0 THEN read[2] = <<>>
                      ELSE /\ SubSeq(read[2], 1, 3) = written
                           /\ 3600 * read[2][4] + 60 * read[2][5] + read[2][6] = SecondOn(read[1])
    BY SMT DEF DatesExact
  <2>1. PICK day \in Nat : /\ read = <<day, Shown(day)>>
                           /\ written = CivilFromDays(day)
    BY Zenon DEF DatesInv
  <2>2. read[1] = day /\ read[2] = Shown(day)
    BY <2>1, Zenon
  <2>3. SecondOn(day) \in Nat
    BY SMT DEF SecondOn
  <2>4. CASE day = 0
    <3>1. SecondOn(0) = 0 /\ 0 % 1000 = 0
      BY SMT DEF SecondOn
    <3>2. Shown(0) = <<>>
      BY <3>1, SMT DEF Shown, FormatEpoch
    <3> QED
      BY <2>2, <2>4, <3>2
  <2>5. CASE day # 0
    <3> DEFINE milli == day % 1000
    <3>1. Shown(day) = FormatEpoch(day, SecondOn(day), milli)
      BY SMT DEF Shown
    <3>2. milli \in Nat
      BY SMT
    <3> HIDE DEF milli
    <3>3. OfDay(Shown(day), day, SecondOn(day))
      BY <2>3, <2>5, <3>1, <3>2, SixNumbers, Zenon
    <3> QED
      BY <2>1, <2>2, <2>5, <3>3, SMT DEF OfDay
  <2> QED
    BY <2>4, <2>5
<1> QED
  BY <1>1, <1>2, DatesStep, PTL DEF FormatsSpec
=============================================================================
