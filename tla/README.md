# Verification of teams-app-reader-mcp

TLA+ modules, TLC runs and TLAPS proofs for the Rust workspace under `crates/`: an MCP server that
reads the conversations the Teams desktop application keeps in its local IndexedDB. Every
definition that stands for code is listed with its source lines in `PROJECT.json` (`map`).

## The system

| component | state | operations | interacts with | what is hard, and what must hold |
|---|---|---|---|---|
| `TeamsStore` (`teams.rs`) | `Mutex<Option<Cache>>`, TTL 15 s, pinned `db_path` | `open`, `with_cache`, `refresh`, `build_cache` | called by the tool handlers from tokio's blocking pool, several threads at once; reads the directory Teams writes | answers are boundedly stale and never go back; rebuilds are not duplicated; a failed or panicking build leaves neither a held lock nor a served stale cache |
| directory scan (`leveldb/`) | none between calls | `read_dir`, `scan_table`, `scan_log` | reads LevelDB's files without its lock while Teams writes, flushes, merges and deletes them | a scan returns everything that was there, as of one moment |
| formats (`sstable.rs`, `idb.rs`, `v8.rs`, `varint.rs`) | none | blocks, key prefixes, metadata names, values | called by `read_dir` and `build_cache` | what Chromium encodes comes back, at every width and length; a file cut short gives nothing foreign |
| building the cache (`teams.rs`) | the maps under construction | three passes over a `HashMap` | the two above | the result does not depend on the iteration order |
| text (`util.rs`, `parse_message`) | none | HTML to text, reply quotes, images, dates | called by `parse_message` and the tools | nothing of a quoted message in the message's own text; the calendar's dates |
| queries (`teams.rs`) | none | `list_chats`, `read_messages`, `search`, `resolve_conversation` | run under the cache's lock; clients page with `before_ms` | paging is complete, ordered and stays in one chat although the cache changes |
| image fetch (`media.rs`) | one temporary file name for the process | copy `Cookies`, read, decrypt, request | the browser writes `Cookies`; several fetches at once | the cookies read are those of the moment, whatever earlier or concurrent fetches left |
| location (`location.rs`) | none | newest profile, newest database, cookies | modification times, which browsers change meanwhile | what is chosen is in use; database and cookies are of one profile |
| clipboard (`clipboard.rs`) | on Linux a `OnceLock<Mutex<Clipboard>>` | `copy_html` | several tool calls at once, other programs | one instance lives for the process, what was copied stays |
| tool handlers (`teams-mcp-server`) | `Arc<TeamsStore>` | five tools, each one `spawn_blocking` | the store, the fetch, the clipboard | errors and panics become MCP errors |
| transports (`teams-mcp-http`, `teams-mcp-stdio`) | one `TeamsServer` per HTTP session | bearer check, sessions | rmcp library | sessions do not share a store |

`PROJECT.json` lists every component with its status and every hazard at its line.

## Modules

| module | models |
|---|---|
| `SnapshotView` | abstract: there is one current view of the Teams database, it moves forward, answers come from it |
| `TeamsStore`, `MCTeamsStore` | `with_cache`, `refresh`, the mutex, poisoning, the TTL, the clock, any number of threads |
| `LevelDbFiles` | the writer's side, external: what Chromium's LevelDB does to the files |
| `LevelDbScan` | `read_dir` against that writer |
| `WalReader`, `MCWalReader` | `scan_log` and `scan_batch` on a log that is being written |
| `Bytes` | bytes, fixed and variable-length integers, UTF-16, with their writers |
| `IdbKeys` | `idb.rs`: key prefixes, database and object store names |
| `SsTable` | `sstable.rs`: footer, index, blocks, entries, and a table builder |
| `BlinkValue` | `v8.rs`: where the payload begins, and every value tag but one |
| `MessageBody` | reply quotes, images, `html_to_text`, entities |
| `Calendar` | `format_epoch_ms` beside a calendar that counts day by day |
| `Formats`, `MCFormats` | the five above as what is written and what is read from it |
| `BuildCache`, `MCBuildCache` | `build_cache` from the map of records to the cache |
| `Queries`, `MCQueries` | the three queries, `resolve_conversation`, a paging client |
| `Location`, `MCLocation` | `default_db_path`, `default_cookies_path`, `open`'s check, sessions, browsers |
| `CookieFetch` | `fetch_ams_image` and `load_asyncgw_cookies` by several threads |
| `Clipboard` | `copy_html` and `with_clipboard` on Linux by several threads |
| `Slices` | what the library's `filter` and `sort_by_key` do to a sequence, for `BuildCache`, `Queries` and `WalReader` |
| `SequenceLemmas` | lemmas about numbers and sequences for the proofs |
| `TeamsStoreProofs`, `LevelDbScanProofs`, `BuildCacheProofs`, `QueriesProofs`, `LocationProofs`, `ToolProofs`, `WalReaderProofs` | theorems |

`LevelDbScan` extends `LevelDbFiles`; `Formats` extends the five conversions; `TeamsStore`
instantiates `SnapshotView` with a refinement mapping. The others meet at abstractions of each
other: `TeamsStore` takes the disk as a count of writes read in one step, which `LevelDbScan`
(`ConsistentCut`) justifies for scans during which no file is removed; `LevelDbScan` takes a log
as the writes it holds (`TailIsExact`) and a table as its entries (`TablesExact`); `BuildCache`
takes the map that `LevelDbScan` yields, with its keys and values decoded (`KeysExact`,
`ValuesExact`); `Queries` takes the sorted cache that `BuildCache` produces.

Definitions named in comments as "a wrong ..." are variants of a mapped definition with a plausible
bug; `PROJECT.json` (`mutants`) pairs each with the property that finds it. History variables,
marked so where they are declared, are only written and are not part of the code.

### TeamsStore

A cache is the number of the last write its build read (`snap`) and `built_at`. A call takes the
steps Call, Lock (the mutex and the staleness check), then Scan and Finish if the cache is stale,
and Serve; the mutex is held from Lock to Serve. BuildFails is `?` on `read_dir`: the guard is
dropped, the old cache stays. `refresh` is Refresh, Scan, RefreshBuilt (where `build_cache` stamps
`built_at`) and RefreshStore: only the last one takes the mutex. In a build with overflow checks
(`OverflowChecks`, Cargo's development profile) the arithmetic of the parsers and of
`resolve_conversation` may panic: unwinding drops the guard and poisons the mutex, and later
`lock().unwrap()` calls panic in turn. The server's release profile has no such checks, so that
`StoreServer` has `OverflowChecks = FALSE`.

`BuildBound` is an assumption, not a guarantee of the code: the staleness bound is relative to the
longest build. The server never calls `refresh`; `Refreshers` is empty for it and the public
method is covered by `StoreLibrary`. Two refreshes that overlap may store the older cache last;
`RefreshIsSeen` therefore holds, and is stated and proved, for one refreshing thread.

### LevelDbFiles and LevelDbScan

The writer is an assumption about Chromium's LevelDB: writes go to the active log, a full log is
frozen and flushed to a table before the next switch, tables are merged keeping the newest version
of each key, a table is unreadable until whole, inputs are removed after the output is whole. File
contents are sets of write numbers. The scan lists (a listing shows any subset of what appeared or
vanished while it ran), reads tables in order of name, then logs, and skips what it cannot read.
The map is a set of table entries (their keys carry the sequence trailer and never collide) and
one slot per user key for the logs.

`gone` records the writes held by files that were removed since the scan began. The code skips a
file that vanished between the listing and its turn without a word, so its records are missing
from that one scan; `Complete` excepts exactly these, `ConsistentCut` speaks of scans during which
nothing was removed. With two log switches during one listing a scan could show a later log
without the one before it; the writer of this model does not do that, because it flushes a frozen
log, and removes it, before it switches again.

### WalReader

The log is a sequence of cells, each record a header and data; the writer (external) appends
physical records, filling a block's tail with zeros when no header fits there (`Left`, `Pad`).
ReadFile takes any prefix, since a file that is only appended to can be read up to any byte.
NextBlock, Full, First, Middle and LastPart are the branches of `scan_log`'s loop. Record types and
tags that such a log does not contain are left out, and so is a writer that died within a record and
goes on in the same file, whose torn record the code, which does not look at checksums, would
misread.

### Formats

A behaviour writes one thing (a record key, a table file, a value, a message's content) and the code
reads it in one action: `ReadKey`, `ReadTable` (any prefix of the file, since it may still be being
written), `ReadRecordValue`, `ReadContent`. `NextDay` walks the calendar day by day beside
`format_epoch_ms`. What is written comes from an encoder beside each decoder (Chromium's, V8's and
LevelDB's formats, external), so that each property says that reading undoes writing. Some values
are taken as the decoders answer them, so that of these `ValuesExact` says nothing: a lone surrogate
becomes U+FFFD, a number as a property's name reads as its digits, and a reference to an earlier
object and a double that JSON does not have (infinity, not a number) become null, as `undefined`
does. What the property still says of them is that the rest of the value is read as it was written.
`format_epoch_ms` shows nothing for times that are not after the epoch; `NextDay` begins at the
epoch itself. A message is a sequence of pieces (own text, an entity, a tag, an image, a quote, a
reply's quote); its symbols are words, whole tags, and the marks that begin and end an entity. A
message without a tag of its own is kept as it stands, its entities undecoded; `Reading` says the
same.

Left out: tag `S` of values (UTF-8 strings, which V8 no longer writes), doubles as property names,
image dimensions, numeric entities and all but three of the named ones. Snappy is a stream of one
literal. Contents with a quote within a quote, or with an ampersand that begins no entity, are not
among the inputs: the code cuts the first at the inner closing tag and swallows up to eleven
characters after the second (both listed as hazards). A table is read without its magic number
being checked: a value whose bytes look like a footer at the end of an unfinished file could be
taken for one; the values in the run do not.

### BuildCache

CollectNames iterates the HashMap in an arbitrary order, the second pass in the same order.
Database, Cells, FoundIn and MessageCells are the name resolution; Collected, SenderNames,
ProfileName and TopicOf are the second pass; Finish names reactions and sorts. Records have the key
prefix and the item that `idb.rs` tells them apart by, bodies the fields the code looks at. `None`
is a field that is missing, and an empty text only where the code drops empty ones
(`conversationId`, `imDisplayName`, `threadProperties.topic`); an empty `displayName`, `longTitle`
or `shortTitle` is a text like any other, which replaces a sender's name, or hides the titles after
it and the id. The exactness properties are stated for a `Tidy` directory: one database per manager
and one version of each record and message. With several accounts the first database met is used
(the run contains such a directory, no property speaks of it), and old versions of a record are
collected beside new ones (`NewestWins`).

### Queries

Arrive is a rebuild that brings one entry more, new or late. An entry is one version of a message:
`collect_messages` pushes the messages of every version of a record without looking for their ids,
so that two entries may be versions of one message, at one time or at two. Nothing in this module
tells that case from two messages, and the properties are about entries: `PagesJoinUp` says that no
entry is received twice, and a message of which the cache holds two versions is. Rebuilds only add;
that a version vanishes, because LevelDB merged it away or a scan met a removed file, is left out.
Page is a client that asks for the page before the oldest message it has until a page is empty. The topic
match is the constant `Matches`. Where the code's order depends on the HashMap, the operators give
the set of answers. `before_ms` is exclusive, so messages that share the time of a page's first
message and did not fit on that page are never received: `PagingMissesOnlyTies` says that these are
all that is missed. It is about positive limits: with a limit of zero the first page is empty, and a
client that stops there (`PagingEnds`) has received nothing. `Steady` is the condition that the chat
argument keeps its meaning while the client pages.

### Location

On Linux. Opening looks at every candidate directory in turn (`Look`), chooses the profile with the
newest database, looks at that profile's two origins again, and checks what it chose; fetching
images resolves the cookies anew, by the same search. The two variables are read apart:
`TEAMS_MCP_DB` is taken in place of a search when a session opens, `TEAMS_MCP_COOKIES` at each
fetch, and each may name a file of any profile, also one that is not there (`override`,
`NamedCookies`). Browsers write, make and remove databases between any two looks. A directory's
modification time is read in one step. `began`, `calm` and `own` are history: what was newest when
the open or fetch began, whether nothing was removed since, whether no other profile was written
during a fetch. A session that opened keeps its database for its life, the cookies follow the
profile that is newest at each fetch, so that they may be another profile's. `CookiesOfOwnProfile`
says when they are not: when they are searched for while the session's profile is the one written
last, and, whatever the browsers do, when both variables name one profile. In all other cases it
says nothing. `ChoosesRecent` speaks of searches only: what a variable names may be of any age.

### CookieFetch

A file is the set of versions of `Cookies` its bytes come from. `std::fs::copy` truncates a file
of that name or creates one, whoever has it open; an unlinked file lives while it is open. Reading
a file that is not whole may fail or give wrong rows; SQLite is external. The request and its
answer are one step, or one failure.

### Clipboard

On Linux. Call reads the `OnceLock`; a thread that finds it empty creates an instance (`Create`) and
offers it (`Set`): the first one gets in, any other is dropped, which would take a selection it
serves with it. Lock, Write, WriteFails and WritePanics are `with_clipboard`. The `arboard` library
is external: an instance serves the selection it set for as long as it lives. `OtherCopies` is
another program. On other systems an instance is made for each call and nothing is kept.

## Runs

| run | shows | bounds, and why they are enough |
|---|---|---|
| `StoreServer` | `MutualExclusion`, `BoundedStaleness`, `AnswersMoveForward`, `RebuildsAreSpaced`, refinement of `SnapshotView` | 3 threads (one rebuilding, one waiting, one to be overtaken); TTL 1, builds of at most 1 tick and 4 ticks: a cache can be fresh, exactly TTL old and stale, twice |
| `StoreLibrary` | with a refreshing thread and panics: `RefreshIsSeen`, `OnlyRefreshGoesBack`, `LockIsReleased`, `EveryCallReturns` | 2 threads, 3 ticks, 2 writes: a refresh before, during and after a rebuild |
| `LevelDbScan` | `Complete`, `ConsistentCut` | 2 keys, 3 writes, 5 files: a put, an overwrite and a deletion over a log, its successor, their tables and a merge |
| `LevelDbNewest` | `NewestWins` fails | finding; 4 files suffice |
| `WalReader` | `TailIsExact`, `ScanEnds` | blocks of 6 cells, headers of 2, three batches of four shapes: records that end one cell and exactly one header before the block does, and one that needs FIRST, MIDDLE and LAST; every cut |
| `Formats` | `KeysExact`, `TablesExact`, `ValuesExact`, `ContentExact`, `DatesExact` | words of 22 bits for 64, so that a varint takes up to four bytes; footer of 48 bytes as in the code; restarts every 2 entries for 16, so that shared prefixes end within a block; entities of at most 2 symbols for 10. Ids, names, lengths and numbers on both sides of each boundary of their encoding; blocks of every compression in every combination of two, each file cut at every byte; every sequence of up to three pieces of content; every day until 2134, from the epoch itself past 2000-02-29 and the year 2100 that is no leap year |
| `BuildCache` | `MessagesExact`, `NamesExact`, `TopicsExact` | nine directories in every order (up to 7 records): two message stores and every missing field, people, topics beside a similarly named database, titles beside other metadata, two accounts, an empty display name, empty titles, a directory with nothing to find, an empty one |
| `Queries` | `PagingMissesOnlyTies`, `PagesJoinUp`, `TopicMeansTopOfList`, `NewestAgrees`, `PagingEnds` | 2 conversations, 4 arguments (an id, an id that is part of the other's topic, a part of one and of both topics), limits 0 to 2, 4 entries, times 0 to 2: two pages and a tie at the edge between them |
| `Location` | `ChoosesRecent`, `CookiesOfOwnProfile` | two applications, one with a partition that has both origins and the old place of the cookies, one with a browser profile; 1 session (sessions share nothing); the variables unset, naming a profile, the same or different ones, or a file that is not there; 3 times: what is newest changes twice |
| `CookieFetch` | `AloneIsExact`, `NeverOlder` | 2 threads, 3 versions of `Cookies`; files are as many as can exist at once |
| `CookieRace` | `CopyIsReadable` fails | finding |
| `Clipboard` | `CopyStays`, `EveryCopyReturns` | 3 threads: two that race for the first instance and one that writes between them |

Each run of a module also checks its `TypeOK`. The two violations are disagreements between the
code and its own comments, quoted under `findings`: table entries that logs do not replace, and
the copy of the cookies that another fetch truncates or removes.

`Formats` is run without the deadlock check: a behaviour is over once the thing is read. Every
other run checks for deadlock; a call can always be made, and Queries and BuildCache have an
explicit `Done`.

### Fairness

`TeamsStore` and `Clipboard`: weak fairness of each thread's own steps and of taking the lock. The
scheduler runs every runnable thread; `std::sync::Mutex` is not fair, so a waiter is promised the
lock only if it stays free (weak, not strong). Hence `EveryCallReturns` and `EveryCopyReturns` are
stated for the case that eventually no new call arrives; `LockIsReleased` needs no such condition.
Nothing is assumed of Teams, of the clock, of other programs or of callers. `Queries`: the client
keeps asking (`WF(Page)`), needed for `PagingEnds` only. `WalReader`: `scan_log` runs to its end
(`WF(Scan)`), needed for `ScanEnds` only. The other modules have no liveness property.

## Proofs

Each proof module has an inductive invariant (`IInv`; `BInv`, `QInv` and `LInv` in the modules for
`BuildCache`, `Queries` and `Location`; `CInv` beside `IInv` for `ConsistentCut`), checked with TLC
on the instances above before it was proved, lemmas, one per conjunct or one per action, that show
that a step preserves it, and `Spec => []IInv`, from which the theorems about properties follow.

### TeamsStoreProofs

For every set of threads and refreshers, every TTL, build bound, horizon and number of writes,
under `ConstantsAssumption` only:

| theorem | property |
|---|---|
| `TypeCorrect` | `TypeOK` |
| `Exclusion` | `MutualExclusion` |
| `Staleness` | `BoundedStaleness` |
| `Spacing` | `RebuildsAreSpaced` |
| `GoingBack` | `OnlyRefreshGoesBack` |
| `Forward` (no refresher) | `AnswersMoveForward` |
| `RefreshSeen` (at most one refresher) | `RefreshIsSeen` |
| `Refinement` (no refresher) | `RefinesSnapshotView` |

None of the properties is inductive. `IInv` adds: the thread in the critical section is the holder
of the mutex (`LockInv`); a build is no older than `BuildBound` and only refreshers run refresh
(`ClockInv`); a draft misses only writes made since its build began (`DraftInv`); a finished cache,
stored or still held by refresh, misses only writes born at most `BuildBound` before its
`built_at` (`CacheInv`); a thread that rebuilds does so because the cache is stale, so its
`built_at` will be more than TTL later (`RebuildInv`); and the bound itself for a thread that
serves (`ServeInv`). Staleness follows by adding the two intervals: at most TTL from `built_at` to
the check, at most `BuildBound` from the read to `built_at`. `CacheWriters` names the two actions
that change the cache, on which the action properties rest. `Forward` and `RefreshSeen` add
`AnsweredInv` and `PromiseInv`; both fail in general, which is what their assumptions on
`Refreshers` exclude.

### LevelDbScanProofs

For every set of keys and every number of writes and files (`FilesAssumption`), about the scan
against the writer of `LevelDbFiles`, whose behaviour is the real assumption:

| theorem | property |
|---|---|
| `ScanType` | `TypeOK` |
| `NothingMissed` | `Complete` |
| `OneMoment` | `ConsistentCut` |

`Complete` speaks of the end of a scan only; the invariant follows every value there was at the
start to the file it is in. `FilesInv`: files hold only what was written, numbers of tables and logs
differ, of two logs the later one holds the later writes. `JobInv`: the output of a flush or merge
has what is still needed of its inputs, so removing these loses nothing that is live. `HeldInv`:
every live value is in some file that can be read. `SlotInv`: the slots hold puts of their keys,
older than what the unread logs hold, so that reading a log never puts back an older value.
`ScanInv`: each value there was at the start is in a listed file, shown, in a file still to be read,
or gone. That files are finite and bounded gives the greatest write of a key; it comes from the
library's well-founded order (`MaxExists`).

`ConsistentCut` needs the moment p of the cut, which no variable holds. Without a removal the log
is switched at most once during a scan, since a frozen log is not empty (`OrderInv`) and must be
removed before the next switch. Until the last log is read, each write since the scan's start is in
a log that is or will be listed, in the active one, or in a slot (`ListingInv`, `LogsInv`). The last
log decides (`LastLog`): if it is the active one, p is the number of writes made by then; if not, p
is where the active log begins, which is not before the scan's start because that log was begun
after it. Later writes leave p as it is (`CutStep`). What the cut shows of older values comes from
`ScanInv`.

### ToolProofs

Of `CookieFetch`, for every finite set of threads and every number of versions
(`FetchAssumption`): `FetchType` (`TypeOK`), `Recency` (`NeverOlder`), `Exactness` (`AloneIsExact`).
There is always a file that is neither under the name nor open (`NewFileIsUnused`, by counting), so
that a copy that creates a file writes into nobody's. `WritersInv`: only threads that copy write to
a file, each to the one it has open. `MadeInv`: the file that a fetch has open, or
will find under the name, has bytes no older than the fetch, because a copy that reuses the file
only adds newer ones; so a whole file is no older than the fetch that reads it. `AloneInv`: a fetch
that runs alone finds its own copy under the name, with the one version there was, and reads it.

Of `Clipboard`, for every set of threads (`ClipboardAssumption`): `ClipboardType`
(`ClipboardTypeOK`) and `CopyKept` (`CopyStays`). `CellInv`: the instance in the cell exists and its
maker will not set or drop it again, and an instance about to be set exists. `ServedInv`: what the
process serves is served by the instance in the cell. So an instance that is dropped never serves
anything.

Of `Formats`, under `FormatsAssumption` and `BytesAssumption`: `KeysRead` (`KeysExact`), for all
names of well-formed UTF-16, ids that fit their fields, payloads and words whose width is one more
than a multiple of seven, 64 among them; and `DatesRead` (`DatesExact`), for every last day. A
behaviour reads one record, so the invariants (`KeysInv`, `DatesInv`) only say what is written and
what reads it; the work is in what the operators compute.

- Numbers. `Power2`, `Value` and `Digits` are recursive functions; that such a function exists, so
  that its equation may be used, is `RecursionExists`. `DigitsAre`: the digits of a number have it
  as their value. `VarintIs`: of the bytes of a varint only the last is below 128, and all but the
  last make up fewer bits than the number has, so that a number below `2^WordBits` is never refused
  (`ReadsVarint`).
- Places. `Holds(buf, pos, e)`: the bytes `e` are in `buf` at `pos`. A reader of an encoding needs
  no more than that (`ReadsVarint`, `ReadsInt`, `ReadsPrefix`, `ReadsString`), and a key joined from
  parts holds each of them where the one before ends (`HoldsParts`, `TypedKey`).
- Records. `LengthsRead`: the shifts and masks of the first byte undo its writer's. `ReadsUtf16`:
  names come back, since a well-formed one has no lone surrogate. `ReadsDatabase`, `ReadsStore`,
  `ReadsItem`, `ReadsEntry`: each kind of record is read as what it is and by no other function,
  told apart by the ids and the two bytes of its type.
- Dates. `CivilFromDays` counts years from March in eras of 400. `Start` is the day on which such a
  year begins; `YearOfEra` shows that the code's quotient finds the year a day is in, by cases of the
  leap days before it, `CivilIsDateOf` puts eras and years together, and `Months` gives the day and
  the month. The day after (`DateAfter`) is then the calendar's `NextDate` within a month, at the end
  of one and at the end of February in either kind of year (`CalendarWalk`).

What had to change in the model for these proofs: `FormatsAssumption` says which names and ids there
are, which before only the run's values showed, and `Records` are all records made of them. `Value`
and `Digits` are functions for every base, in place of one recursion for each encoding.

### BuildCacheProofs

For every set of records and every order in which the map yields them (`BuildCacheAssumption`: keys
are three numbers or none, what a store of messages holds has messages):

| theorem | property |
|---|---|
| `BuildInvariance` | `BInv` |
| `BuildType` | `TypeOK` |
| `MessagesComplete` | `MessagesExact` |
| `NamesComplete` | `NamesExact` |
| `TopicsComplete` | `TopicsExact` |

The properties speak of the end; the invariant says the same of the records met so far (`Seen`).
`OrderInv`: the first pass meets each record once, the second goes through the same order.
`NamesInv` and `CellInv`: the tables say what those records say, and the cells are the tables'.
`MessageInv`: each conversation holds the messages among `Seen` that are its own (`Held`; as they
are shown once `Finish` has renamed and sorted them), each once if the directory is `Tidy`.
`PeopleInv`: a person has a name if they have a profile or sent under a name, and it is a profile's
if they have one, in whatever order the two were met. `TopicInv` says which threads have a topic.
At the end `Seen` is everything (`AllEntries`) and the cells of a tidy directory are the named
stores of the named database, so that the records a property speaks of are those decoded.

Two things came out of the proof. `Tidy` had said that no two store names of a database share an
id; a directory with two stores of one name would have met it, and there `find` returns either of
them: the condition now excludes this too. And the model's `Target` was a CASE whose guards could
hold together, where TLA+ takes either branch; the code's `if`/`else if` takes the first one.

### QueriesProofs

For every finite set of conversations, every topic match, limit, time and number of messages
(`QueriesAssumption`):

| theorem | property |
|---|---|
| `QueriesType` | `TypeOK` |
| `SteadyPagesJoinUp` | `PagesJoinUp` |
| `MissesOnlyTies` | `PagingMissesOnlyTies` |
| `TopicIsTopOfList` | `TopicMeansTopOfList` |
| `ToolsAgreeOnNewest` | `NewestAgrees` |

`StoreInv`: a conversation holds its own entries, in time order, each once, and entries that share a
number are one. `ClientInv` ties `before_ms` to the oldest message received. `SteadyInv` carries the
two properties about paging: while the chat argument keeps its meaning (`Means`), what the client
has yet to receive of its goal is older than all it has, or is a tie at the edge of a page. A page
(`PageFrom`) is the end of the part before `before_ms`, so what it leaves out is older than what it
has, or tied. The other two properties follow from `StoreInv` alone, in each state: from the ranks
of a stable sort it follows that the first of `list_chats` has the newest message, and that a sorted
list of the matching conversations begins as the whole list may.

### LocationProofs

For every list of applications with their partitions and origins, every layout of cookies, every set
of databases and sessions (`LocationAssumption`): `LocationType` (`TypeOK`), `RecentChosen`
(`ChoosesRecent`), `OwnCookiesUsed` (`CookiesOfOwnProfile`). `RecentInv`: while nothing was removed,
either the best found so far is as recent as anything was when the search began, or a directory
that recent is still to be looked at; the second look at the chosen profile begins with this of its
own. `OwnInv` says the same of the session's profile, with all others older than the fetch. Both are
about searches (`Seeks`), begun without the variable in question. `PinnedInv` is about variables
that are set: the database of a session is the one `TEAMS_MCP_DB` names, and cookies that were
found are those `TEAMS_MCP_COOKIES` names; neither variable changes (`OverrideStays`).

### WalReaderProofs

For every size of blocks and headers, a header being shorter than a block, every set of batches and
every number of them (`WalAssumption`): `BoundariesKept` (`TypeOK`) and `WholeBatches`
(`TailIsExact`).

No variable says where records begin. The invariant therefore asks for a set of marks, the places
where a record ended: with each goes the batch written there and how much of its data came before
(`Mark`). `MarksInv`: from the beginning of the log each mark is followed by one record whole, after
zeros if the block's tail had no room for a header, and the next mark is that record's end
(`Follows`, `After`); a mark in a batch comes before the end of that batch and after those of all
earlier ones (`MarkOK`). `ReaderInv`: a reader at work is at a mark, or at the block that begins
after the zeros that follow a mark (`ReaderAt`); it has collected just the data of the mark's batch
that came before, and handed over the puts of the batches before it. What the writer's step adds is
one mark (`WriteOne`); whole records take the reader from a mark to the next (`ReadRecord`).

Two facts carry the proof. Where a reader has room for a header, no tail was skipped, so that a
record begins there; where it has none, the next block begins at a mark or after its zeros
(`AtMark`). And a record never ends outside its block, so that a record seems cut only at the end of
the file (`FindsRecord`): what `break` skips is the rest of the last block, in which the batch of the
reader's mark cannot end (`ReadNextBlock`). `SizeGrows`, about the recursive function `Size`, says
that a batch whose data are all there has every entry there (`EmitWhole`).

### SequenceLemmas

What the models' operators on sequences return: the elements of `Kept`, in order (`KeptElements`);
`StableSort` is a permutation, sorted and stable (`StableSortElements`, by the ranks of the
positions, `Ranks`); the elements and the last one of a `FlattenSeq` (`FlattenElements`,
`FlattenLast`), and what appending or empty sequences at the end do to it (`FlattenAppend`,
`FlattenTail`); that a finite set has a sorted sequence (`SortExists`); and that a function defined
from its values at smaller numbers exists (`RecursionExists`, `StrongInduction`). Induction is over
a set of numbers (`NatSetInduction`, from the library's well-founded order) where the library's own
theorem has an operator for a parameter. `filter` and `sort_by_key` are defined by positions and
ranks (`Slices`), not with a fold, so that these facts can be proved.

### What is only model-checked

Liveness under fairness and ENABLED are beyond the prover (`LockIsReleased`, `EveryCallReturns`,
`EveryCopyReturns`, `PagingEnds`, `ScanEnds`). Three properties of `Formats` are checked on that
run's inputs only. `ValuesExact`: values are nested, and what `ReadValue` makes of a value of any
depth is an induction over data. `TablesExact` is not true of every table: `scan_table` does not
check the footer's magic number, so that a file cut within a value that looks like a footer gives
whatever that footer points at; the same holds of `ContentExact` and own text that contains an
ampersand that begins no entity, a hazard listed at `decode_entity`. What the run's tables and
contents may hold is said under Formats above. No module has a RECURSIVE operator. The two
violations are counterexamples of their runs.

## Not modelled

- Which cookies and URLs are accepted, their decryption, the operating systems' key stores, HTTP
  and its answers, the rmcp library (sessions, transports, JSON): external or without state of
  their own. `CookieFetch` has their failures.
- Deletions: the scan skips those in logs and keeps those in tables as entries, so deleted records
  can reappear; this is in `LevelDbScan` (Overlay, `found`), but no property asks for the absence of
  deleted keys because the code does not attempt it.
- File names beyond six digits, which would sort wrongly.
- The wrapped order of `-*t` at the least `i64` in a release build.
- Locations on macOS and Windows, which are one fixed profile each.
- The alternatives of a reaction's key and the limits and defaults of tool arguments.
- Command-line examples and the stdio transport's main.

## Plan

1. A composition of `TeamsStore` with `LevelDbScan` in place of the atomic Scan, so that staleness is
   stated of writes that a scan met halfway.
2. A writer for `WalReader` that dies within a record and begins a new log.
