------------------------------ MODULE Formats -------------------------------
(***************************************************************************)
(* The conversions the cache is built through, each from what was written  *)
(* to what the code reads: the keys of records (idb.rs), the table files   *)
(* (sstable.rs), the values (v8.rs), the content of messages (teams.rs,    *)
(* util.rs) and the dates (util.rs).  A behaviour writes one thing and     *)
(* reads it, or walks through the calendar.                                *)
(***************************************************************************)
EXTENDS IdbKeys, SsTable, BlinkValue, MessageBody, Calendar

CONSTANTS Names,    \* of origins, databases and stores
          Ids,      \* of databases and stores
          Indexes,  \* ids of indexes
          Items,    \* of a store's metadata, other than its name
          Payloads, \* the rest of a key, and values
          Tables,   \* sequences of blocks, each [entries, type]
          Values,   \* what V8 wrote: <<value, bytes>>
          Contents, \* messages, as sequences of pieces
          LastDay   \* the last day of the calendar walk, counted from 1970-01-01

\* Chromium counts ids from 1 and has eight bytes for those of databases and
\* stores, four for those of indexes.
ASSUME FormatsAssumption ==
  /\ \A s \in Names : IsName(s) /\ Len(s) < Power2[WordBits]
  /\ \A n \in Ids : n \in Nat \ {0} /\ Len(EncodeInt(n)) <= 8 /\ n < Power2[WordBits]
  /\ \A n \in Indexes : n \in Nat \ {0} /\ Len(EncodeInt(n)) <= 4
  /\ Items \subseteq 1..255 /\ Payloads \subseteq Seq(0..255)
  /\ LastDay \in Nat

\* Records of the metadata and of stores.
Records ==
  {DatabaseRecord(origin, name, id) : origin \in Names, name \in Names, id \in Ids}
    \union {StoreRecord(db, store, name) : db \in Ids, store \in Ids, name \in Names}
    \union {StoreItem(db, store, item, value) :
               db \in Ids, store \in Ids, item \in Items, value \in Payloads}
    \union {Entry(db, store, index, rest, value) :
               db \in Ids, store \in Ids, index \in Indexes, rest \in Payloads, value \in Payloads}

VARIABLES format, \* which conversion
          written,
          read    \* what the code makes of it, <<>> before it is read
formatsVars == <<format, written, read>>

FormatsInit ==
  /\ read = <<>>
  /\ \/ format = "key" /\ written \in Records
     \/ format = "table" /\ written \in Tables
     \/ format = "value" /\ written \in Values
     \/ format = "content" /\ written \in Contents
     \/ format = "date" /\ written = <<1970, 1, 1>>

ReadKey ==
  /\ format = "key" /\ read = <<>>
  /\ read' = <<DatabaseName(written.key, written.value), StoreName(written.key, written.value),
               IsObjectStoreData(written.key)>>
  /\ UNCHANGED <<format, written>>

\* The file may be read while LevelDB is still writing it.
ReadTable ==
  /\ format = "table" /\ read = <<>>
  /\ LET file == BuildTable(written)
     IN \E n \in 0..Len(file) : read' = <<n = Len(file), ScanTable(SubSeq(file, 1, n))>>
  /\ UNCHANGED <<format, written>>

ReadRecordValue ==
  /\ format = "value" /\ read = <<>>
  /\ read' = <<DecodeValue(written[2])>>
  /\ UNCHANGED <<format, written>>

ReadContent ==
  /\ format = "content" /\ read = <<>>
  /\ read' = <<ParseBody(FlattenSeq([i \in DOMAIN written |-> written[i].html]))>>
  /\ UNCHANGED <<format, written>>

\* A second of each day, of every hour sooner or later.
SecondOn(day) == (day * 997) % 86400

\* That second as it is shown; on day 0 it is the epoch itself.
Shown(day) == FormatEpoch(day, SecondOn(day), day % 1000)

\* The first reading of a date, then the next day; read counts the days.
NextDay ==
  /\ format = "date"
  /\ \/ read = <<>> /\ read' = <<0, Shown(0)>> /\ UNCHANGED written
     \/ /\ read # <<>> /\ read[1] < LastDay
        /\ written' = NextDate(written)
        /\ read' = <<read[1] + 1, Shown(read[1] + 1)>>
  /\ UNCHANGED format

FormatsNext == ReadKey \/ ReadTable \/ ReadRecordValue \/ ReadContent \/ NextDay

FormatsSpec == FormatsInit /\ [][FormatsNext]_formatsVars

-----------------------------------------------------------------------------
\* Every record says what Chromium wrote, whatever the widths of its ids and the
\* length of its name, and no other record of the metadata is taken for a name
\* (idb.rs parse_database_name, parse_object_store_name, is_object_store_data).
KeysExact ==
  format = "key" /\ read # <<>> => read = <<written.database, written.store, written.data>>

\* A table gives all entries of the blocks whose compression is known, in their
\* order, with their whole keys; a file of these that is not finished, or has lost
\* its end, never gives an entry that is not in the table (sstable.rs scan_table).
TablesExact ==
  format = "table" /\ read # <<>> =>
    /\ read[1] => read[2] = Readable(written)
    /\ ToSet(read[2]) \subseteq ToSet(Readable(written))

\* Every value comes back as V8 wrote it, whatever bytes its strings and numbers
\* hold and wherever padding was needed (v8.rs find_v8_start, read_value).  An object
\* met before (tag ^), undefined and infinity are null by the decoder's own choice: of
\* these it says only that what surrounds them is not disturbed.
ValuesExact ==
  format = "value" /\ read # <<>> => read[1].ok /\ read[1].value = written[1]

\* Text, images and the message replied to are the message's own: nothing of a quoted
\* message reaches them and nothing of its own is lost (teams.rs parse_message).
ContentExact == format = "content" /\ read # <<>> => read[1] = Reading(written)

\* The formatted date is the calendar's, through leap years and centuries; the epoch,
\* which is what a message without times has, has none (util.rs).
DatesExact ==
  format = "date" /\ read # <<>> =>
    IF read[1] = 0 THEN read[2] = <<>>
    ELSE /\ SubSeq(read[2], 1, 3) = written
         /\ 3600 * read[2][4] + 60 * read[2][5] + read[2][6] = SecondOn(read[1])
=============================================================================
