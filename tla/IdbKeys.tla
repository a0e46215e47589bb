------------------------------ MODULE IdbKeys -------------------------------
(***************************************************************************)
(* crates/teams-core/src/idb.rs: which database or object store a record   *)
(* of Chromium's IndexedDB names, from the bytes of its key and value.     *)
(* Strings are sequences of UTF-16 code units.                             *)
(***************************************************************************)
EXTENDS Bytes

\* KeyPrefix::parse: the first byte has the lengths of the three ids, less one.
KeyPrefix(key) ==
  IF key = <<>> THEN Nothing ELSE
  LET d == key[1] \div 32 + 1
      s == ((key[1] \div 4) % 8) + 1
      i == (key[1] % 4) + 1
  IN IF ~Has(key, 2, d + s + i) THEN Nothing
     ELSE Found([database |-> ReadLe(key, 2, d), store |-> ReadLe(key, 2 + d, s),
                 index |-> ReadLe(key, 2 + d + s, i)], 1 + d + s + i)

\* decode_utf16_be: strict, in bytes and in surrogates.
DecodeUtf16Be(bytes) ==
  LET s == [i \in 1..(Len(bytes) \div 2) |-> 256 * bytes[2 * i - 1] + bytes[2 * i]]
  IN IF Len(bytes) % 2 = 1 \/ (\E i \in DOMAIN s : Lone(s, i)) THEN Nothing
     ELSE Found(s, Len(bytes))

\* read_string_with_length
ReadString(buf, pos) ==
  LET n == ReadVarint(buf, pos)
  IN IF ~n.ok \/ ~Has(buf, pos + n.used, 2 * n.value) THEN Nothing
     ELSE LET s == DecodeUtf16Be(Slice(buf, pos + n.used, 2 * n.value))
          IN IF s.ok THEN Found(s.value, n.used + s.used) ELSE Nothing

TypeByte(key, pos, b) == Has(key, pos, 1) /\ key[pos] = b

\* parse_database_name: <0, 0, 0>, 201, origin, name; the value is the id.
DatabaseName(key, value) ==
  LET p == KeyPrefix(key)
      origin == ReadString(key, p.used + 2)
      name == ReadString(key, p.used + 2 + origin.used)
  IN IF /\ p.ok /\ p.value = [database |-> 0, store |-> 0, index |-> 0]
        /\ TypeByte(key, p.used + 1, 201) /\ origin.ok /\ name.ok
     THEN Found(<<name.value, ReadLe(value, 1, Len(value))>>, 0) ELSE Nothing

\* parse_object_store_name: <db, 0, 0>, 50, store, 0; the value is the name.
StoreName(key, value) ==
  LET p == KeyPrefix(key)
      store == ReadVarint(key, p.used + 2)
      name == DecodeUtf16Be(value)
  IN IF /\ p.ok /\ p.value.database # 0 /\ p.value.store = 0 /\ p.value.index = 0
        /\ TypeByte(key, p.used + 1, 50) /\ store.ok
        /\ TypeByte(key, p.used + 2 + store.used, 0) /\ name.ok
     THEN Found(<<p.value.database, store.value, name.value>>, 0) ELSE Nothing

\* is_object_store_data
IsObjectStoreData(key) == KeyPrefix(key).ok /\ KeyPrefix(key).value.index = 1

-----------------------------------------------------------------------------
(* Chromium's side (indexed_db_leveldb_coding): records as it writes them. *)

\* Well-formed UTF-16.
CodeUnits == {u \in Nat : u < 65536}
IsName(s) == s \in Seq(CodeUnits) /\ \A i \in DOMAIN s : ~Lone(s, i)

EncodePrefix(db, store, index) ==
  LET d == EncodeInt(db)   s == EncodeInt(store)   i == EncodeInt(index)
  IN <<32 * (Len(d) - 1) + 4 * (Len(s) - 1) + Len(i) - 1>> \o d \o s \o i

EncodeUtf16Be(s) ==
  [i \in 1..(2 * Len(s)) |-> IF i % 2 = 1 THEN s[(i + 1) \div 2] \div 256 ELSE s[i \div 2] % 256]
EncodeString(s) == EncodeVarint(Len(s)) \o EncodeUtf16Be(s)

\* What each record says: [key, value, database, store, data].
Record(key, value, database, store, data) ==
  [key |-> key, value |-> value, database |-> database, store |-> store, data |-> data]

DatabaseRecord(origin, name, id) ==
  Record(EncodePrefix(0, 0, 0) \o <<201>> \o EncodeString(origin) \o EncodeString(name),
         EncodeInt(id), Found(<<name, id>>, 0), Nothing, FALSE)
StoreRecord(db, store, name) ==
  Record(EncodePrefix(db, 0, 0) \o <<50>> \o EncodeVarint(store) \o <<0>>,
         EncodeUtf16Be(name), Nothing, Found(<<db, store, name>>, 0), FALSE)

\* Further items of a store's metadata, entries, and entries of an index.
StoreItem(db, store, item, value) ==
  Record(EncodePrefix(db, 0, 0) \o <<50>> \o EncodeVarint(store) \o <<item>>, value,
         Nothing, Nothing, FALSE)
Entry(db, store, index, key, value) ==
  Record(EncodePrefix(db, store, index) \o key, value, Nothing, Nothing, index = 1)
=============================================================================
