---------------------------- MODULE MCBuildCache ----------------------------
(***************************************************************************)
(* BuildCache on a few directories, every order of their records.          *)
(***************************************************************************)
EXTENDS BuildCache

Db(manager, id) ==
  [key |-> <<0, 0, 0>>, item |-> "database name", name |-> manager, id |-> id]
Store(db, store, name) ==
  [key |-> <<db, 0, 0>>, item |-> "store name", name |-> name, id |-> store]
Data(db, store, body) == [key |-> <<db, store, 1>>, item |-> "value", body |-> body]
Exists(db, store) == [key |-> <<db, store, 2>>, item |-> "exists"]
Other(key) == [key |-> key, item |-> "other metadata"]

Msg(id, conv, arrival, idTime, client, creator, name, users) ==
  [id |-> id, conv |-> conv, arrival |-> arrival, idTime |-> idTime,
   client |-> client, creator |-> creator, name |-> name, users |-> users]
Chain(conv, msgs) == [conv |-> conv, messages |-> msgs]

\* Two message stores; messages with and without their own conversation, and
\* with each of the times missing in turn.
MCMessages ==
  { Db("replychain-manager", 2), Store(2, 1, "replychains"),
    Store(2, 2, "replychains-2"), Store(2, 3, "other"),
    Data(2, 1, Chain("c1", << Msg("m1", None, 5, 1, 1, "ann", "Ann", {"bob"}),
                              Msg("m2", "c2", None, 4, 1, "bob", None, {}) >>)),
    Data(2, 2, Chain(None, << Msg("m3", "c1", None, None, 3, None, None, {"ann"}),
                              Msg("m4", None, 1, 1, 1, "bob", "Bob", {"ann"}),
                              Msg("m5", "c1", None, None, None, None, None, {}) >>)),
    Data(2, 3, Chain("c1", << Msg("m6", "c1", 9, 9, 9, None, None, {}) >>)) }

\* A person with a profile and with a sender name, one with neither, and a
\* profile without a name.
MCPeople ==
  { Db("replychain-manager", 1), Store(1, 1, "replychains"),
    Db("profiles", 3), Store(3, 1, "profiles"),
    Data(3, 1, [mri |-> "ann", name |-> "Ann A."]),
    Data(3, 1, [mri |-> "eve", name |-> None]),
    Data(1, 1, Chain("c1", << Msg("m1", None, 1, 1, 1, "ann", "annie",
                                  {"ann", "eve"}) >>)) }

\* Conversations with a name, with titles and with nothing, one that is no thread,
\* another manager's database, an undecodable value, other records.
Conv(id, thread, topic, long, short) ==
  [id |-> id, thread |-> thread, topic |-> topic, long |-> long, short |-> short]

MCTopics ==
  { Db("conversation-manager", 1), Store(1, 1, "conversations"),
    Db("conversation-folder-manager", 4), Store(4, 1, "conversations"),
    Data(1, 1, Conv("c1", TRUE, "plan", "long", None)),
    Data(4, 1, Conv("c2", TRUE, "folder", None, None)), Data(1, 1, None) }

MCTitles ==
  { Db("conversation-manager", 1), Store(1, 1, "conversations"),
    Data(1, 1, Conv("c1", TRUE, None, None, "short")),
    Data(1, 1, Conv("c2", TRUE, None, None, None)),
    Data(1, 1, Conv("c3", FALSE, "not a thread", None, None)),
    Other(None), Other(<<1, 0, 0>>) }

\* Two accounts' databases, the deletion of a third one's name and a store whose
\* name cannot be decoded.
MCAccounts ==
  { Db("replychain-manager", 1), Db("replychain-manager", 5),
    Db("replychain-manager", 0), Store(1, 1, "replychains"), Store(5, 1, "replychains"),
    Store(1, 2, None),
    Data(1, 1, Chain("c1", << Msg("m1", None, 1, 1, 1, None, None, {}) >>)) }

\* A profile with an empty display name, of a sender with a name.
MCEmptyName ==
  { Db("replychain-manager", 1), Store(1, 1, "replychains"),
    Db("profiles", 3), Store(3, 1, "profiles"),
    Data(3, 1, [mri |-> "bob", name |-> ""]),
    Data(1, 1, Chain("c1", << Msg("m1", None, 1, 1, 1, "bob", "Bob", {"bob"}) >>)) }

\* Conversations with an empty long title, and with an empty short one.
MCEmptyTitle ==
  { Db("conversation-manager", 1), Store(1, 1, "conversations"),
    Data(1, 1, Conv("c1", TRUE, None, "", "brief")),
    Data(1, 1, Conv("c2", TRUE, None, None, "")) }

\* Nothing the server looks for.
MCNothing == { Other(<<0, 0, 0>>), Exists(1, 1) }

MCWorlds == {MCMessages, MCPeople, MCTopics, MCTitles, MCAccounts, MCEmptyName,
             MCEmptyTitle, MCNothing, {}}
=============================================================================
