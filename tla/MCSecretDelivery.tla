------------------------- MODULE MCSecretDelivery -------------------------
(***************************************************************************)
(* Annotations and vaults for TLC.                                         *)
(***************************************************************************)
EXTENDS SecretDelivery

MCTokens == STRING

MCWords == {"a", "apis", "app", "b", "cert", "com", "custom_field", "db", "env",
            "example", "field", "file", "json", "keeper", "login", "my", "notes",
            "old", "pem", "phone", "pin", "prod", "secrets", "team", "u2", "1"}
MCUpper == [word \in MCWords |-> word]  \* not used here
MCLower == [word \in MCWords |-> word]

Folder(uid, parent, name) == [uid |-> <<uid>>, parent |-> <<parent>>, name |-> <<name>>]

\* A folder in another one, an orphan of the same name first, and a folder named
\* like a selector; the first two exchanged; two folders at one place, and a
\* second "prod" that is a dead end.
MCFolderLists == {
  <<Folder("f3", "lost", "apis"), Folder("f1", "root", "prod"),
    Folder("f2", "f1", "apis"), Folder("f4", "f1", "notes")>>,
  <<Folder("f2", "root", "prod"), Folder("f1", "f2", "apis")>>,
  <<Folder("f1", "root", "prod"), Folder("f2", "f1", "apis"),
    Folder("f3", "f1", "apis"), Folder("f4", "root", "prod")>>}

\* The standard fields, attachments and values of a record are told by its UID
\* and version.
Record(uid, title, folders, ver) ==
  LET V(name) == Append(<<uid, name>>, ver) IN
  [uid |-> <<uid>>, title |-> title, type |-> <<"login">>, folders |-> folders,
   fields |-> <<[type |-> <<"login">>, label |-> NoText, value |-> V("login")],
                [type |-> <<"phone">>, label |-> NoText, value |-> NoText],
                [type |-> <<"secret">>, label |-> <<"pin">>, value |-> V("pin")],
                [type |-> <<"note">>, label |-> NoText, value |-> V("note")]>>,
   custom |-> <<[type |-> <<"text">>, label |-> <<"env">>, value |-> V("env")],
                [type |-> <<"secret">>, label |-> <<"pin">>, value |-> V("pin2")]>>,
   files |-> <<[name |-> <<"cert">>, title |-> <<"cert", ".", "pem">>, data |-> V("file")],
               [name |-> <<"cert", ".", "pem">>, title |-> <<"old">>, data |-> V("file2")]>>]

Db   == <<"db">>
MyDb == <<"my", " ", "db">>
F1   == <<"f1">>
F2   == <<"f2">>

\* One record of each title; two of the same title, in different folders and in
\* the same one, with titles that give the same file name; the records of the
\* first list in other folders, with other values.
MCRecordLists == {
  <<Record("u1", Db, {F1}, "v1"), Record("u2", MyDb, {F2}, "v1"),
    Record("u3", <<"notes">>, {F2}, "v1"), Record("u4", <<"a", ":", "b">>, {F1}, "v1")>>,
  <<Record("u2", MyDb, {F1, F2}, "v1"), Record("u1", Db, {F2}, "v1"),
    Record("u5", Db, {F1}, "v1"), Record("u6", <<"my", "-", "db">>, {F1}, "v1"),
    Record("u7", <<"u2">>, {F1}, "v1"), Record("u9", <<"db", " ">>, {F2}, "v1")>>,
  <<Record("u1", Db, {F2}, "v2"), Record("u2", MyDb, {F1}, "v2"),
    Record("u8", <<"prod", ".", "example", ".", "com">>, {F1}, "v1")>>}

MCUIDs       == {<<"u1">>, <<"u2">>, <<"u3">>, <<"u4">>, <<"u5">>, <<"u6">>,
                 <<"u7">>, <<"u8">>, <<"u9">>}
MCLongTitles == {<<"prod", ".", "example", ".", "com">>}
MCKeys       == {Db}
MCTitles     == {Db, MyDb, <<"db", " ">>, <<"u2">>, <<"a", ":", "b">>, <<"notes">>,
                 <<"prod", ".", "example", ".", "com">>}
MCPlaces     == {<< >>, <<<<"prod">>>>, <<<<"prod">>, <<"apis">>>>, <<<<"team", ":">>, Db>>}
MCFields     == {<<"login">>, <<"pin">>, <<"notes">>, <<"phone", "[", "1", "]">>}
MCFiles      == {<<"cert">>, <<"cert", ".", "pem">>}
MCPaths      == {<<"/", "app">>, <<"/", "field", "/", "db">>}
===========================================================================
