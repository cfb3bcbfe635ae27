-------------------------- MODULE MCSidecarAgent --------------------------
(***************************************************************************)
(* Small pod configurations for TLC.  Each one gives a value to Name, Path *)
(* and FolderFiles; the .cfg files choose among them.                      *)
(***************************************************************************)
EXTENDS SidecarAgentInv

\* One secret, or two of them, each with its own record and path.
OneName  == <<"db">>
OnePath  == <<"p1">>
TwoNames == <<"db", "tls">>
TwoPaths == <<"p1", "p2">>

\* Two entries that take different fields of the same record.
SameName == <<"db", "db">>

NoFolder == << >>

\* A folder after one secret: with a record of its own, or with two records, one
\* of them the secret's, at paths of the folder.
FolderOther == [f \in {2} |-> {[rec |-> "tls", path |-> "p2"]}]
FolderTwo   == [f \in {2} |-> {[rec |-> "db", path |-> "p2"],
                               [rec |-> "tls", path |-> "p3"]}]
============================================================================
