----------------------------- MODULE FolderTree -----------------------------
(***************************************************************************)
(* Folder paths (pkg/ksm/folder_tree.go): BuildFolderTree makes a tree of  *)
(* the flat list of folders that Keeper returns, ResolvePath walks down    *)
(* from the roots along a path of names, GetPath walks up from a folder.   *)
(* Folders are numbered in the order of the list, which is the order of    *)
(* roots and children; 0 stands for no folder.                             *)
(***************************************************************************)
EXTENDS Integers, Sequences, FiniteSetsExt

CONSTANTS
  Names,       \* names of folders
  MaxFolders,  \* the length of the list
  MaxDepth     \* bound: names in a path

ASSUME BoundAssumption == MaxFolders \in Nat \ {0} /\ MaxDepth \in Nat \ {0}

VARIABLES
  name,    \* name[f]: the name of folder f
  parent,  \* parent[f]: its parentUid: 0 for none, MaxFolders + 1 for a folder
           \* that is not in the list, because it is not shared
  path,    \* the names to resolve
  level,   \* the folder whose children are searched, 0 for the roots
  depth,   \* the index of the name that is looked for
  found,   \* the folder that the path resolved to
  climb,   \* GetPath of found: the folder reached,
  names,   \* and the names collected so far
  pc

input == <<name, parent, path>>
vars  == <<input, level, depth, found, climb, names, pc>>

Folders == 1 .. MaxFolders

\* An orphan is treated as a root.
ParentOf(f) == IF parent[f] \in Folders THEN parent[f] ELSE 0

\* The roots, or the children of a folder.
Under(p) == {f \in Folders : ParentOf(f) = p}

\* A folder is below its parent: Keeper's folders have no cycles.
Acyclic ==
  \E rank \in [Folders -> Folders] :
    \A f \in Folders : ParentOf(f) # 0 => rank[ParentOf(f)] < rank[f]

Paths == UNION {[1 .. n -> Names] : n \in 0 .. MaxDepth}

Init ==
  /\ name \in [Folders -> Names]
  /\ parent \in [Folders -> 0 .. MaxFolders + 1]
  /\ Acyclic
  /\ path \in Paths
  /\ level = 0
  /\ depth = 1
  /\ found = 0
  /\ climb = 0
  /\ names = << >>
  /\ pc = "resolve"

\* Mutant of Matches: the whole list is searched.
MatchesAnywhere == {f \in Folders : name[f] = path[depth]}

\* The folders at this level that have the next name; the first one counts.
Matches == {f \in Under(level) : name[f] = path[depth]}

\* Nothing but slashes, or no folder of that name.
NotFound ==
  /\ pc = "resolve"
  /\ path # << >> => Matches = {}
  /\ pc' = "missing"
  /\ UNCHANGED <<input, level, depth, found, climb, names>>

\* Mutant of Descend: the level stays.
DescendToRoots ==
  /\ pc = "resolve"
  /\ depth < Len(path)
  /\ Matches # {}
  /\ depth' = depth + 1
  /\ UNCHANGED <<input, level, found, climb, names, pc>>

Descend ==
  /\ pc = "resolve"
  /\ depth < Len(path)
  /\ Matches # {}
  /\ level' = Min(Matches)
  /\ depth' = depth + 1
  /\ UNCHANGED <<input, found, climb, names, pc>>

Found ==
  /\ pc = "resolve"
  /\ depth = Len(path)
  /\ Matches # {}
  /\ found' = Min(Matches)
  /\ climb' = Min(Matches)
  /\ pc' = "climb"
  /\ UNCHANGED <<input, level, depth, names>>

\* Mutant of Climb: it does not get on.
ClimbNowhere ==
  /\ pc = "climb"
  /\ climb # 0
  /\ UNCHANGED vars

\* Mutant of Climb: a name is put behind those collected so far.
ClimbAppending ==
  /\ pc = "climb"
  /\ climb # 0
  /\ names' = Append(names, name[climb])
  /\ climb' = ParentOf(climb)
  /\ UNCHANGED <<input, level, depth, found, pc>>

Climb ==
  /\ pc = "climb"
  /\ climb # 0
  /\ names' = <<name[climb]>> \o names
  /\ climb' = ParentOf(climb)
  /\ UNCHANGED <<input, level, depth, found, pc>>

AtRoot ==
  /\ pc = "climb"
  /\ climb = 0
  /\ pc' = "done"
  /\ UNCHANGED <<input, level, depth, found, climb, names>>

Next == NotFound \/ Descend \/ Found \/ Climb \/ AtRoot

Spec == Init /\ [][Next]_vars /\ WF_vars(Next)
----------------------------------------------------------------------------
(* Properties. *)

\* The chains of folders, each one the parent of the next, that bear the first n
\* names of the path.
Chains(n) ==
  {c \in [1 .. n -> Folders] :
     /\ n > 0 => ParentOf(c[1]) = 0
     /\ \A i \in 2 .. n : ParentOf(c[i]) = c[i - 1]
     /\ \A i \in 1 .. n : name[c[i]] = path[i]}

\* The folders that a path may mean: the ends of its chains.
Meanings == {c[Len(path)] : c \in Chains(Len(path))}

SiblingsDiffer ==
  \A f, g \in Folders : ParentOf(f) = ParentOf(g) /\ name[f] = name[g] => f = g

\* What ResolvePath returns is a folder at that path, and GetPath leads back to
\* the path, for every list of folders.
ResolvesToThePath ==
  /\ found # 0 => found \in Meanings
  /\ pc = "done" => names = path

\* Where siblings have different names, a path that exists is found.
FindsWhatExists ==
  pc = "missing" /\ SiblingsDiffer /\ path # << >> => Meanings = {}

\* The type invariant of both walks.
TypeOK ==
  /\ name \in [Folders -> Names]
  /\ parent \in [Folders -> 0 .. MaxFolders + 1]
  /\ path \in Paths
  /\ level \in 0 .. MaxFolders
  /\ depth \in 1 .. MaxDepth
  /\ found \in 0 .. MaxFolders
  /\ climb \in 0 .. MaxFolders
  /\ names \in Seq(Names)
  /\ pc \in {"resolve", "missing", "climb", "done"}

\* ResolvePath: a chain of the names so far ends at the level.
Descending ==
  /\ found = 0 /\ climb = 0 /\ names = << >>
  /\ path # << >> => depth <= Len(path)
  /\ \E c \in Chains(depth - 1) : level = IF depth = 1 THEN 0 ELSE c[depth - 1]

\* GetPath: the folder reached is the k-th one of a chain of the path that ends
\* at what was found, and the names behind it are collected.
Climbing ==
  /\ path # << >>
  /\ \E c \in Chains(Len(path)), k \in 0 .. Len(path) :
       /\ found = c[Len(path)]
       /\ climb = IF k = 0 THEN 0 ELSE c[k]
       /\ Len(names) = Len(path) - k
       /\ \A i \in 1 .. Len(names) : names[i] = path[k + i]

\* The invariant behind the two properties: both walks stay on one chain
\* (ResolvePath, GetPath).
Inductive ==
  /\ TypeOK
  /\ pc \in {"resolve", "missing"} => Descending
  /\ pc = "missing" /\ path # << >> => Matches = {}
  /\ pc \in {"climb", "done"} => Climbing
  /\ pc = "done" => climb = 0

\* Both walks end.
Terminates == <>(pc \in {"missing", "done"})
============================================================================
