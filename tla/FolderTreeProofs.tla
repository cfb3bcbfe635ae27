-------------------------- MODULE FolderTreeProofs --------------------------
(***************************************************************************)
(* For lists of any length, with orphans and equal names, and for paths of *)
(* any length: the folder that ResolvePath returns lies at the path, and   *)
(* GetPath leads back.  Where siblings differ, a path that exists is found.*)
(***************************************************************************)
EXTENDS FolderTree, SequenceTheorems, WellFoundedInduction, TLAPS

\* Every set of numbers that is not empty has a least one.
LEMMA LeastNumber ==
  ASSUME NEW T, T \subseteq Nat, T # {}
  PROVE  \E x \in T : \A y \in T : x <= y
<1>1. PICK x \in T : \A y \in T : ~ (<<y, x>> \in OpToRel(<, Nat))
  BY NatLessThanWellFounded, WFMin
<1>2. ASSUME NEW y \in T
      PROVE  x <= y
  <2>1. ~ (y < x)
    BY <1>1 DEF OpToRel
  <2> QED BY <2>1
<1> QED BY <1>2

\* The folder that ResolvePath takes is one of those that match.
LEMMA FirstMatch ==
  ASSUME Matches # {}
  PROVE  Min(Matches) \in Matches
<1>1. Matches \subseteq Nat
  BY BoundAssumption DEF Matches, Under, Folders
<1>2. \E x \in Matches : \A y \in Matches : x <= y
  BY <1>1, LeastNumber
<1> QED BY <1>2 DEF Min

\* A path is a sequence of names.
LEMMA PathTyped ==
  ASSUME path \in Paths
  PROVE  /\ path \in Seq(Names)
         /\ Len(path) \in 0 .. MaxDepth
         /\ path # << >> <=> Len(path) # 0
<1>1. PICK n \in 0 .. MaxDepth : path \in [1 .. n -> Names]
  BY DEF Paths
<1>2. path \in Seq(Names)
  BY <1>1, SeqDef, BoundAssumption
<1>3. Len(path) = n
  BY <1>1, <1>2, BoundAssumption
<1>4. path # << >> <=> Len(path) # 0
  BY <1>2, EmptySeq
<1> QED BY <1>2, <1>3, <1>4

\* The parent of a folder is a folder or none.
LEMMA ParentTyped ==
  ASSUME NEW f \in Folders
  PROVE  ParentOf(f) \in 0 .. MaxFolders
BY BoundAssumption DEF ParentOf, Folders

\* A folder with the next name, below the end of a chain, makes it longer.
LEMMA ChainGrows ==
  ASSUME NEW n \in Nat, NEW c \in Chains(n), NEW f \in Folders,
         ParentOf(f) = IF n = 0 THEN 0 ELSE c[n],
         name[f] = path[n + 1]
  PROVE  \E d \in Chains(n + 1) : d[n + 1] = f
<1> DEFINE d == [i \in 1 .. n + 1 |-> IF i = n + 1 THEN f ELSE c[i]]
<1>1. c \in [1 .. n -> Folders]
  BY DEF Chains
<1>2. d \in [1 .. n + 1 -> Folders]
  BY <1>1
<1>3. ParentOf(d[1]) = 0
  BY DEF Chains
<1>4. ASSUME NEW i \in 2 .. n + 1
      PROVE  ParentOf(d[i]) = d[i - 1]
  BY DEF Chains
<1>5. ASSUME NEW i \in 1 .. n + 1
      PROVE  name[d[i]] = path[i]
  BY DEF Chains
<1> HIDE DEF d
<1>6. d \in Chains(n + 1)
  BY <1>2, <1>3, <1>4, <1>5 DEF Chains
<1>7. d[n + 1] = f
  BY DEF d
<1> QED BY <1>6, <1>7
----------------------------------------------------------------------------
(* The invariant. *)

\* At first there is no chain yet.
LEMMA InductiveAtFirst == Init => Inductive
<1> SUFFICES ASSUME Init
             PROVE  Inductive
  OBVIOUS
<1>1. /\ name \in [Folders -> Names]
      /\ parent \in [Folders -> 0 .. MaxFolders + 1]
      /\ path \in Paths
      /\ level = 0 /\ depth = 1 /\ found = 0 /\ climb = 0 /\ names = << >>
      /\ pc = "resolve"
  BY DEF Init
<1>2. names \in Seq(Names)
  BY <1>1
<1>3. TypeOK
  BY <1>1, <1>2, BoundAssumption DEF TypeOK
<1>4. path # << >> => depth <= Len(path)
  BY <1>1, PathTyped
<1>5. [i \in 1 .. 0 |-> 0] \in Chains(0)
  BY DEF Chains
<1>6. Descending
  BY <1>1, <1>4, <1>5 DEF Descending
<1> QED BY <1>1, <1>3, <1>6 DEF Inductive

\* What is found below the level makes the chain longer.
LEMMA MatchIsOnChain ==
  ASSUME TypeOK, Descending, Matches # {}
  PROVE  /\ Min(Matches) \in Folders
         /\ \E d \in Chains(depth) : d[depth] = Min(Matches)
<1>1. PICK c \in Chains(depth - 1) : level = IF depth = 1 THEN 0 ELSE c[depth - 1]
  BY DEF Descending
<1>2. /\ Min(Matches) \in Folders
      /\ ParentOf(Min(Matches)) = level
      /\ name[Min(Matches)] = path[depth]
  BY FirstMatch DEF Matches, Under
<1>3. depth - 1 \in Nat /\ (depth - 1) + 1 = depth /\ (depth = 1 <=> depth - 1 = 0)
  BY DEF TypeOK
<1>4. \E d \in Chains((depth - 1) + 1) : d[(depth - 1) + 1] = Min(Matches)
  BY <1>1, <1>2, <1>3, ChainGrows
<1> QED BY <1>2, <1>3, <1>4

\* Descend keeps to a chain.
LEMMA DescendKeeps == Inductive /\ Descend => Inductive'
<1> SUFFICES ASSUME Inductive, Descend
             PROVE  Inductive'
  OBVIOUS
<1>1. /\ TypeOK /\ Descending
      /\ pc = "resolve" /\ depth < Len(path) /\ Matches # {}
      /\ level' = Min(Matches) /\ depth' = depth + 1
      /\ UNCHANGED <<input, found, climb, names, pc>>
  BY DEF Inductive, Descend
<1>2. Len(path) \in 0 .. MaxDepth
  BY <1>1, PathTyped DEF TypeOK
<1>3. /\ Min(Matches) \in 0 .. MaxFolders
      /\ \E d \in Chains(depth) : d[depth] = Min(Matches)
  BY <1>1, MatchIsOnChain, BoundAssumption DEF Folders
<1>4. TypeOK'
  BY <1>1, <1>2, <1>3, BoundAssumption DEF TypeOK, input, Folders, Paths
<1>5. depth' - 1 = depth /\ depth' # 1 /\ depth' <= Len(path)
  BY <1>1, <1>2 DEF TypeOK
<1>6. PICK c \in Chains(depth) : c[depth] = Min(Matches)
  BY <1>3
<1>7. c \in Chains(depth - 1)'
  BY <1>1, <1>5, <1>6 DEF input, Chains, Folders, ParentOf
<1>8. level' = IF depth' = 1 THEN 0 ELSE c[depth' - 1]
  BY <1>1, <1>5, <1>6
<1>9. Descending'
  BY <1>1, <1>5, <1>7, <1>8 DEF Descending, input
<1> QED BY <1>1, <1>4, <1>9 DEF Inductive

\* NotFound leaves the walk as it is.
LEMMA NotFoundKeeps == Inductive /\ NotFound => Inductive'
<1> SUFFICES ASSUME Inductive, NotFound
             PROVE  Inductive'
  OBVIOUS
<1>1. /\ TypeOK /\ Descending
      /\ path # << >> => Matches = {}
      /\ pc' = "missing"
      /\ UNCHANGED <<input, level, depth, found, climb, names>>
  BY DEF Inductive, NotFound
<1>2. TypeOK'
  BY <1>1 DEF TypeOK, input, Folders, Paths
<1>3. Descending'
  BY <1>1 DEF Descending, input, Chains, Folders, ParentOf
<1>4. path' # << >> => Matches' = {}
  BY <1>1 DEF Matches, Under, Folders, ParentOf, input
<1> QED BY <1>1, <1>2, <1>3, <1>4 DEF Inductive

\* What is found ends a chain of the whole path.
LEMMA FoundKeeps == Inductive /\ Found => Inductive'
<1> SUFFICES ASSUME Inductive, Found
             PROVE  Inductive'
  OBVIOUS
<1>1. /\ TypeOK /\ Descending
      /\ depth = Len(path) /\ Matches # {}
      /\ found' = Min(Matches) /\ climb' = Min(Matches)
      /\ pc' = "climb"
      /\ UNCHANGED <<input, level, depth, names>>
  BY DEF Inductive, Found
<1>2. Len(path) \in Nat \ {0} /\ path # << >>
  BY <1>1, PathTyped DEF TypeOK
<1>3. Min(Matches) \in 0 .. MaxFolders
  BY <1>1, MatchIsOnChain, BoundAssumption DEF Folders
<1>4. TypeOK'
  BY <1>1, <1>3 DEF TypeOK, input, Folders, Paths
<1>5. PICK c \in Chains(Len(path)) : c[Len(path)] = Min(Matches)
  BY <1>1, MatchIsOnChain
<1>6. c \in Chains(Len(path))'
  BY <1>1, <1>5 DEF input, Chains, Folders, ParentOf
<1>7. /\ Len(path) \in 0 .. Len(path)
      /\ names = << >> /\ Len(names) = Len(path) - Len(path)
      /\ climb' = IF Len(path) = 0 THEN 0 ELSE c[Len(path)]
  BY <1>1, <1>2, <1>5 DEF Descending
<1>8. Climbing'
  BY <1>1, <1>2, <1>5, <1>6, <1>7 DEF Climbing, input
<1> QED BY <1>1, <1>4, <1>8 DEF Inductive

\* Climb goes one folder back on the chain.
LEMMA ClimbKeeps == Inductive /\ Climb => Inductive'
<1> SUFFICES ASSUME Inductive, Climb
             PROVE  Inductive'
  OBVIOUS
<1>1. /\ TypeOK /\ Climbing
      /\ pc = "climb" /\ climb # 0
      /\ names' = <<name[climb]>> \o names
      /\ climb' = ParentOf(climb)
      /\ UNCHANGED <<input, level, depth, found, pc>>
  BY DEF Inductive, Climb
<1>2. PICK c \in Chains(Len(path)), k \in 0 .. Len(path) :
        /\ found = c[Len(path)]
        /\ climb = IF k = 0 THEN 0 ELSE c[k]
        /\ Len(names) = Len(path) - k
        /\ \A i \in 1 .. Len(names) : names[i] = path[k + i]
  BY <1>1 DEF Climbing
<1>3. /\ Len(path) \in Nat /\ k \in 1 .. Len(path) /\ climb = c[k]
      /\ k - 1 \in 0 .. Len(path)
  BY <1>1, <1>2, PathTyped DEF TypeOK
<1>4. /\ climb \in Folders /\ name[climb] = path[k]
      /\ ParentOf(climb) = IF k - 1 = 0 THEN 0 ELSE c[k - 1]
  BY <1>2, <1>3 DEF Chains
<1>5. <<name[climb]>> \in Seq(Names) /\ Len(<<name[climb]>>) = 1
  BY <1>1, <1>4 DEF TypeOK
<1>6. /\ names' \in Seq(Names)
      /\ Len(names') = 1 + Len(names)
      /\ \A i \in 1 .. 1 + Len(names) :
           names'[i] = IF i <= 1 THEN name[climb] ELSE names[i - 1]
  BY <1>1, <1>5, ConcatProperties DEF TypeOK
<1>7. TypeOK'
  BY <1>1, <1>4, <1>6, ParentTyped DEF TypeOK, input, Folders, Paths
<1>8. ASSUME NEW i \in 1 .. Len(names')
      PROVE  names'[i] = path[(k - 1) + i]
  <2>1. CASE i = 1
    BY <2>1, <1>3, <1>4, <1>6
  <2>2. CASE i # 1
    <3>1. Len(names) \in Nat /\ i \in 2 .. 1 + Len(names)
      BY <2>2, <1>1, <1>6 DEF TypeOK
    <3>2. i - 1 \in 1 .. Len(names) /\ k + (i - 1) = (k - 1) + i
      BY <3>1, <1>3
    <3>3. names'[i] = names[i - 1]
      BY <3>1, <1>6
    <3> QED BY <3>2, <3>3, <1>2
  <2> QED BY <2>1, <2>2
<1>9. Len(names') = Len(path) - (k - 1)
  BY <1>2, <1>3, <1>6
<1>10. c \in Chains(Len(path))'
  BY <1>1, <1>2 DEF input, Chains, Folders, ParentOf
<1>11. Climbing'
  BY <1>1, <1>2, <1>3, <1>4, <1>8, <1>9, <1>10 DEF Climbing, input
<1> QED BY <1>1, <1>7, <1>11 DEF Inductive

\* A climb goes on where it was.
LEMMA ClimbingStays ==
  ASSUME Climbing, UNCHANGED <<input, found, climb, names>>
  PROVE  Climbing'
<1>1. PICK c \in Chains(Len(path)), k \in 0 .. Len(path) :
        /\ found = c[Len(path)]
        /\ climb = IF k = 0 THEN 0 ELSE c[k]
        /\ Len(names) = Len(path) - k
        /\ \A i \in 1 .. Len(names) : names[i] = path[k + i]
  BY DEF Climbing
<1>2. c \in Chains(Len(path))'
  BY <1>1 DEF input, Chains, Folders, ParentOf
<1> QED BY <1>1, <1>2 DEF Climbing, input

\* The walk up ends where there is no folder any more.
LEMMA AtRootKeeps == Inductive /\ AtRoot => Inductive'
<1> SUFFICES ASSUME Inductive, AtRoot
             PROVE  Inductive'
  OBVIOUS
<1>1. /\ TypeOK /\ Climbing /\ climb = 0
      /\ pc' = "done"
      /\ UNCHANGED <<input, level, depth, found, climb, names>>
  BY DEF Inductive, AtRoot
<1>2. TypeOK'
  BY <1>1 DEF TypeOK, input, Folders, Paths
<1>3. Climbing'
  BY <1>1, ClimbingStays
<1> QED BY <1>1, <1>2, <1>3 DEF Inductive

\* Both walks stay on one chain of folders (ResolvePath, GetPath), whatever the
\* list and the path are.
THEOREM WalksAreChains == Spec => []Inductive
<1>1. Inductive /\ [Next]_vars => Inductive'
  <2> SUFFICES ASSUME Inductive, [Next]_vars
               PROVE  Inductive'
    OBVIOUS
  <2>1. CASE UNCHANGED vars
    <3>1. UNCHANGED input /\ UNCHANGED <<level, depth, found, climb, names, pc>>
      BY <2>1 DEF vars
    <3>2. TypeOK'
      BY <3>1 DEF Inductive, TypeOK, input, Folders, Paths
    <3>3. Descending => Descending'
      BY <3>1 DEF Descending, input, Chains, Folders, ParentOf
    <3>4. Climbing => Climbing'
      BY <3>1, ClimbingStays
    <3>5. Matches' = Matches
      BY <3>1 DEF Matches, Under, Folders, ParentOf, input
    <3> QED BY <3>1, <3>2, <3>3, <3>4, <3>5 DEF Inductive, input
  <2> QED BY <2>1, NotFoundKeeps, DescendKeeps, FoundKeeps, ClimbKeeps, AtRootKeeps
       DEF Next
<1> QED BY <1>1, InductiveAtFirst, PTL DEF Spec
----------------------------------------------------------------------------
(* The properties. *)

\* The folder that ResolvePath returns lies at the path, and GetPath of it is the
\* path, for every list of folders and every path.
THEOREM PathsResolve == Spec => []ResolvesToThePath
<1>1. Inductive => ResolvesToThePath
  <2> SUFFICES ASSUME Inductive
               PROVE  ResolvesToThePath
    OBVIOUS
  <2>1. ASSUME found # 0
        PROVE  found \in Meanings
    BY <2>1 DEF Inductive, TypeOK, Descending, Climbing, Meanings
  <2>2. ASSUME pc = "done"
        PROVE  names = path
    <3>1. TypeOK /\ Climbing /\ climb = 0
      BY <2>2 DEF Inductive
    <3>2. PICK c \in Chains(Len(path)), k \in 0 .. Len(path) :
            /\ climb = IF k = 0 THEN 0 ELSE c[k]
            /\ Len(names) = Len(path) - k
            /\ \A i \in 1 .. Len(names) : names[i] = path[k + i]
      BY <3>1 DEF Climbing
    <3>3. path \in Seq(Names) /\ Len(path) \in Nat
      BY <3>1, PathTyped DEF TypeOK
    <3>4. k = 0
      BY <3>1, <3>2, <3>3 DEF Chains, Folders
    <3>5. Len(names) = Len(path) /\ \A i \in 1 .. Len(names) : names[i] = path[i]
      BY <3>2, <3>3, <3>4
    <3> QED BY <3>1, <3>3, <3>5, SeqEqual DEF TypeOK
  <2> QED BY <2>1, <2>2 DEF ResolvesToThePath
<1> QED BY <1>1, WalksAreChains, PTL

\* Where siblings differ, two chains of the same names are one.
LEMMA ChainsAgree ==
  ASSUME SiblingsDiffer, NEW n \in Nat, NEW c \in Chains(n),
         NEW m \in Nat, n <= m, NEW d \in Chains(m), NEW j \in 1 .. n
  PROVE  c[j] = d[j]
<1> DEFINE T == {i \in 1 .. n : c[i] # d[i]}
<1> SUFFICES ASSUME T # {}
             PROVE  FALSE
  OBVIOUS
<1>1. PICK i \in T : \A x \in T : i <= x
  <2>1. T \subseteq Nat
    OBVIOUS
  <2> QED BY <2>1, LeastNumber
<1>2. /\ i \in 1 .. n /\ i \in 1 .. m /\ c[i] # d[i]
      /\ i # 1 => c[i - 1] = d[i - 1]
  BY <1>1
<1>3. c[i] \in Folders /\ d[i] \in Folders /\ name[c[i]] = name[d[i]]
  BY <1>2 DEF Chains
<1>4. ParentOf(c[i]) = ParentOf(d[i])
  BY <1>2 DEF Chains
<1> QED BY <1>2, <1>3, <1>4 DEF SiblingsDiffer

\* Where siblings have different names, ResolvePath finds every path that exists,
\* for every list of folders and every path.
THEOREM PathsAreFound == Spec => []FindsWhatExists
<1>1. Inductive => FindsWhatExists
  <2> SUFFICES ASSUME Inductive, pc = "missing", SiblingsDiffer, path # << >>,
                      NEW d \in Chains(Len(path))
               PROVE  FALSE
    BY DEF FindsWhatExists, Meanings
  <2>1. TypeOK /\ Descending /\ Matches = {} /\ depth <= Len(path)
    BY DEF Inductive, Descending
  <2>2. PICK c \in Chains(depth - 1) : level = IF depth = 1 THEN 0 ELSE c[depth - 1]
    BY <2>1 DEF Descending
  <2>3. /\ Len(path) \in Nat /\ depth \in 1 .. Len(path)
        /\ depth - 1 \in Nat /\ depth - 1 <= Len(path)
    BY <2>1, PathTyped DEF TypeOK
  <2>4. d[depth] \in Folders /\ name[d[depth]] = path[depth]
    BY <2>3 DEF Chains
  <2>5. ParentOf(d[depth]) = IF depth = 1 THEN 0 ELSE d[depth - 1]
    BY <2>3 DEF Chains
  <2>6. depth # 1 => c[depth - 1] = d[depth - 1]
    <3>1. depth # 1 => depth - 1 \in 1 .. depth - 1
      BY <2>3
    <3> QED BY <2>2, <2>3, <3>1, ChainsAgree
  <2>7. d[depth] \in Matches
    BY <2>2, <2>4, <2>5, <2>6 DEF Matches, Under
  <2> QED BY <2>1, <2>7
<1> QED BY <1>1, WalksAreChains, PTL
=============================================================================
