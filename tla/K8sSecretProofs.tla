--------------------------- MODULE K8sSecretProofs ---------------------------
(***************************************************************************)
(* For any number of pods, replicas, Secrets and entries: the requests     *)
(* that inject Kubernetes Secrets implement SecretOps, what they have done *)
(* stays, and mode fail is exclusive.                                      *)
(***************************************************************************)
EXTENDS K8sSecretInjection, TLAPS

\* The entries of a pod, one by one.
LEMMA EntriesTyped ==
  ASSUME NEW q \in Requests, NEW i \in Entries(q)
  PROVE  /\ Plan[q][i] \in EntryType
         /\ Plan[q][i].name \in Names
         /\ Plan[q][i].keys \subseteq Keys
         /\ i \in Nat \ {0}
<1>1. Plan[q] \in Seq(EntryType) /\ i \in 1 .. Len(Plan[q])
  BY PlanAssumption DEF PlanAssumption, Entries
<1>2. Plan[q][i] \in EntryType /\ i \in Nat \ {0}
  BY <1>1
<1>3. QED
  BY <1>2 DEF EntryType

\* The number of entries of a pod.
LEMMA LengthTyped ==
  ASSUME NEW q \in Requests
  PROVE  Len(Plan[q]) \in Nat
  BY PlanAssumption DEF PlanAssumption

\* buildK8sSecret gives each key of the entry a value.
LEMMA DataTyped ==
  ASSUME NEW q \in Requests, NEW i \in Entries(q)
  PROVE  /\ DataOf(q, i) \in Data
         /\ \A k \in Plan[q][i].keys : DataOf(q, i)[k] # Absent
<1>1. [pod |-> q, entry |-> i] \in Sources
  BY EntriesTyped DEF Sources
<1>2. Plan[q][i].keys \subseteq Keys
  BY EntriesTyped
<1>3. DataOf(q, i) \in [Keys -> Sources \cup {Absent}]
  BY <1>1 DEF DataOf
<1>4. \A k \in Plan[q][i].keys : DataOf(q, i)[k] # Absent
  BY <1>1, <1>2, SentinelAssumption DEF DataOf, SentinelAssumption
<1>5. QED
  BY <1>3, <1>4 DEF Data

\* Merging loses no key of either side.
LEMMA MergedTyped ==
  ASSUME NEW old \in Data, NEW new \in Data
  PROVE  /\ Merged(old, new) \in Data
         /\ \A k \in Keys : old[k] # Absent \/ new[k] # Absent => Merged(old, new)[k] # Absent
  BY DEF Merged, Data

\* What is changed keeps its type.
LEMMA ChangedTyped ==
  ASSUME NEW q \in Requests, idx[q] \in Entries(q), NEW old \in Data
  PROVE  Changed(q, old) \in Data
  BY DataTyped, MergedTyped DEF Changed

\* An object is not Absent, and neither is its data.
LEMMA ObjectsTyped ==
  ASSUME NEW o \in Objects \cup {Absent}, o # Absent
  PROVE  o.data \in Data /\ o.rv \in Nat /\ o.data # Absent /\ o = [data |-> o.data, rv |-> o.rv]
  BY SentinelAssumption DEF Objects, SentinelAssumption
-----------------------------------------------------------------------------
(* The invariant. *)

\* At first there is no Secret and no copy of one.
LEMMA InductiveAtFirst == Init => Inductive
<1> SUFFICES ASSUME Init
             PROVE  Inductive
  OBVIOUS
<1>1. TypeOK
  <2>1. mode \in [Requests -> Modes] /\ owner \in [Requests -> BOOLEAN]
    BY Zenon DEF Init
  <2>2. QED
    BY <2>1, PlanAssumption DEF Init, TypeOK, PlanAssumption
<1>2. InRange
  BY DEF Init, InRange
<1>3. ViewsAgree
  BY DEF Init, ViewsAgree
<1>4. CopiesAgree
  BY DEF Init, CopiesAgree
<1>5. QED
  BY <1>1, <1>2, <1>3, <1>4 DEF Inductive

\* Steps of a request that neither read a Secret for an update nor write one.
LEMMA QuietStepsKeep ==
  ASSUME Inductive, NEW q \in Requests
  PROVE  \/ NotAsked(q) \/ Fetch(q) \/ FetchFails(q) \/ SkipMissing(q) \/ BuildFails(q)
         \/ GetNotFound(q) \/ GetSkips(q) \/ GetRefuses(q) \/ CreateConflicts(q)
         \/ UpdateConflicts(q) \/ WriteRefused(q) \/ ApiFails(q)
         => Inductive'
<1> USE DEF Inductive, server, Goto
<1>1. CASE NotAsked(q)
  <2>1. TypeOK'
    BY <1>1 DEF NotAsked, TypeOK
  <2>2. InRange'
    BY <1>1 DEF NotAsked, TypeOK, InRange, Entries
  <2>3. ViewsAgree'
    BY <1>1 DEF NotAsked, TypeOK, ViewsAgree
  <2>4. CopiesAgree'
    BY <1>1 DEF NotAsked, TypeOK, CopiesAgree, Latest, Changed, Entry
  <2>5. QED
    BY <2>1, <2>2, <2>3, <2>4
<1>2. CASE Fetch(q)
  <2>1. TypeOK'
    <3>1. PICK found \in SUBSET Wanted(q) : got' = [got EXCEPT ![q] = found]
      BY <1>2 DEF Fetch
    <3>2. found \subseteq Nat
      BY <3>1, LengthTyped DEF Wanted, Entries
    <3>3. got' \in [Requests -> SUBSET Nat]
      BY <3>1, <3>2 DEF TypeOK
    <3>4. QED
      BY <1>2, <3>3 DEF Fetch, TypeOK
  <2>2. InRange'
    <3>1. PICK found \in SUBSET Wanted(q) : got' = [got EXCEPT ![q] = found]
      BY <1>2 DEF Fetch
    <3>2. PICK i \in Wanted(q) : TRUE
      BY <1>2 DEF Fetch
    <3>3. 1 \in Entries(q)
      BY <3>2, LengthTyped DEF Wanted, Entries
    <3>4. got'[q] \subseteq Entries(q)
      BY <3>1 DEF Wanted, TypeOK
    <3>5. QED
      BY <1>2, <3>1, <3>3, <3>4 DEF Fetch, TypeOK, InRange, Entries
  <2>3. ViewsAgree'
    BY <1>2 DEF Fetch, Wanted, TypeOK, ViewsAgree
  <2>4. CopiesAgree'
    BY <1>2 DEF Fetch, Wanted, TypeOK, CopiesAgree, Latest, Changed, Entry
  <2>5. QED
    BY <2>1, <2>2, <2>3, <2>4
<1>3. CASE FetchFails(q)
  <2>1. TypeOK'
    BY <1>3 DEF FetchFails, Deny, TypeOK
  <2>2. InRange'
    BY <1>3 DEF FetchFails, Deny, TypeOK, InRange, Entries
  <2>3. ViewsAgree'
    BY <1>3 DEF FetchFails, Deny, TypeOK, ViewsAgree
  <2>4. CopiesAgree'
    BY <1>3 DEF FetchFails, Deny, TypeOK, CopiesAgree, Latest, Changed, Entry
  <2>5. QED
    BY <2>1, <2>2, <2>3, <2>4
<1>4. CASE SkipMissing(q)
  <2>1. TypeOK'
    BY <1>4 DEF SkipMissing, Advance, TypeOK
  <2>2. InRange'
    BY <1>4, LengthTyped DEF SkipMissing, Advance, TypeOK, InRange, Entries
  <2>3. ViewsAgree'
    BY <1>4 DEF SkipMissing, Advance, TypeOK, ViewsAgree
  <2>4. CopiesAgree'
    BY <1>4 DEF SkipMissing, Advance, TypeOK, CopiesAgree, Latest, Changed, Entry
  <2>5. QED
    BY <2>1, <2>2, <2>3, <2>4
<1>5. CASE BuildFails(q)
  <2>1. TypeOK'
    BY <1>5 DEF BuildFails, Deny, TypeOK
  <2>2. InRange'
    BY <1>5 DEF BuildFails, Deny, TypeOK, InRange, Entries
  <2>3. ViewsAgree'
    BY <1>5 DEF BuildFails, Deny, TypeOK, ViewsAgree
  <2>4. CopiesAgree'
    BY <1>5 DEF BuildFails, Deny, TypeOK, CopiesAgree, Latest, Changed, Entry
  <2>5. QED
    BY <2>1, <2>2, <2>3, <2>4
<1>6. CASE GetNotFound(q)
  <2>1. TypeOK'
    BY <1>6 DEF GetNotFound, Reads, TypeOK
  <2>2. InRange'
    BY <1>6 DEF GetNotFound, Reads, TypeOK, InRange, Entries
  <2>3. ViewsAgree'
    BY <1>6 DEF GetNotFound, Reads, TypeOK, ViewsAgree
  <2>4. CopiesAgree'
    BY <1>6 DEF GetNotFound, Reads, TypeOK, CopiesAgree, Latest, Changed, Entry
  <2>5. QED
    BY <2>1, <2>2, <2>3, <2>4
<1>7. CASE GetSkips(q)
  <2>1. TypeOK'
    BY <1>7 DEF GetSkips, Reads, Advance, TypeOK
  <2>2. InRange'
    BY <1>7, LengthTyped, SMTT(40) DEF GetSkips, Reads, Advance, TypeOK, InRange, Entries
  <2>3. ViewsAgree'
    BY <1>7 DEF GetSkips, Reads, Advance, TypeOK, ViewsAgree
  <2>4. CopiesAgree'
    BY <1>7 DEF GetSkips, Reads, Advance, TypeOK, CopiesAgree, Latest, Changed, Entry
  <2>5. QED
    BY <2>1, <2>2, <2>3, <2>4
<1>8. CASE GetRefuses(q)
  <2>1. TypeOK'
    BY <1>8 DEF GetRefuses, Reads, Deny, TypeOK
  <2>2. InRange'
    BY <1>8 DEF GetRefuses, Reads, Deny, TypeOK, InRange, Entries
  <2>3. ViewsAgree'
    BY <1>8 DEF GetRefuses, Reads, Deny, TypeOK, ViewsAgree
  <2>4. CopiesAgree'
    BY <1>8 DEF GetRefuses, Reads, Deny, TypeOK, CopiesAgree, Latest, Changed, Entry
  <2>5. QED
    BY <2>1, <2>2, <2>3, <2>4
<1>9. CASE CreateConflicts(q)
  <2>1. TypeOK'
    BY <1>9 DEF CreateConflicts, Deny, TypeOK
  <2>2. InRange'
    BY <1>9 DEF CreateConflicts, Deny, TypeOK, InRange, Entries
  <2>3. ViewsAgree'
    BY <1>9 DEF CreateConflicts, Deny, TypeOK, ViewsAgree
  <2>4. CopiesAgree'
    BY <1>9 DEF CreateConflicts, Deny, TypeOK, CopiesAgree, Latest, Changed, Entry
  <2>5. QED
    BY <2>1, <2>2, <2>3, <2>4
<1>10. CASE UpdateConflicts(q)
  <2>1. TypeOK'
    BY <1>10 DEF UpdateConflicts, Deny, TypeOK
  <2>2. InRange'
    BY <1>10 DEF UpdateConflicts, Deny, TypeOK, InRange, Entries
  <2>3. ViewsAgree'
    BY <1>10 DEF UpdateConflicts, Deny, TypeOK, ViewsAgree
  <2>4. CopiesAgree'
    BY <1>10 DEF UpdateConflicts, Deny, TypeOK, CopiesAgree, Latest, Changed, Entry
  <2>5. QED
    BY <2>1, <2>2, <2>3, <2>4
<1>11. CASE WriteRefused(q)
  <2>1. TypeOK'
    BY <1>11 DEF WriteRefused, Deny, TypeOK
  <2>2. InRange'
    BY <1>11 DEF WriteRefused, Deny, TypeOK, InRange, Entries
  <2>3. ViewsAgree'
    BY <1>11 DEF WriteRefused, Deny, TypeOK, ViewsAgree
  <2>4. CopiesAgree'
    BY <1>11 DEF WriteRefused, Deny, TypeOK, CopiesAgree, Latest, Changed, Entry
  <2>5. QED
    BY <2>1, <2>2, <2>3, <2>4
<1>12. CASE ApiFails(q)
  <2>1. TypeOK'
    BY <1>12, PlanAssumption DEF ApiFails, Reads, Deny, TypeOK, PlanAssumption
  <2>2. InRange'
    BY <1>12 DEF ApiFails, Reads, Deny, TypeOK, InRange, Entries
  <2>3. ViewsAgree'
    BY <1>12 DEF ApiFails, Reads, Deny, TypeOK, ViewsAgree
  <2>4. CopiesAgree'
    BY <1>12 DEF ApiFails, Reads, Deny, TypeOK, CopiesAgree, Latest, Changed, Entry
  <2>5. QED
    BY <2>1, <2>2, <2>3, <2>4
<1>13. QED
  BY <1>1, <1>2, <1>3, <1>4, <1>5, <1>6, <1>7, <1>8, <1>9, <1>10, <1>11, <1>12

\* The copy that is read agrees with the Secret, if it has its version.
LEMMA ReadKeeps ==
  ASSUME Inductive, NEW q \in Requests, GetForUpdate(q)
  PROVE  Inductive'
<1> USE DEF Inductive, GetForUpdate, server, Goto
<1> DEFINE c    == Handler[q]
           n    == Entry(q).name
           copy == [rv |-> Seen(q).rv, data |-> Changed(q, Seen(q).data)]
<1>1. idx[q] \in Entries(q) /\ c \in Replicas /\ n \in Names
  BY EntriesTyped, PlanAssumption DEF Reads, InRange, Entry, PlanAssumption
<1>2. Seen(q) = view[c][n] /\ Seen(q) \in Objects
  BY <1>1 DEF Seen, TypeOK
<1>3. copy \in Objects /\ copy.rv = view[c][n].rv /\ copy # Absent
  BY <1>1, <1>2, ChangedTyped, SentinelAssumption DEF Objects, SentinelAssumption
<1>4. obj' = [obj EXCEPT ![q] = copy] /\ obj'[q] = copy
  BY DEF TypeOK
<1> HIDE DEF copy
<1>5. TypeOK'
  BY <1>3, <1>4 DEF TypeOK
<1>6. InRange'
  BY <1>3, <1>4 DEF TypeOK, InRange, Reads, Entries
<1>7. ViewsAgree'
  BY <1>1, <1>2, <1>3, <1>4 DEF TypeOK, ViewsAgree
<1>8. CopiesAgree'
  <2> SUFFICES ASSUME NEW x \in Requests, (pc[x] = "update" /\ Latest(x))'
               PROVE  (obj[x].data = Changed(x, store[Entry(x).name].data))'
    BY DEF CopiesAgree
  <2>1. CASE x = q
    <3>1. store[n] # Absent /\ store[n].rv = view[c][n].rv
      BY <1>3, <1>4, <2>1 DEF Latest, Entry
    <3>2. view[c][n] = store[n]
      BY <1>1, <1>2, <3>1 DEF ViewsAgree
    <3>3. obj'[q].data = Changed(q, store[n].data)
      BY <1>2, <1>4, <3>2 DEF copy
    <3>4. QED
      BY <2>1, <3>3 DEF Changed, Entry
  <2>2. CASE x # q
    BY <2>2 DEF TypeOK, CopiesAgree, Latest, Changed, Entry
  <2>3. QED
    BY <2>1, <2>2
<1>9. QED
  BY <1>5, <1>6, <1>7, <1>8

\* A write gives the Secret a version that no copy has.
LEMMA WriteKeeps ==
  ASSUME Inductive, NEW q \in Requests, NEW d \in Data,
         pc[q] \in {"create", "update"},
         Write(Entry(q).name, d), Advance(q),
         UNCHANGED <<view, mode, owner, got, cause>>
  PROVE  Inductive'
<1> USE DEF Inductive, Advance, Write, Goto
<1> DEFINE n == Entry(q).name
           o == [data |-> d, rv |-> rev + 1]
<1>1. idx[q] \in Entries(q) /\ n \in Names
  BY EntriesTyped DEF InRange, Entry
<1>2. o \in Objects /\ o # Absent /\ o.rv = rev + 1
  BY SentinelAssumption DEF TypeOK, Objects, SentinelAssumption
<1>3. store' = [store EXCEPT ![n] = o]
  OBVIOUS
<1> HIDE DEF o
<1>4. TypeOK'
  BY <1>1, <1>2, <1>3 DEF TypeOK
<1>5. InRange'
  BY LengthTyped DEF TypeOK, InRange, Entries
<1>6. ViewsAgree'
  BY <1>1, <1>2, <1>3 DEF TypeOK, ViewsAgree, Objects
<1>7. CopiesAgree'
  <2> SUFFICES ASSUME NEW x \in Requests, (pc[x] = "update" /\ Latest(x))'
               PROVE  (obj[x].data = Changed(x, store[Entry(x).name].data))'
    BY DEF CopiesAgree
  <2>1. x # q /\ pc[x] = "update" /\ Entry(x)' = Entry(x) /\ obj'[x] = obj[x]
    BY DEF TypeOK, Entry
  <2>2. obj[x] \in Objects /\ obj[x].rv <= rev /\ obj[x].rv \in Nat
    BY <2>1, ObjectsTyped DEF TypeOK, InRange, ViewsAgree
  <2>3. Entry(x).name # n
    BY <1>1, <1>2, <1>3, <2>1, <2>2 DEF Latest, TypeOK
  <2>4. store'[Entry(x).name] = store[Entry(x).name]
    BY <1>3, <2>1, <2>3, EntriesTyped DEF TypeOK, InRange, Entry
  <2>5. QED
    BY <2>1, <2>4 DEF CopiesAgree, Latest, Changed, TypeOK
<1>8. QED
  BY <1>4, <1>5, <1>6, <1>7

\* What Create and Update write is data.
LEMMA WrittenTyped ==
  ASSUME Inductive, NEW q \in Requests
  PROVE  /\ pc[q] = "create" => DataOf(q, idx[q]) \in Data
         /\ pc[q] = "update" => obj[q].data \in Data
  BY DataTyped, ObjectsTyped DEF Inductive, InRange, TypeOK

\* The informers and somebody who deletes.
LEMMA OthersKeep ==
  ASSUME Inductive, NEW n \in Names
  PROVE  (\E c \in Replicas : Sync(c, n)) \/ Delete(n) => Inductive'
<1> USE DEF Inductive, server
<1>1. ASSUME NEW c \in Replicas, Sync(c, n)
      PROVE  Inductive'
  <2>1. TypeOK'
    BY <1>1 DEF Sync, TypeOK
  <2>2. InRange'
    BY <1>1 DEF Sync, InRange, Entries
  <2>3. ViewsAgree'
    BY <1>1 DEF Sync, TypeOK, ViewsAgree
  <2>4. CopiesAgree'
    BY <1>1 DEF Sync, CopiesAgree, Latest, Changed, Entry
  <2>5. QED
    BY <2>1, <2>2, <2>3, <2>4
<1>2. CASE Delete(n)
  <2>1. TypeOK'
    BY <1>2, PlanAssumption DEF Delete, TypeOK, PlanAssumption
  <2>2. InRange'
    BY <1>2 DEF Delete, InRange, Entries
  <2>3. ViewsAgree'
    BY <1>2 DEF Delete, TypeOK, ViewsAgree, Objects
  <2>4. CopiesAgree'
    BY <1>2 DEF Delete, TypeOK, CopiesAgree, Latest, Changed, Entry
  <2>5. QED
    BY <2>1, <2>2, <2>3, <2>4
<1>3. QED
  BY <1>1, <1>2

\* Every step keeps the invariant.
LEMMA InductiveIsKept == Inductive /\ [Next]_vars => Inductive'
<1> SUFFICES ASSUME Inductive, [Next]_vars
             PROVE  Inductive'
  OBVIOUS
<1>1. ASSUME NEW q \in Requests, Handle(q) \/ ApiFails(q)
      PROVE  Inductive'
  <2>1. CASE GetForUpdate(q)
    BY <2>1, ReadKeeps
  <2>2. CASE Create(q)
    BY <2>2, WriteKeeps, WrittenTyped DEF Create
  <2>3. CASE Update(q)
    BY <2>3, WriteKeeps, WrittenTyped DEF Update
  <2>4. QED
    BY <1>1, <2>1, <2>2, <2>3, QuietStepsKeep DEF Handle
<1>2. CASE UNCHANGED vars
  BY <1>2 DEF vars, server, Inductive, TypeOK, InRange, ViewsAgree, CopiesAgree,
              Entries, Latest, Changed, Entry
<1>3. QED
  BY <1>1, <1>2, OthersKeep DEF Next

\* All copies of Secrets, however stale, agree with the API server on every
\* version that it still has (createOrUpdateSecret).
THEOREM CopiesAreSound == Spec => []Inductive
  BY InductiveAtFirst, InductiveIsKept, PTL DEF Spec

\* Every variable of API server, caches and requests keeps its type.
THEOREM SecretTypeCorrect == Spec => []TypeOK
  BY CopiesAreSound, PTL DEF Inductive
-----------------------------------------------------------------------------
(* The refinement. *)

\* A Secret that is written changes in the abstract state, and nothing else does.
LEMMA DataInWritten ==
  ASSUME TypeOK, NEW n \in Names, NEW d \in Data, Write(n, d)
  PROVE  DataIn(store') = [DataIn(store) EXCEPT ![n] = d]
<1> DEFINE o == [data |-> d, rv |-> rev + 1]
<1>1. o # Absent /\ o.data = d
  BY SentinelAssumption DEF TypeOK, Objects, SentinelAssumption
<1>2. store' = [store EXCEPT ![n] = o]
  BY DEF Write
<1> HIDE DEF o
<1>3. QED
  BY <1>1, <1>2 DEF TypeOK, DataIn

\* A Secret that is deleted is gone from the abstract state.
LEMMA DataInDeleted ==
  ASSUME TypeOK, NEW n \in Names,
         store' = [store EXCEPT ![n] = Absent]
  PROVE  DataIn(store') = [DataIn(store) EXCEPT ![n] = Absent]
  BY DEF TypeOK, DataIn

\* Every step is one of SecretOps, or changes nothing that SecretOps knows.
LEMMA StepsImplement ==
  Inductive /\ [Next]_vars => [SO!Next /\ UNCHANGED mode]_<<DataIn(store), mode>>
<1> SUFFICES ASSUME Inductive, [Next]_vars
             PROVE  \/ SO!Next /\ UNCHANGED mode
                    \/ UNCHANGED <<DataIn(store), mode>>
  OBVIOUS
<1> USE DEF Inductive, server
<1>1. ASSUME NEW q \in Requests, Handle(q) \/ ApiFails(q)
      PROVE  \/ SO!Next /\ UNCHANGED mode
             \/ UNCHANGED <<DataIn(store), mode>>
  <2> DEFINE n == Entry(q).name
             d == DataOf(q, idx[q])
             e == [name |-> n, data |-> d]
  <2>1. CASE Create(q)
    <3>1. idx[q] \in Entries(q) /\ n \in Names
      BY <2>1, EntriesTyped DEF Create, InRange, Entry
    <3>2. DataIn(store') = [DataIn(store) EXCEPT ![n] = d]
      BY <2>1, <3>1, DataInWritten, DataTyped DEF Create
    <3>3. DataIn(store)[n] = Absent
      BY <2>1, <3>1 DEF Create, DataIn
    <3>4. SO!Create(e)
      BY <3>2, <3>3 DEF SO!Create
    <3>5. QED
      BY <2>1, <3>1, <3>4 DEF SO!Next, Create, Entry
  <2>2. CASE Update(q)
    <3>1. idx[q] \in Entries(q) /\ n \in Names
      BY <2>2, EntriesTyped DEF Update, InRange, Entry
    <3>2. store[n] # Absent /\ obj[q].data = Changed(q, store[n].data)
      BY <2>2 DEF Update, Latest, CopiesAgree
    <3>3. DataIn(store)[n] = store[n].data /\ DataIn(store)[n] # Absent
      BY <3>1, <3>2, ObjectsTyped DEF DataIn, TypeOK
    <3>4. DataIn(store') = [DataIn(store) EXCEPT ![n] = Changed(q, DataIn(store)[n])]
      BY <2>2, <3>1, <3>2, <3>3, DataInWritten, WrittenTyped DEF Update
    <3>5. CASE mode[q] = "merge"
      <4>1. SO!Merge(e)
        BY <3>3, <3>4, <3>5 DEF SO!Merge, SO!Merged, Changed, Merged
      <4>2. QED
        BY <2>2, <3>1, <3>5, <4>1 DEF SO!Next, Update, Entry
    <3>6. CASE mode[q] = "overwrite"
      <4>1. SO!Overwrite(e)
        BY <3>3, <3>4, <3>6 DEF SO!Overwrite, Changed
      <4>2. QED
        BY <2>2, <3>1, <3>6, <4>1 DEF SO!Next, Update, Entry
    <3>7. QED
      BY <2>2, <3>5, <3>6 DEF Update, InRange
  <2>3. CASE ~ Create(q) /\ ~ Update(q)
    <3>1. UNCHANGED <<store, mode>>
      BY <1>1, <2>3 DEF Handle, ApiFails, NotAsked, Fetch, FetchFails, SkipMissing,
                        BuildFails, GetNotFound, GetSkips, GetRefuses, GetForUpdate,
                        CreateConflicts, UpdateConflicts, WriteRefused
    <3>2. QED
      BY <3>1 DEF DataIn
  <2>4. QED
    BY <2>1, <2>2, <2>3
<1>2. ASSUME NEW c \in Replicas, NEW n \in Names, Sync(c, n)
      PROVE  UNCHANGED <<DataIn(store), mode>>
  BY <1>2 DEF Sync, DataIn
<1>3. ASSUME NEW n \in Names, Delete(n)
      PROVE  SO!Next /\ UNCHANGED mode
  <2>1. SO!Delete(n)
    BY <1>3, DataInDeleted DEF Delete, SO!Delete
  <2>2. QED
    BY <1>3, <2>1 DEF SO!Next, Delete
<1>4. CASE UNCHANGED vars
  BY <1>4 DEF vars, DataIn
<1>5. QED
  BY <1>1, <1>2, <1>3, <1>4 DEF Next

\* Every write acts on the Secret as it is at that moment, the way the mode says,
\* however stale the copy that was read (createOrUpdateSecret).
THEOREM ImplementsSecretOps == Spec => ActsAtomically
<1>1. Init => SO!Init
  <2> SUFFICES ASSUME Init
               PROVE  SO!Init
    OBVIOUS
  <2>1. DataIn(store) = [n \in Names |-> Absent]
    BY DEF Init, DataIn
  <2>2. mode \in [Requests -> Modes]
    BY Zenon DEF Init
  <2>3. QED
    BY <2>1, <2>2 DEF SO!Init, SO!Modes, Modes
<1>2. QED
  BY <1>1, StepsImplement, CopiesAreSound, PTL DEF Spec, ActsAtomically, SO!Spec
-----------------------------------------------------------------------------
(* What is done stays. *)

\* An entry is done when its Secret is written, or left alone because it exists.
LEMMA WaysToBeDone ==
  ASSUME Inductive, [Next]_vars, NEW q \in Requests, NEW i \in Done(q)'
  PROVE  \/ i \in Done(q)
         \/ i = idx[q] /\ i \in got[q] /\ (Create(q) \/ Update(q) \/ GetSkips(q))
<1> USE DEF Inductive, server, Done
<1>1. ASSUME NEW x \in Requests, Handle(x) \/ ApiFails(x)
      PROVE  \/ i \in Done(q)
             \/ i = idx[q] /\ i \in got[q] /\ (Create(q) \/ Update(q) \/ GetSkips(q))
  <2>1. CASE Create(x) \/ Update(x) \/ GetSkips(x)
    BY <2>1 DEF Create, Update, GetSkips, Advance, TypeOK
  <2>2. CASE SkipMissing(x)
    BY <2>2 DEF SkipMissing, Advance, TypeOK
  <2>3. CASE Fetch(x)
    <3>1. \A j \in got'[x] : ~ j < idx'[x]
      BY <2>3, LengthTyped DEF Fetch, Wanted, Entries, TypeOK, InRange
    <3>2. QED
      BY <2>3, <3>1 DEF Fetch, TypeOK
  <2>4. CASE ~ (Create(x) \/ Update(x) \/ GetSkips(x) \/ SkipMissing(x) \/ Fetch(x))
    BY <1>1, <2>4 DEF Handle, ApiFails, NotAsked, FetchFails, BuildFails, GetNotFound,
                      GetRefuses, GetForUpdate, CreateConflicts, UpdateConflicts,
                      WriteRefused
  <2>5. QED
    BY <2>1, <2>2, <2>3, <2>4
<1>2. CASE UNCHANGED vars \/ \E n \in Names : Delete(n) \/ \E c \in Replicas : Sync(c, n)
  BY <1>2 DEF vars, Sync, Delete
<1>3. QED
  BY <1>1, <1>2 DEF Next

\* As long as nobody deletes, only writes change a Secret, and requests learn of
\* more entries only.
LEMMA WaysToChange ==
  ASSUME Inductive, [Next]_vars, deletes' = 0
  PROVE  /\ deletes = 0 /\ mode' = mode
         /\ \A q \in Requests : got[q] \subseteq got'[q]
         /\ store' = store \/ \E q \in Requests : Create(q) \/ Update(q)
<1> USE DEF Inductive, server
<1>1. ASSUME NEW q \in Requests, Handle(q) \/ ApiFails(q)
      PROVE  /\ deletes = 0 /\ mode' = mode
             /\ \A x \in Requests : got[x] \subseteq got'[x]
             /\ store' = store \/ Create(q) \/ Update(q)
  <2>1. CASE Fetch(q)
    BY <2>1 DEF Fetch, TypeOK, InRange
  <2>2. CASE Create(q) \/ Update(q)
    BY <2>2 DEF Create, Update, Write
  <2>3. CASE ~ (Create(q) \/ Update(q) \/ Fetch(q))
    BY <1>1, <2>3 DEF Handle, ApiFails, NotAsked, FetchFails, SkipMissing, BuildFails,
                      GetNotFound, GetSkips, GetRefuses, GetForUpdate,
                      CreateConflicts, UpdateConflicts, WriteRefused
  <2>4. QED
    BY <2>1, <2>2, <2>3
<1>2. CASE UNCHANGED vars \/ \E n \in Names : Delete(n) \/ \E c \in Replicas : Sync(c, n)
  BY <1>2 DEF vars, Sync, Delete, TypeOK
<1>3. QED
  BY <1>1, <1>2 DEF Next

\* A write leaves what is there and keeps the keys that are there, unless it
\* overwrites; it brings the keys of its own entry.
LEMMA WritesKeep ==
  ASSUME Inductive, NEW q \in Requests, Create(q) \/ Update(q)
  PROVE  /\ idx[q] \in got[q] /\ Entry(q).name \in Names
         /\ \E d \in Data :
              /\ \A n \in Names \ {Entry(q).name} : store'[n] = store[n]
              /\ store'[Entry(q).name] # Absent
              /\ store'[Entry(q).name].data = d
              /\ mode[q] = "merge" => \A k \in Entry(q).keys : d[k] # Absent
              /\ store[Entry(q).name] # Absent /\ mode[q] # "overwrite" =>
                   \A k \in Keys :
                     store[Entry(q).name].data[k] # Absent => d[k] # Absent
<1> DEFINE n == Entry(q).name
           new == DataOf(q, idx[q])
           d == IF Create(q) THEN new ELSE obj[q].data
<1> USE DEF Inductive
<1>1. idx[q] \in Entries(q) /\ idx[q] \in got[q] /\ n \in Names /\ Entry(q).keys \subseteq Keys
  BY EntriesTyped DEF Create, Update, InRange, Entry
<1>2. new \in Data /\ \A k \in Entry(q).keys : new[k] # Absent
  BY <1>1, DataTyped DEF Entry
<1>3. d \in Data /\ Write(n, d)
  BY WrittenTyped DEF Create, Update
<1>4. store'[n] # Absent /\ store'[n].data = d
  BY <1>1, <1>3, SentinelAssumption DEF Write, TypeOK, Objects, SentinelAssumption
<1>5. \A m \in Names \ {n} : store'[m] = store[m]
  BY <1>1, <1>3 DEF Write, TypeOK
<1>6. CASE Create(q)
  BY <1>1, <1>2, <1>3, <1>4, <1>5, <1>6 DEF Create
<1>7. CASE ~ Create(q) /\ mode[q] = "merge"
  <2>1. store[n] # Absent /\ store[n].data \in Data
    BY <1>1, <1>7, ObjectsTyped DEF Update, Latest, TypeOK
  <2>2. d = Merged(store[n].data, new)
    BY <1>7 DEF Update, CopiesAgree, Changed
  <2>3. \A k \in Keys : store[n].data[k] # Absent \/ new[k] # Absent => d[k] # Absent
    BY <1>2, <2>1, <2>2, MergedTyped
  <2>4. QED
    BY <1>1, <1>2, <1>3, <1>4, <1>5, <2>3
<1>8. CASE ~ Create(q) /\ mode[q] = "overwrite"
  BY <1>1, <1>3, <1>4, <1>5, <1>8
<1>9. QED
  BY <1>6, <1>7, <1>8 DEF Update, InRange

\* The invariant and DoneStays carry over to the next state.
LEMMA DoneStaysIsKept ==
  Inductive /\ DoneStays /\ [Next]_vars => DoneStays'
<1> SUFFICES ASSUME Inductive, DoneStays, [Next]_vars, deletes' = 0,
                    NEW q \in Requests, NEW i \in Done(q)'
             PROVE  Stays(q, i)'
  BY DEF DoneStays
<1> DEFINE n == Plan[q][i].name
<1>1. deletes = 0 /\ mode' = mode /\ \A x \in Requests : got[x] \subseteq got'[x]
  BY WaysToChange
<1>2. NeverOverwritten(n)' => NeverOverwritten(n)
  BY <1>1 DEF NeverOverwritten
<1>3. i \in Entries(q)
  BY WaysToBeDone DEF Done, Inductive, InRange
<1>4. n \in Names /\ Plan[q][i].keys \subseteq Keys
  BY <1>3, EntriesTyped
<1>5. CASE i \in Done(q)
  <2>1. Stays(q, i)
    BY <1>1, <1>5 DEF DoneStays
  <2>2. CASE store' = store
    BY <1>1, <1>2, <2>1, <2>2 DEF Stays
  <2>3. ASSUME NEW x \in Requests, Create(x) \/ Update(x), Entry(x).name = n
        PROVE  Stays(q, i)'
    <3>1. PICK d \in Data :
            /\ store'[n] # Absent /\ store'[n].data = d
            /\ store[n] # Absent /\ mode[x] # "overwrite" =>
                 \A k \in Keys : store[n].data[k] # Absent => d[k] # Absent
      BY <2>3, WritesKeep
    <3>2. idx[x] \in got[x] /\ Plan[x][idx[x]].name = n
      BY <2>3, WritesKeep DEF Entry
    <3>3. NeverOverwritten(n) => mode[x] # "overwrite"
      BY <3>2 DEF NeverOverwritten
    <3>4. QED
      BY <1>1, <1>2, <1>4, <2>1, <3>1, <3>3 DEF Stays
  <2>4. ASSUME NEW x \in Requests, Create(x) \/ Update(x), Entry(x).name # n
        PROVE  Stays(q, i)'
    <3>1. store'[n] = store[n]
      BY <1>4, <2>4, WritesKeep
    <3>2. QED
      BY <1>1, <1>2, <2>1, <3>1 DEF Stays
  <2>5. QED
    BY <2>2, <2>3, <2>4, WaysToChange
<1>6. CASE i = idx[q] /\ (Create(q) \/ Update(q))
  BY <1>1, <1>6, WritesKeep DEF Stays, Entry
<1>7. CASE i = idx[q] /\ GetSkips(q)
  <2>1. store[n] # Absent
    BY <1>1, <1>4, <1>7, PlanAssumption
       DEF GetSkips, Reads, Seen, Entry, Inductive, ViewsAgree, PlanAssumption
  <2>2. store' = store /\ mode[q] = "skip-if-exists"
    BY <1>7 DEF GetSkips, server
  <2>3. QED
    BY <1>1, <2>1, <2>2 DEF Stays
<1>8. QED
  BY <1>5, <1>6, <1>7, WaysToBeDone

\* What a request has done is there until somebody deletes it, and the keys it
\* has merged, whatever others merge at the same time (createOrUpdateSecret).
THEOREM WhatIsDoneStays == Spec => []DoneStays
<1>1. Init => DoneStays
  BY DEF Init, DoneStays, Done
<1>2. QED
  BY <1>1, DoneStaysIsKept, CopiesAreSound, PTL DEF Spec

\* Mode fail ends a request as done only by creating what was not there.
LEMMA FailCreates ==
  ASSUME Inductive, NEW q \in Requests, mode[q] = "fail",
         Create(q) \/ Update(q) \/ GetSkips(q)
  PROVE  Create(q) /\ store[Entry(q).name] = Absent
  BY DEF Inductive, InRange, Create, Update, GetSkips

\* No step gives a second entry in mode fail the Secret.
LEMMA FailIsExclusiveIsKept ==
  Inductive /\ DoneStays /\ FailIsExclusive /\ [Next]_vars => FailIsExclusive'
<1> SUFFICES ASSUME Inductive, DoneStays, FailIsExclusive, [Next]_vars, deletes' = 0,
                    NEW q \in Requests, NEW x \in Requests,
                    NEW i \in Done(q)', NEW j \in Done(x)',
                    mode'[q] = "fail", mode'[x] = "fail",
                    Plan[q][i].name = Plan[x][j].name
             PROVE  q = x /\ i = j
  BY DEF FailIsExclusive
<1>1. deletes = 0 /\ mode' = mode
  BY WaysToChange
<1>2. CASE i \in Done(q) /\ j \in Done(x)
  BY <1>1, <1>2 DEF FailIsExclusive
<1>3. CASE i \in Done(q) /\ j \notin Done(x)
  <2>1. j = idx[x] /\ store[Entry(x).name] = Absent
    BY <1>1, <1>3, WaysToBeDone, FailCreates
  <2>2. store[Plan[q][i].name] # Absent
    BY <1>1, <1>3 DEF DoneStays, Stays
  <2>3. QED
    BY <2>1, <2>2 DEF Entry
<1>4. CASE i \notin Done(q) /\ j \in Done(x)
  <2>1. i = idx[q] /\ store[Entry(q).name] = Absent
    BY <1>1, <1>4, WaysToBeDone, FailCreates
  <2>2. store[Plan[x][j].name] # Absent
    BY <1>1, <1>4 DEF DoneStays, Stays
  <2>3. QED
    BY <2>1, <2>2 DEF Entry
<1>5. CASE i \notin Done(q) /\ j \notin Done(x)
  <2>1. i = idx[q] /\ j = idx[x] /\ Create(q) /\ Create(x)
    BY <1>1, <1>5, WaysToBeDone, FailCreates
  <2>2. pc'[q] # "create" /\ pc[x] = "create" /\ pc' = [pc EXCEPT ![q] = pc'[q]]
    BY <2>1 DEF Create, Advance, Goto, Inductive, TypeOK
  <2>3. pc'[x] # "create"
    BY <2>1 DEF Create, Advance, Goto, Inductive, TypeOK
  <2>4. QED
    BY <2>1, <2>2, <2>3 DEF Inductive, TypeOK
<1>6. QED
  BY <1>2, <1>3, <1>4, <1>5

\* Mode fail: of all entries that name a Secret, one at most gets it
\* (createOrUpdateSecret).
THEOREM FailExcludes == Spec => []FailIsExclusive
<1>1. Init => FailIsExclusive
  BY DEF Init, FailIsExclusive, Done
<1>2. QED
  BY <1>1, FailIsExclusiveIsKept, WhatIsDoneStays, CopiesAreSound, PTL DEF Spec
=============================================================================
