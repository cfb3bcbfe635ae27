------------------------ MODULE SidecarAgentProofs ------------------------
(***************************************************************************)
(* What holds of SidecarAgent for every configuration and every bound.     *)
(***************************************************************************)
EXTENDS SidecarAgentInv, TLAPS

\* The values an entry writes are well-typed whatever Keeper holds.
LEMMA SnapshotType ==
  ASSUME TypeOK, NEW j \in Jobs
  PROVE  /\ Snapshot(j) \subseteq Writes
         /\ j \in Secrets => Value(j, Name[j]) \in Contents
  <1>1. \A t \in Targets(j) : t.rec \in Records /\ t.path \in Paths
    BY ConfigAssumption DEF Targets, Folders
  <1>2. \A r \in Records : Value(j, r) \in Contents
    BY DEF TypeOK, Value, Contents
  <1>3. Snapshot(j) \subseteq Writes
    BY <1>1, <1>2 DEF Snapshot, Offered, Writes
  <1> QED BY <1>2, <1>3, ConfigAssumption

\* What a process starts with.
LEMMA StartValues ==
  /\ 1 \in Jobs
  /\ 1 \in 1 .. MaxAttempts
  /\ NoResult \in [Jobs -> Results]
  /\ EmptyCache \in [Records -> Cached \cup {Absent}]
<1>1. 1 \in Jobs /\ 1 \in 1 .. MaxAttempts
  BY ConfigAssumption, BoundAssumption DEF Jobs
<1>2. NoResult \in [Jobs -> Results]
  BY DEF NoResult, Results
<1>3. EmptyCache \in [Records -> Cached \cup {Absent}]
  BY DEF EmptyCache
<1> QED BY <1>1, <1>2, <1>3

\* The types, with what the program point says of the other variables: the
\* value being written is there when it is filled and renamed.
LEMMA TypeInvariant == Spec => []TypeInv
<1>1. Init => TypeInv
  <2> SUFFICES ASSUME Init PROVE TypeInv
    OBVIOUS
  <2>1. ver \in [Records -> 1 .. MaxVersion] /\ faults \in 0 .. MaxFaults
    BY BoundAssumption DEF Init
  <2>2. TypeOK
    BY <2>1, StartValues DEF Init, TypeOK, Points
  <2>3. Shape
    BY DEF Init, Shape
  <2> QED BY <2>2, <2>3 DEF TypeInv
<1>2. TypeInv /\ [Next]_vars => TypeInv'
  <2> SUFFICES ASSUME TypeInv, [Next]_vars PROVE TypeInv'
    OBVIOUS
  <2> USE ConfigAssumption, BoundAssumption DEF TypeInv, TypeOK, Shape, Points, Results
  <2>1. cur # Absent => cur.path \in Paths /\ cur.data \in Contents
    BY DEF Writes
  <2>2. CASE UNCHANGED vars
    BY <2>2 DEF vars, keeper, volume, memory
  <2>3. ASSUME NEW r \in Records, Rotate(r) PROVE TypeInv'
    BY <2>3 DEF Rotate, volume, memory
  <2>4. ASSUME NEW r \in Records, ToggleShared(r) PROVE TypeInv'
    BY <2>4 DEF ToggleShared, volume, memory
  <2>5. ASSUME NEW j \in Jobs, ToggleAvailable(j) PROVE TypeInv'
    BY <2>5 DEF ToggleAvailable, volume, memory
  <2>6. CASE Tick
    <3>1. \A r \in Records : cache'[r] \in Cached \cup {Absent}
      BY <2>6 DEF Tick, Cached
    <3> QED BY <2>6, <3>1 DEF Tick, keeper, volume
  <2>7. CASE Terminate
    <3>1. faults' \in 0 .. MaxFaults
      BY <2>7 DEF Terminate, Fault
    <3> QED BY <2>7, <3>1, StartValues DEF Terminate, Stops, keeper, volume
  <2>8. CASE Crash
    <3>1. faults' \in 0 .. MaxFaults
      BY <2>8 DEF Crash, Fault
    <3> QED BY <2>8, <3>1, StartValues DEF Crash, Stops, keeper, volume
  <2>9. CASE FillFails
    BY <2>9 DEF FillFails, WriteFails, Fault, keeper, volume
  <2>10. CASE RenameFails
    BY <2>10, <2>1 DEF RenameFails, WriteFails, Fault, keeper
  <2>11. ASSUME NEW w \in todo, OpenFails(w) PROVE TypeInv'
    BY <2>11 DEF OpenFails, WriteFails, Fault, keeper, volume
  <2>12. CASE Start
    BY <2>12, StartValues DEF Start, BeginCycle, keeper, volume
  <2>13. CASE FetchSucceeds
    <3>1. Snapshot(job) \subseteq Writes
      BY SnapshotType
    <3>2. cache' \in [Records -> Cached \cup {Absent}]
      BY <2>13, SnapshotType DEF FetchSucceeds, Cached
    <3> QED BY <2>13, <3>1, <3>2 DEF FetchSucceeds, keeper, volume
  <2>14. CASE FetchFails
    BY <2>14 DEF FetchFails, keeper, volume, memory
  <2>15. CASE FolderFails
    BY <2>15 DEF FolderFails, keeper, volume
  <2>16. CASE Retry
    BY <2>16 DEF Retry, keeper, volume
  <2>17. CASE CacheHit
    BY <2>17 DEF CacheHit, Fresh, Cached, Writes, keeper, volume
  <2>18. CASE CacheMiss
    BY <2>18 DEF CacheMiss, keeper, volume
  <2>19. ASSUME NEW w \in todo, OpenTmp(w) PROVE TypeInv'
    <3>1. w \in Writes /\ w # Absent
      BY SentinelAssumption
    <3> QED BY <2>19, <3>1 DEF OpenTmp, keeper, Writes
  <2>20. ASSUME NEW w \in todo, OpenDenied(w) PROVE TypeInv'
    BY <2>20 DEF OpenDenied, WriteFails, keeper, volume
  <2>21. CASE Fill
    BY <2>21, <2>1 DEF Fill, keeper, memory, Writes
  <2>22. CASE Rename
    BY <2>22, <2>1 DEF Rename, keeper, Writes
  <2>23. CASE NextJob
    <3>1. job' \in Jobs
      BY <2>23 DEF NextJob, Jobs
    <3> QED BY <2>23, <3>1, StartValues DEF NextJob, keeper, volume
  <2>24. CASE InitialFails
    BY <2>24, StartValues DEF InitialFails, Stops, keeper, volume
  <2>25. CASE InitDone
    BY <2>25, StartValues DEF InitDone, Stops, keeper, volume
  <2>26. CASE CycleDone
    BY <2>26 DEF CycleDone, keeper, volume
  <2>27. CASE Refresh
    BY <2>27, StartValues DEF Refresh, BeginCycle, keeper, volume
  <2> QED
    BY <2>2, <2>3, <2>4, <2>5, <2>6, <2>7, <2>8, <2>9, <2>10, <2>11, <2>12,
       <2>13, <2>14, <2>15, <2>16, <2>17, <2>18, <2>19, <2>20, <2>21, <2>22,
       <2>23, <2>24, <2>25, <2>26, <2>27
    DEF Next, Environment, Faulty, Agent
<1> QED BY <1>1, <1>2, PTL DEF Spec

\* The process and the volume keep the types that TypeOK gives them
\* (pkg/sidecar: Agent, SecretCache, the files of writeSecretFile).
THEOREM TypeCorrect == Spec => []TypeOK
<1>1. TypeInv => TypeOK
  BY DEF TypeInv
<1> QED BY <1>1, TypeInvariant, PTL
----------------------------------------------------------------------------
(* The disjuncts of Next, grouped by what they touch. *)

ByStopping == Terminate \/ Crash \/ InitialFails \/ InitDone

ByFetching ==
  FetchSucceeds \/ FetchFails \/ FolderFails \/ Retry \/ CacheHit \/ CacheMiss

ByWriting ==
  \/ Fill \/ Rename \/ FillFails \/ RenameFails
  \/ \E w \in todo : OpenTmp(w) \/ OpenDenied(w) \/ OpenFails(w)

ByCycling == Start \/ NextJob \/ CycleDone \/ Refresh

\* Every step of the agent is in one of these groups.
LEMMA Groups ==
  ASSUME [Next]_vars
  PROVE  \/ Environment \/ UNCHANGED vars
         \/ ByStopping \/ ByFetching \/ ByWriting \/ ByCycling
BY DEF Next, Faulty, Agent, ByStopping, ByFetching, ByWriting, ByCycling

\* What a fetch puts into the cache is a cache entry.
LEMMA NewEntry ==
  ASSUME TypeOK, NEW j \in Jobs, j \in Secrets
  PROVE  [data |-> Value(j, Name[j]), age |-> 0] \in Cached \ {Absent}
<1>1. Value(j, Name[j]) \in Contents
  BY SnapshotType
<1>2. 0 \in 0 .. MaxAge + 1
  BY BoundAssumption
<1> QED BY <1>1, <1>2, SentinelAssumption DEF Cached

\* A tick makes a cache entry older, within the bound of its age.
LEMMA AgedEntry ==
  ASSUME TypeOK, NEW r \in Records, cache[r] # Absent, cache[r].age <= MaxAge
  PROVE  [data |-> cache[r].data, age |-> cache[r].age + 1] \in Cached \ {Absent}
<1>1. cache[r] \in Cached
  BY DEF TypeOK
<1>2. cache[r].age + 1 \in 0 .. MaxAge + 1
  BY <1>1, BoundAssumption DEF Cached
<1> QED BY <1>1, <1>2, SentinelAssumption DEF Cached

\* Readers never find a partly written file: the file that is renamed is
\* complete, whatever was left behind by an earlier process.
LEMMA AtomicStep ==
  ASSUME TypeInv, Atomic, [Next]_vars
  PROVE  Atomic'
<1> USE DEF Atomic
<1>1. CASE Environment \/ UNCHANGED vars
  BY <1>1 DEF Environment, Rotate, ToggleShared, ToggleAvailable, Tick, vars,
              volume, memory
<1>2. CASE ByStopping
  BY <1>2 DEF ByStopping, Terminate, Crash, InitialFails, InitDone, Stops, volume
<1>3. CASE ByFetching
  BY <1>3 DEF ByFetching, FetchSucceeds, FetchFails, FolderFails, Retry,
              CacheHit, CacheMiss, volume
<1>4. CASE ByCycling
  BY <1>4 DEF ByCycling, Start, NextJob, CycleDone, Refresh, BeginCycle, volume
<1>5. CASE ByWriting
  <2>1. CASE Fill
    BY <2>1 DEF Fill, memory, TypeInv, TypeOK, Shape, Writes
  <2>2. CASE Rename
    BY <2>2, SentinelAssumption
    DEF Rename, TypeInv, TypeOK, Shape, Writes
  <2>3. CASE FillFails \/ RenameFails
    BY <2>3 DEF FillFails, RenameFails, WriteFails, volume
  <2>4. CASE \E w \in todo : OpenTmp(w) \/ OpenDenied(w) \/ OpenFails(w)
    BY <2>4 DEF OpenTmp, OpenDenied, OpenFails, WriteFails, volume
  <2> QED BY <1>5, <2>1, <2>2, <2>3, <2>4 DEF ByWriting
<1> QED BY <1>1, <1>2, <1>3, <1>4, <1>5, Groups

\* A value in flight is one that its entry may write.
LEMMA InFlightStep ==
  ASSUME TypeInv, InFlight, Known, [Next]_vars
  PROVE  InFlight'
<1> USE DEF InFlight, Pending
<1>1. CASE Environment \/ UNCHANGED vars
  <2>1. Pending' = Pending /\ job' = job
    BY <1>1 DEF Environment, Rotate, ToggleShared, ToggleAvailable, Tick, vars,
                memory
  <2>2. \A r \in Records : cache[r] # Absent =>
          cache'[r] # Absent /\ cache'[r].data = cache[r].data
    <3>1. CASE Tick
      BY <3>1, AgedEntry DEF Tick, TypeInv, TypeOK
    <3>2. CASE UNCHANGED cache
      BY <3>2
    <3> QED BY <1>1, <3>1, <3>2
         DEF Environment, Rotate, ToggleShared, ToggleAvailable, vars, memory
  <2>3. job \in Secrets => Name[job] \in Records
    BY ConfigAssumption
  <2> QED BY <2>1, <2>2, <2>3 DEF Targets
<1>2. CASE ByStopping
  BY <1>2 DEF ByStopping, Terminate, Crash, InitialFails, InitDone, Stops
<1>3. CASE ByFetching
  <2>1. CASE FetchSucceeds
    <3>1. Pending' = Snapshot(job) /\ job' = job
      BY <2>1 DEF FetchSucceeds, TypeInv, Shape
    <3>2. \A w \in Snapshot(job) : \E t \in Targets(job) :
            w = [path |-> t.path, data |-> Value(job, t.rec)]
      BY DEF Snapshot, Offered
    <3>3. ASSUME job \in Secrets
          PROVE  /\ cache'[Name[job]] # Absent
                 /\ cache'[Name[job]].data = Value(job, Name[job])
      <4>1. Name[job] \in Records
        BY <3>3, ConfigAssumption
      <4>2. cache'[Name[job]] = [data |-> Value(job, Name[job]), age |-> 0]
        BY <2>1, <3>3, <4>1 DEF FetchSucceeds, TypeInv, TypeOK
      <4>3. TypeOK /\ job \in Jobs
        BY DEF TypeInv, TypeOK
      <4>4. [data |-> Value(job, Name[job]), age |-> 0] # Absent
        BY <3>3, <4>3, NewEntry
      <4> QED BY <4>2, <4>4
    <3>4. \A t \in Targets(job) : job \in Secrets => t.rec = Name[job]
      BY DEF Targets
    <3>5. Targets(job)' = Targets(job)
      BY <3>1 DEF Targets
    <3> QED BY <3>1, <3>2, <3>3, <3>4, <3>5 DEF Value
  <2>2. CASE CacheHit
    <3>1. job \in Secrets /\ Name[job] \in Records
      BY <2>2, ConfigAssumption DEF CacheHit, TypeInv, Shape
    <3>2. Pending' = {[path |-> Path[job], data |-> cache[Name[job]].data]}
      BY <2>2 DEF CacheHit, TypeInv, Shape
    <3>3. cache[Name[job]] # Absent /\ cache[Name[job]].data.rec = Name[job]
      BY <2>2, <3>1 DEF CacheHit, Fresh, Known
    <3>4. job' = job /\ cache' = cache
      BY <2>2 DEF CacheHit
    <3>5. [rec |-> Name[job], path |-> Path[job]] \in Targets(job)'
      BY <3>1, <3>4 DEF Targets
    <3>6. \A w \in Pending' :
            w.path = Path[job] /\ w.data = cache[Name[job]].data
      BY <3>2
    <3> QED BY <3>1, <3>3, <3>4, <3>5, <3>6
  <2>3. CASE FetchFails \/ FolderFails \/ Retry \/ CacheMiss
    BY <2>3 DEF FetchFails, FolderFails, Retry, CacheMiss, memory, TypeInv, Shape
  <2> QED BY <1>3, <2>1, <2>2, <2>3 DEF ByFetching
<1>4. CASE ByCycling
  BY <1>4 DEF ByCycling, Start, NextJob, CycleDone, Refresh, BeginCycle, TypeInv, Shape
<1>5. CASE ByWriting
  <2>1. CASE Fill \/ Rename
    BY <2>1 DEF Fill, Rename, memory
  <2>2. CASE FillFails \/ RenameFails
    BY <2>2 DEF FillFails, RenameFails, WriteFails
  <2>3. CASE \E w \in todo : OpenTmp(w) \/ OpenDenied(w) \/ OpenFails(w)
    BY <2>3 DEF OpenTmp, OpenDenied, OpenFails, WriteFails
  <2> QED BY <1>5, <2>1, <2>2, <2>3 DEF ByWriting
<1> QED BY <1>1, <1>2, <1>3, <1>4, <1>5, Groups

\* Keeper had every value that is cached, in flight or on the volume.
LEMMA KnownStep ==
  ASSUME TypeInv, Atomic, InFlight, Known, [Next]_vars
  PROVE  Known'
<1> USE DEF Known, Pending, Has
<1>1. /\ TypeOK
      /\ job \in Jobs
      /\ ver \in [Records -> 1 .. MaxVersion]
      /\ \A w \in Pending : w \in Writes
      /\ \A p \in Paths : Has(p) => file[p] \in Contents
  BY DEF TypeInv, TypeOK
<1>2. CASE Environment \/ UNCHANGED vars
  <2>1. Pending' = Pending /\ file' = file
    BY <1>2 DEF Environment, Rotate, ToggleShared, ToggleAvailable, Tick, vars,
                memory, volume
  <2>2. \A r \in Records : ver[r] <= ver'[r] /\ ver'[r] \in Nat /\ ver[r] \in Nat
    BY <1>1, <1>2, BoundAssumption
    DEF Environment, Rotate, ToggleShared, ToggleAvailable, Tick, vars, keeper
  <2>3. \A r \in Records : cache'[r] # Absent =>
          cache[r] # Absent /\ cache'[r].data = cache[r].data
    BY <1>1, <1>2 DEF Environment, Rotate, ToggleShared, ToggleAvailable, Tick,
                      vars, memory, TypeOK
  <2>4. /\ \A w \in Pending : w.data.rec \in Records /\ w.data.ver \in Nat
        /\ \A p \in Paths : Has(p) => file[p].rec \in Records /\ file[p].ver \in Nat
        /\ \A r \in Records : cache[r] # Absent => cache[r].data.ver \in Nat
    BY <1>1 DEF TypeOK, Writes, Contents, Cached
  <2>5. \A w \in Pending : w.data.ver <= ver'[w.data.rec]
    BY <2>2, <2>4
  <2>6. \A p \in Paths : Has(p) => file[p].ver <= ver'[file[p].rec]
    BY <2>2, <2>4
  <2>7. \A r \in Records : cache'[r] # Absent =>
          cache'[r].data.rec = r /\ cache'[r].data.ver <= ver'[r]
    BY <2>2, <2>3, <2>4
  <2> QED BY <2>1, <2>5, <2>6, <2>7
<1>3. CASE ByStopping
  BY <1>3 DEF ByStopping, Terminate, Crash, InitialFails, InitDone, Stops, volume,
              keeper, EmptyCache
<1>4. CASE ByFetching
  <2>1. CASE FetchSucceeds
    <3>1. Pending' = Snapshot(job) /\ ver' = ver /\ file' = file
      BY <2>1 DEF FetchSucceeds, TypeInv, Shape, keeper, volume
    <3>2. \A w \in Snapshot(job) : w.data.ver = ver[w.data.rec]
      BY DEF Snapshot, Value
    <3>3. \A r \in Records : ver[r] <= ver[r]
      BY <1>1, BoundAssumption
    <3>4. \A w \in Snapshot(job) : w.data.rec \in Records
      BY <1>1, SnapshotType DEF Writes, Contents
    <3>5. \A r \in Records : cache'[r] # Absent =>
            cache'[r].data.rec = r /\ cache'[r].data.ver <= ver[r]
      BY <2>1, <3>3, <1>1 DEF FetchSucceeds, TypeOK, Value
    <3> QED BY <3>1, <3>2, <3>3, <3>4, <3>5
  <2>2. CASE CacheHit
    <3>1. job \in Secrets /\ Name[job] \in Records
      BY <2>2, ConfigAssumption DEF CacheHit, TypeInv, Shape
    <3> QED BY <2>2, <3>1 DEF CacheHit, Fresh, TypeInv, Shape, keeper, volume
  <2>3. CASE FetchFails \/ FolderFails \/ Retry \/ CacheMiss
    BY <2>3 DEF FetchFails, FolderFails, Retry, CacheMiss, memory, keeper, volume
  <2> QED BY <1>4, <2>1, <2>2, <2>3 DEF ByFetching
<1>5. CASE ByCycling
  BY <1>5 DEF ByCycling, Start, NextJob, CycleDone, Refresh, BeginCycle, keeper, volume
<1>6. CASE ByWriting
  <2>1. CASE Fill
    BY <2>1 DEF Fill, memory, keeper
  <2>2. CASE Rename
    <3>1. cur \in Writes /\ cur \in Pending /\ tmp[cur.path] = cur.data
      BY <2>2, <1>1 DEF Rename, Atomic, TypeInv, Shape
    <3>2. file' = [file EXCEPT ![cur.path] = cur.data]
      BY <2>2, <3>1 DEF Rename
    <3>3. \A p \in Paths : Has(p)' => file'[p].ver <= ver[file'[p].rec]
      BY <3>1, <3>2, <1>1 DEF TypeOK
    <3> QED BY <2>2, <3>3 DEF Rename, keeper
  <2>3. CASE FillFails \/ RenameFails
    BY <2>3 DEF FillFails, RenameFails, WriteFails, keeper, volume
  <2>4. CASE \E w \in todo : OpenTmp(w) \/ OpenDenied(w) \/ OpenFails(w)
    BY <2>4 DEF OpenTmp, OpenDenied, OpenFails, WriteFails, keeper, volume
  <2> QED BY <1>6, <2>1, <2>2, <2>3, <2>4 DEF ByWriting
<1> QED BY <1>2, <1>3, <1>4, <1>5, <1>6, Groups

\* Every entry that the cycle has passed has a result.
LEMMA ProgressStep ==
  ASSUME TypeInv, Progress, [Next]_vars
  PROVE  Progress'
<1> USE DEF Progress, TypeInv, TypeOK, Shape
<1>1. /\ NumJobs \in Nat /\ \A j \in Jobs : j \in 1 .. NumJobs
      /\ 1 \in Jobs
  BY ConfigAssumption DEF Jobs
<1>2. CASE Environment \/ UNCHANGED vars
  BY <1>2 DEF Environment, Rotate, ToggleShared, ToggleAvailable, Tick, vars, memory
<1>3. CASE ByStopping
  BY <1>1, <1>3 DEF ByStopping, Terminate, Crash, InitialFails, InitDone, Stops, NoResult
<1>4. CASE ByFetching
  BY <1>1, <1>4 DEF ByFetching, FetchSucceeds, FetchFails, FolderFails, Retry,
                    CacheHit, CacheMiss, memory
<1>5. CASE ByCycling
  <2>1. CASE Start \/ Refresh
    BY <1>1, <2>1 DEF Start, Refresh, BeginCycle, NoResult
  <2>2. CASE NextJob
    BY <1>1, <2>2 DEF NextJob
  <2>3. CASE CycleDone
    BY <2>3 DEF CycleDone
  <2> QED BY <1>5, <2>1, <2>2, <2>3 DEF ByCycling
<1>6. CASE ByWriting
  <2>1. CASE Fill \/ Rename
    BY <2>1 DEF Fill, Rename, memory
  <2>2. CASE FillFails \/ RenameFails
    BY <2>2 DEF FillFails, RenameFails, WriteFails
  <2>3. CASE \E w \in todo : OpenTmp(w) \/ OpenDenied(w) \/ OpenFails(w)
    BY <2>3 DEF OpenTmp, OpenDenied, OpenFails, WriteFails
  <2> QED BY <1>6, <2>1, <2>2, <2>3 DEF ByWriting
<1> QED BY <1>2, <1>3, <1>4, <1>5, <1>6, Groups

\* No secret that is reported as written is missing, and no file disappears.
LEMMA WrittenStep ==
  ASSUME TypeInv, Atomic, InFlight, Progress, Written, [Next]_vars
  PROVE  Written'
<1> USE DEF Written, AppStartsWithSecrets, Has, Pending
<1>1. /\ result \in [Jobs -> Results]
      /\ job \in Jobs
      /\ Secrets \subseteq Jobs
      /\ \A s \in Secrets : Path[s] \in Paths
  BY ConfigAssumption DEF TypeInv, TypeOK, Secrets, Jobs
<1>2. CASE Environment \/ UNCHANGED vars
  BY <1>2 DEF Environment, Rotate, ToggleShared, ToggleAvailable, Tick, vars,
              memory, volume
<1>3. CASE ByStopping
  <2>1. CASE Terminate \/ Crash \/ InitialFails
    BY <1>1, <2>1 DEF Terminate, Crash, InitialFails, Stops, volume, NoResult
  <2>2. CASE InitDone
    <3>1. FailOnError => \A s \in Secrets : result[s] \in {"keeper", "cache"}
      <4>1. \A j \in Jobs : result[j] # "none"
        <5>1. \A j \in Jobs : ~ NumJobs < j
          BY ConfigAssumption DEF Jobs
        <5> QED BY <2>2, <5>1 DEF InitDone, Progress
      <4>2. FailOnError => \A j \in Jobs : result[j] # "error" /\ result[j] # "degraded"
        BY <2>2 DEF InitDone, Errors, Progress
      <4> QED BY <1>1, <4>1, <4>2 DEF Results
    <3>2. Pending = {}
      BY <2>2 DEF InitDone, TypeInv, Shape
    <3>3. FailOnError => \A s \in Secrets : Has(Path[s])
      BY <3>1, <3>2
    <3> QED BY <1>1, <2>2, <3>3 DEF InitDone, Stops, volume, NoResult
  <2> QED BY <1>3, <2>1, <2>2 DEF ByStopping
<1>4. CASE ByFetching
  <2>1. CASE FetchSucceeds
    <3>1. job \in Secrets => Snapshot(job) # {}
      BY DEF Snapshot, Offered, Targets
    <3> QED BY <1>1, <2>1, <3>1 DEF FetchSucceeds, volume
  <2>2. CASE CacheHit
    BY <1>1, <2>2 DEF CacheHit, volume
  <2>3. CASE FetchFails \/ FolderFails \/ Retry \/ CacheMiss
    BY <1>1, <2>3 DEF FetchFails, FolderFails, Retry, CacheMiss, memory, volume
  <2> QED BY <1>4, <2>1, <2>2, <2>3 DEF ByFetching
<1>5. CASE ByCycling
  <2>1. CASE Start \/ Refresh
    BY <1>1, <2>1 DEF Start, Refresh, BeginCycle, NoResult, volume
  <2>2. CASE NextJob
    BY <2>2, <1>1 DEF NextJob, volume, TypeInv, Shape
  <2>3. CASE CycleDone
    BY <2>3 DEF CycleDone, volume
  <2> QED BY <1>5, <2>1, <2>2, <2>3 DEF ByCycling
<1>6. CASE ByWriting
  <2>1. CASE Fill
    BY <2>1 DEF Fill, memory
  <2>2. CASE Rename
    <3>1. cur \in Writes /\ cur \in Pending /\ tmp[cur.path] = cur.data
      BY <2>2 DEF Rename, Atomic, TypeInv, TypeOK, Shape
    <3>2. /\ file' = [file EXCEPT ![cur.path] = cur.data]
          /\ cur.data \notin {Absent, Partial}
      BY <2>2, <3>1, SentinelAssumption DEF Rename, Writes
    <3>3. \A p \in Paths : Has(p) => Has(p)'
      BY <3>2 DEF TypeInv, TypeOK
    <3>4. job \in Secrets => file'[Path[job]] \notin {Absent, Partial}
      <4>1. job \in Secrets => cur.path = Path[job]
        BY <3>1 DEF InFlight, Targets
      <4>2. job \in Secrets => file'[Path[job]] = cur.data
        BY <1>1, <3>2, <4>1 DEF TypeInv, TypeOK
      <4> QED BY <3>2, <4>2
    <3> QED BY <1>1, <2>2, <3>3, <3>4 DEF Rename
  <2>3. CASE FillFails \/ RenameFails
    BY <1>1, <2>3 DEF FillFails, RenameFails, WriteFails, volume
  <2>4. ASSUME NEW w \in todo, OpenTmp(w) PROVE Written'
    BY <1>1, <2>4, SentinelAssumption DEF OpenTmp, TypeInv, TypeOK
  <2>5. ASSUME NEW w \in todo, OpenDenied(w) \/ OpenFails(w) PROVE Written'
    BY <1>1, <2>5 DEF OpenDenied, OpenFails, WriteFails, volume
  <2> QED BY <1>6, <2>1, <2>2, <2>3, <2>4, <2>5 DEF ByWriting
<1> QED BY <1>2, <1>3, <1>4, <1>5, <1>6, Groups

\* The invariants above hold together from the start.
LEMMA StartInvariant == Spec => []StartInv
<1>1. Init => StartInv
  <2> SUFFICES ASSUME Init PROVE StartInv
    OBVIOUS
  <2> USE DEF Init, Pending, Has
  <2>1. Atomic /\ InFlight
    BY SentinelAssumption DEF Atomic, InFlight
  <2>2. Known
    BY DEF Known, EmptyCache
  <2>3. Progress
    BY ConfigAssumption DEF Progress, NoResult, Jobs
  <2>4. Written
    BY ConfigAssumption DEF Written, AppStartsWithSecrets, NoResult, Secrets, Jobs
  <2> QED BY <2>1, <2>2, <2>3, <2>4 DEF StartInv
<1>2. TypeInv /\ StartInv /\ [Next]_vars => StartInv'
  BY AtomicStep, InFlightStep, KnownStep, ProgressStep, WrittenStep DEF StartInv
<1> QED BY <1>1, <1>2, TypeInvariant, PTL DEF Spec

\* With fail-on-error, no application container starts before every configured
\* secret is on the volume, and none is ever missing from then on (agent.go,
\* Run and fetchAllSecrets), for every configuration and number of faults.
THEOREM StartsWithSecrets == Spec => []AppStartsWithSecrets
<1>1. StartInv => AppStartsWithSecrets
  BY DEF StartInv, Written
<1> QED BY <1>1, StartInvariant, PTL
\* A running sidecar is stopped by signals and crashes only, however many of
\* its refreshes fail (runSidecarMode).
THEOREM RefreshErrorsAreSurvived == Spec => SurvivesRefreshErrors
<1>1. TypeInv /\ [Next]_vars => [ready /\ ~ ready' => faults' > faults]_vars
  <2> SUFFICES ASSUME TypeInv, [Next]_vars, ready, ~ ready'
               PROVE  faults' > faults
    OBVIOUS
  <2>1. faults \in Nat /\ role = "sidecar"
    BY BoundAssumption DEF TypeInv, TypeOK, Shape
  <2>2. CASE Environment \/ UNCHANGED vars
    BY <2>2 DEF Environment, Rotate, ToggleShared, ToggleAvailable, Tick, vars, memory
  <2>3. CASE ByStopping
    BY <2>1, <2>3 DEF ByStopping, Terminate, Crash, InitialFails, InitDone, Fault
  <2>4. CASE ByFetching
    BY <2>4 DEF ByFetching, FetchSucceeds, FetchFails, FolderFails, Retry,
                CacheHit, CacheMiss, memory
  <2>5. CASE ByWriting
    BY <2>5 DEF ByWriting, Fill, Rename, FillFails, RenameFails, OpenTmp,
                OpenDenied, OpenFails, WriteFails, memory
  <2>6. CASE ByCycling
    BY <2>6 DEF ByCycling, Start, NextJob, CycleDone, Refresh, BeginCycle
  <2> QED BY <2>2, <2>3, <2>4, <2>5, <2>6, Groups
<1> QED BY <1>1, TypeInvariant, PTL DEF Spec, SurvivesRefreshErrors
----------------------------------------------------------------------------
(* Entries: none of them gets the value of another one. *)

\* Cache, value in flight and file of an entry of its own stay that entry's.
LEMMA OwnedStep ==
  ASSUME TypeInv, Atomic, InFlight, Owned, [Next]_vars
  PROVE  Owned'
<1> USE DEF Owned
<1>1. /\ file \in [Paths -> Contents \cup {Absent, Partial}]
      /\ cache \in [Records -> Cached \cup {Absent}]
      /\ \A s \in Secrets : Name[s] \in Records /\ Path[s] \in Paths
  BY ConfigAssumption DEF TypeInv, TypeOK
<1>2. CASE Environment \/ UNCHANGED vars
  <2>1. CASE Tick
    <3>1. \A r \in Records : cache'[r] # Absent =>
            cache[r] # Absent /\ cache'[r].data = cache[r].data
      BY <2>1 DEF Tick
    <3> QED BY <1>1, <2>1, <3>1 DEF Tick, volume, Has
  <2> QED BY <1>2, <2>1 DEF Environment, Rotate, ToggleShared, ToggleAvailable,
                            vars, volume, memory, Has
<1>3. CASE ByStopping
  BY <1>1, <1>3 DEF ByStopping, Terminate, Crash, InitialFails, InitDone, Stops,
                    EmptyCache, volume, Has
<1>4. CASE ByFetching
  <2>1. CASE FetchSucceeds
    <3> SUFFICES ASSUME NEW s \in Secrets, OwnName(s), cache'[Name[s]] # Absent
                 PROVE  cache'[Name[s]].data.job = s
      BY <2>1 DEF FetchSucceeds, volume, Has
    <3>1. CASE job \in Secrets /\ Name[job] = Name[s]
      <4>1. job = s
        BY <3>1 DEF OwnName
      <4> QED BY <1>1, <2>1, <4>1 DEF FetchSucceeds, Value
    <3>2. CASE ~ (job \in Secrets /\ Name[job] = Name[s])
      BY <1>1, <2>1, <3>2 DEF FetchSucceeds
    <3> QED BY <3>1, <3>2
  <2>2. CASE FetchFails \/ FolderFails \/ Retry \/ CacheHit \/ CacheMiss
    BY <2>2 DEF FetchFails, FolderFails, Retry, CacheHit, CacheMiss, volume,
                memory, Has
  <2> QED BY <1>4, <2>1, <2>2 DEF ByFetching
<1>5. CASE ByCycling
  BY <1>5 DEF ByCycling, Start, NextJob, CycleDone, Refresh, BeginCycle, volume, Has
<1>6. CASE ByWriting
  <2>1. CASE Rename
    <3> SUFFICES ASSUME NEW s \in Secrets, OwnName(s), OwnPath(s)
                 PROVE  Has(Path[s])' => file'[Path[s]].job = s
      BY <2>1 DEF Rename
    <3>1. cur \in Writes /\ cur \in Pending /\ tmp[cur.path] = cur.data
      BY <2>1 DEF Rename, Atomic, TypeInv, TypeOK, Shape, Pending
    <3>2. CASE cur.path = Path[s]
      <4>1. job = s
        BY <3>1, <3>2 DEF InFlight, OwnPath, TypeInv, TypeOK
      <4>2. cur.data.job = s
        BY <3>1, <4>1 DEF InFlight
      <4> QED BY <1>1, <2>1, <3>1, <3>2, <4>2 DEF Rename
    <3>3. CASE cur.path # Path[s]
      BY <1>1, <2>1, <3>3 DEF Rename, Has
    <3> QED BY <3>2, <3>3
  <2>2. CASE Fill \/ FillFails \/ RenameFails
    BY <2>2 DEF Fill, FillFails, RenameFails, WriteFails, volume, memory, Has
  <2>3. CASE \E w \in todo : OpenTmp(w) \/ OpenDenied(w) \/ OpenFails(w)
    BY <2>3 DEF OpenTmp, OpenDenied, OpenFails, WriteFails, volume, Has
  <2> QED BY <1>6, <2>1, <2>2, <2>3 DEF ByWriting
<1> QED BY <1>2, <1>3, <1>4, <1>5, <1>6, Groups

\* Owned holds from the start.
LEMMA OwnedInvariant == Spec => []Owned
<1>1. Init => Owned
  BY ConfigAssumption DEF Init, Owned, EmptyCache, Has
<1>2. TypeInv /\ StartInv /\ Owned /\ [Next]_vars => Owned'
  BY OwnedStep DEF StartInv
<1> QED BY <1>1, <1>2, TypeInvariant, StartInvariant, PTL DEF Spec

\* An entry with a name and a path of its own never shows the value of another
\* entry: retry, cache fallback and temporary file do not mix entries up
\* (fetchSecret, writeSecretFile).
THEOREM ShowsOwnContent == Spec => []OwnContent
<1>1. Owned => OwnContent
  BY DEF Owned, OwnContent
<1> QED BY <1>1, OwnedInvariant, PTL
----------------------------------------------------------------------------
(* Reports: what a cycle counts as fetched is on the volume. *)

\* The step that writes is Rename, and what it writes is what is cached.
LEMMA UpToDateStep ==
  ASSUME TypeInv, Atomic, InFlight, UpToDate, [Next]_vars
  PROVE  UpToDate'
<1> SUFFICES ASSUME NEW s \in Secrets, OwnName(s), OwnPath(s),
                    result'[s] \in {"keeper", "cache"},
                    s = job' => Pending' = {}
             PROVE  /\ cache'[Name[s]] # Absent
                    /\ file'[Path[s]] = cache'[Name[s]].data
  BY DEF UpToDate, OwnName, OwnPath
<1>1. /\ result \in [Jobs -> Results] /\ job \in Jobs /\ s \in Jobs
      /\ file \in [Paths -> Contents \cup {Absent, Partial}]
      /\ cache \in [Records -> Cached \cup {Absent}]
      /\ Name[s] \in Records /\ Path[s] \in Paths
      /\ job \in Secrets => Name[job] \in Records
  BY ConfigAssumption DEF TypeInv, TypeOK, Secrets, Jobs
<1>2. result[s] \in {"keeper", "cache"} /\ (s = job => Pending = {})
        => /\ cache[Name[s]] # Absent
           /\ file[Path[s]] = cache[Name[s]].data
  BY DEF UpToDate
<1> USE DEF Pending
<1>3. CASE Environment \/ UNCHANGED vars
  <2>1. CASE Tick
    <3>1. cache[Name[s]] # Absent =>
            cache'[Name[s]] # Absent /\ cache'[Name[s]].data = cache[Name[s]].data
      BY <1>1, <2>1, AgedEntry DEF Tick, TypeInv
    <3> QED BY <1>2, <2>1, <3>1 DEF Tick, volume
  <2> QED BY <1>2, <1>3, <2>1 DEF Environment, Rotate, ToggleShared,
                                 ToggleAvailable, vars, volume, memory
<1>4. CASE ByStopping
  BY <1>1, <1>4 DEF ByStopping, Terminate, Crash, InitialFails, InitDone, Stops,
                    NoResult
<1>5. CASE ByFetching
  <2>1. CASE FetchSucceeds
    <3>1. s # job
      <4>1. job \in Secrets => Snapshot(job) # {}
        BY DEF Snapshot, Offered, Targets
      <4> QED BY <2>1, <4>1 DEF FetchSucceeds
    <3>2. cache'[Name[s]] = cache[Name[s]]
      BY <1>1, <2>1, <3>1 DEF FetchSucceeds, OwnName
    <3> QED BY <1>1, <1>2, <2>1, <3>1, <3>2 DEF FetchSucceeds, volume
  <2>2. CASE CacheHit
    BY <1>1, <1>2, <2>2 DEF CacheHit, volume
  <2>3. CASE FolderFails \/ CacheMiss
    BY <1>1, <1>2, <2>3 DEF FolderFails, CacheMiss, volume
  <2>4. CASE FetchFails \/ Retry
    BY <1>2, <2>4 DEF FetchFails, Retry, memory, volume
  <2> QED BY <1>5, <2>1, <2>2, <2>3, <2>4 DEF ByFetching
<1>6. CASE ByCycling
  <2>1. CASE Start \/ Refresh
    BY <1>1, <2>1 DEF Start, Refresh, BeginCycle, NoResult
  <2>2. CASE NextJob
    BY <1>2, <2>2 DEF NextJob, volume, TypeInv, Shape
  <2>3. CASE CycleDone
    BY <1>2, <2>3 DEF CycleDone, volume
  <2> QED BY <1>6, <2>1, <2>2, <2>3 DEF ByCycling
<1>7. CASE ByWriting
  <2>1. CASE Fill
    BY <1>2, <2>1 DEF Fill, memory
  <2>2. CASE Rename
    <3>1. cur \in Writes /\ cur \in Pending /\ tmp[cur.path] = cur.data
      BY <2>2 DEF Rename, Atomic, TypeInv, TypeOK, Shape
    <3>2. \E t \in Targets(job) : t.path = cur.path
      BY <3>1 DEF InFlight
    <3>3. file' = [file EXCEPT ![cur.path] = cur.data] /\ cache' = cache
      BY <2>2, <3>1 DEF Rename
    <3>4. CASE s = job
      <4>1. cur.path = Path[s] /\ cache[Name[s]] # Absent
            /\ cur.data = cache[Name[s]].data
        BY <3>1, <3>2, <3>4 DEF InFlight, Targets
      <4> QED BY <1>1, <3>3, <4>1
    <3>5. CASE s # job
      <4>1. cur.path # Path[s]
        BY <1>1, <3>2, <3>5 DEF OwnPath
      <4> QED BY <1>1, <1>2, <2>2, <3>3, <3>5, <4>1 DEF Rename
    <3> QED BY <3>4, <3>5
  <2>3. CASE FillFails \/ RenameFails
    BY <1>1, <1>2, <2>3 DEF FillFails, RenameFails, WriteFails, volume
  <2>4. ASSUME NEW w \in todo, OpenTmp(w)
        PROVE  /\ cache'[Name[s]] # Absent
               /\ file'[Path[s]] = cache'[Name[s]].data
    BY <1>1, <1>2, <2>4, SentinelAssumption DEF OpenTmp, TypeInv, TypeOK
  <2>5. ASSUME NEW w \in todo, OpenDenied(w) \/ OpenFails(w)
        PROVE  /\ cache'[Name[s]] # Absent
               /\ file'[Path[s]] = cache'[Name[s]].data
    BY <1>1, <1>2, <2>5 DEF OpenDenied, OpenFails, WriteFails, volume
  <2> QED BY <1>7, <2>1, <2>2, <2>3, <2>4, <2>5 DEF ByWriting
<1> QED BY <1>3, <1>4, <1>5, <1>6, <1>7, Groups

\* UpToDate holds from the start.
LEMMA UpToDateInvariant == Spec => []UpToDate
<1>1. Init => UpToDate
  BY ConfigAssumption DEF Init, UpToDate, NoResult, Secrets, Jobs
<1>2. TypeInv /\ StartInv /\ UpToDate /\ [Next]_vars => UpToDate'
  BY UpToDateStep DEF StartInv
<1> QED BY <1>1, <1>2, TypeInvariant, StartInvariant, PTL DEF Spec

\* What a cycle reports as fetched, or as served from the cache, is on the
\* volume with exactly the last good value (fetchSecret, writeSecretFile), for
\* every secret with a name and a path of its own.
THEOREM ReportsAreTrue == Spec => []ReportedIsWritten
<1>1. TypeInv /\ UpToDate => ReportedIsWritten
  BY DEF TypeInv, Shape, UpToDate, ReportedIsWritten, Pending
<1> QED BY <1>1, TypeInvariant, UpToDateInvariant, PTL
----------------------------------------------------------------------------
(* Versions: what is written is never older than what it replaces. *)

\* No step puts a version in flight, into the cache or on the volume that is
\* behind the file.
LEMMA MonotoneStep ==
  ASSUME TypeInv, Atomic, InFlight, Known, Monotone, FoldersApart, [Next]_vars
  PROVE  Monotone'
<1> DEFINE Ahead(s) ==
      Has(Path[s]) /\ cache[file[Path[s]].rec] # Absent =>
        file[Path[s]].ver <= cache[file[Path[s]].rec].data.ver
<1>1. Monotone <=>
        /\ \A w \in Pending :
             Has(w.path) /\ file[w.path].rec = w.data.rec =>
               file[w.path].ver <= w.data.ver
        /\ \A w, x \in Pending : w.data.rec = x.data.rec => w.data.ver = x.data.ver
        /\ \A s \in Secrets : Ahead(s)
  BY DEF Monotone
<1>2. /\ TypeOK
      /\ job \in Jobs
      /\ \A s \in Secrets : Path[s] \in Paths /\ Name[s] \in Records
      /\ \A w \in Pending : w \in Writes
      /\ \A p \in Paths : Has(p) => file[p] \in Contents
  BY ConfigAssumption DEF TypeInv, TypeOK, Pending, Has
<1> USE DEF Monotone, Has
<1>3. CASE Environment \/ UNCHANGED vars
  <2>1. Pending' = Pending /\ file' = file
    BY <1>3 DEF Environment, Rotate, ToggleShared, ToggleAvailable, Tick, vars,
                memory, volume, Pending
  <2>2. \A r \in Records : cache'[r] # Absent =>
          cache[r] # Absent /\ cache'[r].data = cache[r].data
    BY <1>2, <1>3 DEF Environment, Rotate, ToggleShared, ToggleAvailable, Tick,
                      vars, memory, TypeOK
  <2>3. \A s \in Secrets : Has(Path[s]) => file[Path[s]].rec \in Records
    BY <1>2 DEF Contents
  <2> QED BY <2>1, <2>2, <2>3
<1>4. CASE ByStopping
  <2>1. file' = file /\ cache' = EmptyCache /\ Pending' = {}
    BY <1>4 DEF ByStopping, Terminate, Crash, InitialFails, InitDone, Stops,
                volume, Pending
  <2>2. \A s \in Secrets : Has(Path[s]) => file[Path[s]].rec \in Records
    BY <1>2 DEF Contents
  <2> QED BY <2>1, <2>2 DEF EmptyCache
<1>5. CASE ByFetching
  <2>1. CASE FetchSucceeds
    <3>1. Pending' = Snapshot(job) /\ ver' = ver /\ file' = file
      BY <2>1 DEF FetchSucceeds, TypeInv, Shape, keeper, volume, Pending
    <3>2. \A w \in Snapshot(job) :
            w.data.ver = ver[w.data.rec] /\ w.path \in Paths /\ w.data.rec \in Records
      BY <1>2, SnapshotType DEF Snapshot, Value, Writes, Contents
    <3>3. \A s \in Secrets : Ahead(s)'
      <4> SUFFICES ASSUME NEW s \in Secrets, Has(Path[s]),
                          cache'[file[Path[s]].rec] # Absent
                   PROVE  file[Path[s]].ver <= cache'[file[Path[s]].rec].data.ver
        BY <3>1
      <4> DEFINE r == file[Path[s]].rec
      <4>1. r \in Records /\ file[Path[s]].ver <= ver[r]
        BY <1>2 DEF Contents, Known
      <4>2. CASE cache'[r] = cache[r]
        BY <4>2
      <4>3. CASE cache'[r].data.ver = ver[r]
        BY <4>1, <4>3
      <4>4. cache'[r] = cache[r] \/ cache'[r].data.ver = ver[r]
        BY <2>1, <4>1, <1>2 DEF FetchSucceeds, TypeOK, Value
      <4> QED BY <4>2, <4>3, <4>4
    <3> QED BY <3>1, <3>2, <3>3 DEF Known
  <2>2. CASE CacheHit
    <3>1. job \in Secrets /\ Name[job] \in Records
      BY <2>2, <1>2 DEF CacheHit, TypeInv, Shape
    <3>2. /\ \A w \in Pending' :
               w.path = Path[job] /\ w.data = cache[Name[job]].data
          /\ file' = file /\ cache' = cache
      BY <2>2 DEF CacheHit, TypeInv, Shape, Pending, volume
    <3>3. cache[Name[job]] # Absent /\ cache[Name[job]].data.rec = Name[job]
      BY <2>2, <3>1 DEF CacheHit, Fresh, Known
    <3> QED BY <3>1, <3>2, <3>3
  <2>3. CASE FetchFails \/ FolderFails \/ Retry \/ CacheMiss
    BY <2>3 DEF FetchFails, FolderFails, Retry, CacheMiss, memory, volume, Pending
  <2> QED BY <1>5, <2>1, <2>2, <2>3 DEF ByFetching
<1>6. CASE ByCycling
  BY <1>6 DEF ByCycling, Start, NextJob, CycleDone, Refresh, BeginCycle, volume, Pending
<1>7. CASE ByWriting
  <2>1. CASE Fill
    BY <2>1 DEF Fill, memory, Pending
  <2>2. CASE Rename
    <3>1. cur \in Writes /\ cur \in Pending /\ tmp[cur.path] = cur.data
      BY <2>2, <1>2 DEF Rename, Atomic, TypeInv, Shape, Pending
    <3>2. /\ file' = [file EXCEPT ![cur.path] = cur.data]
          /\ cache' = cache
          /\ \A w \in Pending' : w \in Pending
          /\ cur.path \in Paths /\ cur.data \in Contents
      BY <2>2, <3>1 DEF Rename, Pending, Writes
    <3>3. ASSUME NEW s \in Secrets PROVE Ahead(s)'
      <4>1. CASE Path[s] # cur.path
        BY <4>1, <3>2, <1>2 DEF TypeOK
      <4>2. CASE Path[s] = cur.path
        <5>1. job \in Secrets
          BY <4>2, <3>1, <1>2 DEF InFlight, Targets, FoldersApart, Folders
        <5>2. file'[Path[s]] = cur.data
          BY <4>2, <3>2, <1>2 DEF TypeOK
        <5>3. cur.data = cache[Name[job]].data /\ cache[Name[job]] # Absent
          BY <5>1, <3>1 DEF InFlight
        <5>4. cur.data.rec = Name[job]
          BY <5>1, <5>3, <1>2 DEF Known
        <5>5. cur.data.ver \in Nat
          BY <3>2, BoundAssumption DEF Contents
        <5> QED BY <3>2, <5>2, <5>3, <5>4, <5>5
      <4> QED BY <4>1, <4>2
    <3>4. \A w \in Pending' :
            Has(w.path)' /\ file'[w.path].rec = w.data.rec =>
              file'[w.path].ver <= w.data.ver
      <4> SUFFICES ASSUME NEW w \in Pending',
                          Has(w.path)', file'[w.path].rec = w.data.rec
                   PROVE  file'[w.path].ver <= w.data.ver
        OBVIOUS
      <4>1. w \in Pending /\ w \in Writes /\ w.path \in Paths
        BY <3>2, <1>2 DEF Writes
      <4>2. CASE w.path # cur.path
        BY <4>1, <4>2, <3>2, <1>2 DEF TypeOK
      <4>3. CASE w.path = cur.path
        <5>1. file'[w.path] = cur.data
          BY <4>1, <4>3, <3>2, <1>2 DEF TypeOK
        <5>2. w.data.ver = cur.data.ver
          BY <5>1, <4>1, <3>1
        <5>3. w.data.ver \in Nat
          BY <4>1, BoundAssumption DEF Writes, Contents
        <5> QED BY <5>1, <5>2, <5>3
      <4> QED BY <4>2, <4>3
    <3> QED BY <3>2, <3>3, <3>4
  <2>3. CASE FillFails \/ RenameFails
    BY <2>3 DEF FillFails, RenameFails, WriteFails, volume, Pending
  <2>4. CASE \E w \in todo : OpenTmp(w) \/ OpenDenied(w) \/ OpenFails(w)
    BY <2>4 DEF OpenTmp, OpenDenied, OpenFails, WriteFails, volume, Pending
  <2> QED BY <1>7, <2>1, <2>2, <2>3, <2>4 DEF ByWriting
<1> QED BY <1>3, <1>4, <1>5, <1>6, <1>7, Groups

\* Monotone holds from the start.
LEMMA MonotoneInvariant == ASSUME FoldersApart PROVE Spec => []Monotone
<1>1. Init => Monotone
  BY ConfigAssumption DEF Init, Monotone, Pending, Has
<1>2. TypeInv /\ StartInv /\ Monotone /\ [Next]_vars => Monotone'
  BY MonotoneStep, FoldersApart DEF StartInv
<1> QED BY <1>1, <1>2, TypeInvariant, StartInvariant, PTL DEF Spec

\* The inductive invariant holds in every reachable state (agent.go, Run to
\* writeSecretFile), whatever paths folders write to.
THEOREM AgentIsSound == Spec => []Inductive
<1>1. CASE FoldersApart
  <2>1. Monotone => (FoldersApart => Monotone)
    OBVIOUS
  <2> QED
    BY <1>1, <2>1, TypeInvariant, StartInvariant, OwnedInvariant,
       UpToDateInvariant, MonotoneInvariant, PTL DEF Inductive
<1>2. CASE ~ FoldersApart
  <2>1. TypeInv /\ StartInv /\ Owned /\ UpToDate => Inductive
    BY <1>2 DEF Inductive
  <2> QED
    BY <2>1, TypeInvariant, StartInvariant, OwnedInvariant, UpToDateInvariant, PTL
<1> QED BY <1>1, <1>2

\* The agent implements SecretFiles: if no folder writes to the path of a
\* secret, a reader of the volume only ever sees complete values that Keeper
\* had, no path emptied and no record going back in version (fetchSecret,
\* fetchSecretsFromFolder, writeSecretFile, SecretCache), through any number
\* of outages, crashes and failing file operations.
THEOREM ImplementsSecretFiles == ASSUME FoldersApart PROVE Spec => FilesPromise
<1>1. Init => SF!Init
  BY DEF Init, SF!Init
<1>2. TypeInv /\ StartInv /\ Monotone /\ [Next]_vars => [SF!Next]_(SF!vars)
  <2> SUFFICES ASSUME TypeInv, StartInv, Monotone, [Next]_vars
               PROVE  SF!Next \/ UNCHANGED SF!vars
    OBVIOUS
  <2>1. CASE Environment \/ UNCHANGED vars
    BY <2>1 DEF Environment, Rotate, ToggleShared, ToggleAvailable, Tick, vars,
                volume, keeper, SF!Next, SF!Rotate, SF!vars
  <2>2. CASE ByStopping
    BY <2>2 DEF ByStopping, Terminate, Crash, InitialFails, InitDone, volume,
                keeper, SF!vars
  <2>3. CASE ByFetching
    BY <2>3 DEF ByFetching, FetchSucceeds, FetchFails, FolderFails, Retry,
                CacheHit, CacheMiss, volume, keeper, SF!vars
  <2>4. CASE ByCycling
    BY <2>4 DEF ByCycling, Start, NextJob, CycleDone, Refresh, volume, keeper,
                SF!vars
  <2>5. CASE ByWriting
    <3>1. CASE Rename
      <4>1. cur \in Writes /\ cur \in Pending /\ tmp[cur.path] = cur.data
        BY <3>1 DEF Rename, StartInv, Atomic, TypeInv, TypeOK, Shape, Pending
      <4>2. cur.path \in Paths /\ cur.data \in Contents
        BY <4>1 DEF Writes
      <4>3. cur.data.ver <= ver[cur.data.rec]
        BY <4>1 DEF StartInv, Known
      <4>4. file[cur.path] # Absent => Has(cur.path)
        BY <4>2 DEF StartInv, Atomic, Has
      <4>5. SF!Publish(cur.path, cur.data)
        BY <3>1, <4>1, <4>3, <4>4 DEF Rename, keeper, Monotone, SF!Publish
      <4> QED BY <4>2, <4>5 DEF SF!Next
    <3>2. CASE Fill \/ FillFails \/ RenameFails
      BY <3>2 DEF Fill, FillFails, RenameFails, WriteFails, volume, keeper, SF!vars
    <3>3. CASE \E w \in todo : OpenTmp(w) \/ OpenDenied(w) \/ OpenFails(w)
      BY <3>3 DEF OpenTmp, OpenDenied, OpenFails, WriteFails, volume, keeper, SF!vars
    <3> QED BY <2>5, <3>1, <3>2, <3>3 DEF ByWriting
  <2> QED BY <2>1, <2>2, <2>3, <2>4, <2>5, Groups
<1> QED
  BY <1>1, <1>2, TypeInvariant, StartInvariant, MonotoneInvariant, FoldersApart, PTL
  DEF Spec, FilesPromise, SF!Spec
============================================================================
