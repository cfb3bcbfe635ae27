--------------------------- MODULE SidecarAgent ---------------------------
(***************************************************************************)
(* The secrets agent of one pod (pkg/sidecar): the same program runs first *)
(* as the init container and then as the sidecar.  It fetches every        *)
(* configured secret and folder from Keeper, with retry and an in-memory   *)
(* cache of last good values, and writes each one to the shared volume     *)
(* through a temporary file that is renamed over the real one.             *)
(*                                                                         *)
(* The process can stop between any two steps; what it keeps in memory is  *)
(* then gone and what it left on the volume stays, because the volume      *)
(* lives as long as the pod and outlives its containers.                   *)
(***************************************************************************)
EXTENDS Integers

CONSTANTS
  Records,      \* the Keeper records the configuration refers to
  Paths,        \* paths of the secrets volume
  NumSecrets,   \* number of entries in "secrets" of the configuration
  NumJobs,      \* ... plus the number of entries in "folders"
  Name,         \* Name[s]: the record that entry s names, its cache key
  Path,         \* Path[s]: where entry s is written
  FolderFiles,  \* FolderFiles[f]: the files folder entry f can write
  MaxAttempts,  \* attempts of one fetch
  MaxAge,       \* greatest age at which a cached value is served
  FailOnError,  \* the annotation fail-on-error
  InitOnly,     \* the annotation init-only
  MaxVersion,   \* bound: versions of a record
  MaxFaults,    \* bound: crashes and failing file operations of a run
  Absent,       \* nothing there: no file, no cache entry, no pending write
  Partial       \* a file that is created but not completely written

Secrets == 1 .. NumSecrets
Jobs    == 1 .. NumJobs
Folders == Jobs \ Secrets

\* A secret's value as one entry of the configuration sees it: the entry picks
\* the fields, the notation or the format, so two entries of the same record
\* have different contents.
Contents == [job : Jobs, rec : Records, ver : 1 .. MaxVersion]
Writes   == [path : Paths, data : Contents]
Cached   == [data : Contents, age : 0 .. MaxAge + 1]

ASSUME ConfigAssumption ==
  /\ NumSecrets \in Nat
  /\ NumJobs \in Nat \ {0}
  /\ NumSecrets <= NumJobs
  /\ Name \in [Secrets -> Records]
  /\ Path \in [Secrets -> Paths]
  /\ FolderFiles \in [Folders -> SUBSET [rec : Records, path : Paths]]
  /\ FailOnError \in BOOLEAN
  /\ InitOnly \in BOOLEAN

ASSUME BoundAssumption ==
  /\ MaxAttempts \in Nat \ {0}
  /\ MaxAge \in Nat
  /\ MaxVersion \in Nat \ {0}
  /\ MaxFaults \in Nat

ASSUME SentinelAssumption ==
  /\ Absent # Partial
  /\ {Absent, Partial} \cap (Contents \cup Writes \cup Cached) = {}

VARIABLES
  \* Keeper
  ver,      \* ver[r]: the current version of record r
  avail,    \* the jobs whose fetch would succeed now: Keeper answers, the
            \* record has the field, the folder path resolves
  shared,   \* the records that are in their folder now
  \* the volume
  file,     \* file[p]: what a reader of p finds
  tmp,      \* tmp[p]: the content of p.tmp
  \* the container and the process in it
  role,     \* "init", then "sidecar" or, with init-only, "none"
  pc,       \* the program point of the process, "down" if there is none
  job,      \* the entry that fetchAllSecrets is working on
  attempt,  \* the attempt of WithRetry
  todo,     \* fetched values not written yet
  cur,      \* the value that writeSecretFile is writing
  result,   \* result[j]: what this cycle got for entry j
  cache,    \* cache[r]: the last good value fetched under the name r
  ready,    \* the initial fetch is over
  faults    \* crashes and failing file operations so far

keeper == <<ver, avail, shared>>
volume == <<file, tmp>>
memory == <<job, attempt, todo, cur, result, cache, ready>>
vars   == <<keeper, volume, role, pc, memory, faults>>

Points  == {"down", "fetch", "backoff", "fallback", "write", "fill",
            "rename", "end", "wait"}
Results == {"none", "keeper", "cache", "degraded", "error"}
----------------------------------------------------------------------------
(* What an entry may write, and what Keeper answers for it now. *)

Targets(j) == IF j \in Secrets THEN {[rec |-> Name[j], path |-> Path[j]]}
                               ELSE FolderFiles[j]

Offered(j) == {t \in Targets(j) : j \in Secrets \/ t.rec \in shared}

Value(j, r) == [job |-> j, rec |-> r, ver |-> ver[r]]

Snapshot(j) == {[path |-> t.path, data |-> Value(j, t.rec)] : t \in Offered(j)}

Errors == {j \in Jobs : result[j] = "error"}

EmptyCache == [r \in Records |-> Absent]

NoResult == [j \in Jobs |-> "none"]
----------------------------------------------------------------------------
Init ==
  /\ ver = [r \in Records |-> 1]
  /\ avail \in SUBSET Jobs
  /\ shared \in SUBSET Records
  /\ file = [p \in Paths |-> Absent]
  /\ tmp = [p \in Paths |-> Absent]
  /\ role = "init"
  /\ pc = "down"
  /\ job = 1
  /\ attempt = 1
  /\ todo = {}
  /\ cur = Absent
  /\ result = NoResult
  /\ cache = EmptyCache
  /\ ready = FALSE
  /\ faults = 0
----------------------------------------------------------------------------
(* The environment: Keeper's records, its reachability, and the clock. *)

Rotate(r) ==
  /\ ver[r] < MaxVersion
  /\ ver' = [ver EXCEPT ![r] = ver[r] + 1]
  /\ UNCHANGED <<avail, shared, volume, role, pc, memory, faults>>

\* An outage, a removed record or field, a renamed folder: or its end.
ToggleAvailable(j) ==
  /\ avail' = IF j \in avail THEN avail \ {j} ELSE avail \cup {j}
  /\ UNCHANGED <<ver, shared, volume, role, pc, memory, faults>>

\* A record moves into or out of its folder.
ToggleShared(r) ==
  /\ \E f \in Folders : \E t \in Targets(f) : t.rec = r
  /\ shared' = IF r \in shared THEN shared \ {r} ELSE shared \cup {r}
  /\ UNCHANGED <<ver, avail, volume, role, pc, memory, faults>>

\* The cached values grow older; past MaxAge their age makes no difference.
Tick ==
  /\ \E r \in Records : cache[r] # Absent /\ cache[r].age <= MaxAge
  /\ cache' = [r \in Records |->
                 IF cache[r] # Absent /\ cache[r].age <= MaxAge
                 THEN [data |-> cache[r].data, age |-> cache[r].age + 1]
                 ELSE cache[r]]
  /\ UNCHANGED <<keeper, volume, role, pc, job, attempt, todo, cur, result,
                 ready, faults>>
----------------------------------------------------------------------------
(* The process.  Every way of stopping loses its memory. *)

Stops ==
  /\ pc' = "down"
  /\ job' = 1
  /\ attempt' = 1
  /\ todo' = {}
  /\ cur' = Absent
  /\ result' = NoResult
  /\ cache' = EmptyCache
  /\ ready' = FALSE

\* fetchAllSecrets starts from the first entry.
BeginCycle ==
  /\ pc' = "fetch"
  /\ job' = 1
  /\ attempt' = 1
  /\ result' = NoResult
  /\ UNCHANGED <<todo, cur, cache, ready>>

\* The container starts, or restarts, and the initial fetch begins.
Start ==
  /\ pc = "down"
  /\ role # "none"
  /\ BeginCycle
  /\ UNCHANGED <<keeper, volume, role, faults>>

\* Mutant of FetchSucceeds: nothing is cached.
FetchUncached ==
  /\ pc = "fetch"
  /\ job \in avail
  /\ todo' = Snapshot(job)
  /\ result' = [result EXCEPT ![job] = "keeper"]
  /\ pc' = "write"
  /\ UNCHANGED <<keeper, volume, role, job, attempt, cur, cache, ready, faults>>

\* Mutant of FetchSucceeds: the first value stays in the cache.
FetchCachesOnce ==
  /\ pc = "fetch"
  /\ job \in avail
  /\ todo' = Snapshot(job)
  /\ result' = [result EXCEPT ![job] = "keeper"]
  /\ cache' = IF job \in Secrets /\ cache[Name[job]] = Absent
              THEN [cache EXCEPT ![Name[job]] =
                      [data |-> Value(job, Name[job]), age |-> 0]]
              ELSE cache
  /\ pc' = "write"
  /\ UNCHANGED <<keeper, volume, role, job, attempt, cur, ready, faults>>

\* Keeper answers.  A secret is cached under its name before it is written.
FetchSucceeds ==
  /\ pc = "fetch"
  /\ job \in avail
  /\ todo' = Snapshot(job)
  /\ result' = [result EXCEPT ![job] = "keeper"]
  /\ cache' = IF job \in Secrets
              THEN [cache EXCEPT ![Name[job]] =
                      [data |-> Value(job, Name[job]), age |-> 0]]
              ELSE cache
  /\ pc' = "write"
  /\ UNCHANGED <<keeper, volume, role, job, attempt, cur, ready, faults>>

\* The fetch of a secret fails: it is tried again, after the last attempt the
\* cache is asked.
FetchFails ==
  /\ pc = "fetch"
  /\ job \in Secrets \ avail
  /\ pc' = IF attempt < MaxAttempts THEN "backoff" ELSE "fallback"
  /\ UNCHANGED <<keeper, volume, role, memory, faults>>

\* The fetch of a folder fails: no retry, no cache, the entry is in error.
FolderFails ==
  /\ pc = "fetch"
  /\ job \in Folders \ avail
  /\ result' = [result EXCEPT ![job] = "error"]
  /\ pc' = "write"
  /\ UNCHANGED <<keeper, volume, role, job, attempt, todo, cur, cache, ready,
                 faults>>

\* WithRetry has slept and calls the closure again.
Retry ==
  /\ pc = "backoff"
  /\ attempt' = attempt + 1
  /\ pc' = "fetch"
  /\ UNCHANGED <<keeper, volume, role, job, todo, cur, result, cache, ready,
                 faults>>

Fresh(r) == cache[r] # Absent /\ cache[r].age <= MaxAge

\* Mutant of CacheHit: the value of the first entry is served.
CacheHitOther ==
  /\ pc = "fallback"
  /\ Fresh(Name[1])
  /\ todo' = {[path |-> Path[job], data |-> cache[Name[1]].data]}
  /\ result' = [result EXCEPT ![job] = "cache"]
  /\ pc' = "write"
  /\ UNCHANGED <<keeper, volume, role, job, attempt, cur, cache, ready, faults>>

\* The cached value of that name is written in the place of a fetched one.
CacheHit ==
  /\ pc = "fallback"
  /\ Fresh(Name[job])
  /\ todo' = {[path |-> Path[job], data |-> cache[Name[job]].data]}
  /\ result' = [result EXCEPT ![job] = "cache"]
  /\ pc' = "write"
  /\ UNCHANGED <<keeper, volume, role, job, attempt, cur, cache, ready, faults>>

\* Nothing cached: an error, or without fail-on-error a success that writes
\* nothing.
CacheMiss ==
  /\ pc = "fallback"
  /\ ~ Fresh(Name[job])
  /\ result' = [result EXCEPT ![job] =
                  IF FailOnError THEN "error" ELSE "degraded"]
  /\ pc' = "write"
  /\ UNCHANGED <<keeper, volume, role, job, attempt, todo, cur, cache, ready,
                 faults>>
----------------------------------------------------------------------------
(* writeSecretFile: create p.tmp with mode 0400, fill it, rename it to p.  *)

\* Mutant of WriteFails: the error is swallowed.
WriteErrorIgnored ==
  /\ cur' = Absent
  /\ pc' = "write"
  /\ UNCHANGED <<keeper, role, job, attempt, result, cache, ready>>

\* The write of a value fails.  That is an error of a secret; of a folder it
\* only skips the file.
WriteFails ==
  /\ result' = IF job \in Secrets THEN [result EXCEPT ![job] = "error"]
                                  ELSE result
  /\ cur' = Absent
  /\ pc' = "write"
  /\ UNCHANGED <<keeper, role, job, attempt, cache, ready>>

\* Mutant of OpenTmp: the file itself is truncated.
OpenInPlace(w) ==
  /\ pc = "write"
  /\ w \in todo
  /\ file' = [file EXCEPT ![w.path] = Partial]
  /\ todo' = todo \ {w}
  /\ cur' = w
  /\ pc' = "fill"
  /\ UNCHANGED <<keeper, tmp, role, job, attempt, result, cache, ready, faults>>

OpenTmp(w) ==
  /\ pc = "write"
  /\ w \in todo
  /\ tmp[w.path] = Absent
  /\ tmp' = [tmp EXCEPT ![w.path] = Partial]
  /\ todo' = todo \ {w}
  /\ cur' = w
  /\ pc' = "fill"
  /\ UNCHANGED <<keeper, file, role, job, attempt, result, cache, ready, faults>>

\* A temporary file is there already.  Its mode is 0400 and the agent is not
\* root, so it cannot be opened for writing.
OpenDenied(w) ==
  /\ pc = "write"
  /\ w \in todo
  /\ tmp[w.path] # Absent
  /\ todo' = todo \ {w}
  /\ WriteFails
  /\ UNCHANGED <<volume, faults>>

Fill ==
  /\ pc = "fill"
  /\ tmp' = [tmp EXCEPT ![cur.path] = cur.data]
  /\ pc' = "rename"
  /\ UNCHANGED <<keeper, file, role, memory, faults>>

\* Mutant of Rename: the temporary file is copied and stays.
CopyInstead ==
  /\ pc = "rename"
  /\ file' = [file EXCEPT ![cur.path] = tmp[cur.path]]
  /\ cur' = Absent
  /\ pc' = "write"
  /\ UNCHANGED <<keeper, tmp, role, job, attempt, todo, result, cache, ready, faults>>

Rename ==
  /\ pc = "rename"
  /\ file' = [file EXCEPT ![cur.path] = tmp[cur.path]]
  /\ tmp' = [tmp EXCEPT ![cur.path] = Absent]
  /\ cur' = Absent
  /\ pc' = "write"
  /\ UNCHANGED <<keeper, role, job, attempt, todo, result, cache, ready, faults>>
----------------------------------------------------------------------------
(* The end of an entry and of a cycle. *)

\* Mutant of NextJob: one entry too many.
NextJobTooFar ==
  /\ pc = "write"
  /\ todo = {}
  /\ IF job <= NumJobs THEN job' = job + 1 /\ pc' = "fetch"
                       ELSE job' = job /\ pc' = "end"
  /\ attempt' = 1
  /\ UNCHANGED <<keeper, volume, role, todo, cur, result, cache, ready, faults>>

NextJob ==
  /\ pc = "write"
  /\ todo = {}
  /\ IF job < NumJobs THEN job' = job + 1 /\ pc' = "fetch"
                      ELSE job' = job /\ pc' = "end"
  /\ attempt' = 1
  /\ UNCHANGED <<keeper, volume, role, todo, cur, result, cache, ready, faults>>

\* Mutant of InitialFails: a refresh that fails ends the program as well.
AnyFetchFails ==
  /\ pc = "end"
  /\ FailOnError
  /\ Errors # {}
  /\ Stops
  /\ UNCHANGED <<keeper, volume, role, faults>>

\* The initial fetch reports an error: the program exits with status 1.
InitialFails ==
  /\ pc = "end"
  /\ ~ ready
  /\ FailOnError
  /\ Errors # {}
  /\ Stops
  /\ UNCHANGED <<keeper, volume, role, faults>>

\* Mutant of InitDone: the init container goes on like the sidecar.
InitStays ==
  /\ pc = "end"
  /\ role = "init"
  /\ FailOnError => Errors = {}
  /\ pc' = "wait"
  /\ UNCHANGED <<keeper, volume, role, memory, faults>>

\* Mutant of InitDone: an error keeps the pod from starting whatever
\* fail-on-error says.
InitAlwaysStrict ==
  /\ pc = "end"
  /\ role = "init"
  /\ Errors = {}
  /\ Stops
  /\ role' = IF InitOnly THEN "none" ELSE "sidecar"
  /\ UNCHANGED <<keeper, volume, faults>>

\* The initial fetch is accepted by the init container: it exits with status
\* 0, and the containers of the pod start.
InitDone ==
  /\ pc = "end"
  /\ role = "init"
  /\ FailOnError => Errors = {}
  /\ Stops
  /\ role' = IF InitOnly THEN "none" ELSE "sidecar"
  /\ UNCHANGED <<keeper, volume, faults>>

\* The sidecar becomes ready, or ends a refresh, whose errors are only logged.
CycleDone ==
  /\ pc = "end"
  /\ role = "sidecar"
  /\ ready \/ (FailOnError => Errors = {})
  /\ ready' = TRUE
  /\ pc' = "wait"
  /\ UNCHANGED <<keeper, volume, role, job, attempt, todo, cur, result, cache,
                 faults>>

\* Mutant of Refresh: no more refreshes after one that failed.
RefreshUnlessFailed ==
  /\ pc = "wait"
  /\ Errors = {}
  /\ BeginCycle
  /\ UNCHANGED <<keeper, volume, role, faults>>

\* The ticker fires.
Refresh ==
  /\ pc = "wait"
  /\ BeginCycle
  /\ UNCHANGED <<keeper, volume, role, faults>>
----------------------------------------------------------------------------
(* Faults, MaxFaults of them in a run. *)

Fault == faults < MaxFaults /\ faults' = faults + 1

\* SIGTERM or SIGINT while the refresh loop waits: the program returns.
Terminate ==
  /\ Fault
  /\ pc = "wait"
  /\ Stops
  /\ UNCHANGED <<keeper, volume, role>>

\* The process is killed, or gets SIGTERM before signal.Notify is called.
Crash ==
  /\ Fault
  /\ pc # "down"
  /\ Stops
  /\ UNCHANGED <<keeper, volume, role>>

\* No directory or no temporary file can be created.
OpenFails(w) ==
  /\ Fault
  /\ pc = "write"
  /\ w \in todo
  /\ todo' = todo \ {w}
  /\ WriteFails
  /\ UNCHANGED volume

\* The volume is full: WriteFile returns the error and leaves the file.
FillFails ==
  /\ Fault
  /\ pc = "fill"
  /\ WriteFails
  /\ UNCHANGED <<volume, todo>>

\* The rename fails, and the temporary file is removed.
RenameFails ==
  /\ Fault
  /\ pc = "rename"
  /\ tmp' = [tmp EXCEPT ![cur.path] = Absent]
  /\ WriteFails
  /\ UNCHANGED <<file, todo>>
----------------------------------------------------------------------------
Environment ==
  \/ \E r \in Records : Rotate(r) \/ ToggleShared(r)
  \/ \E j \in Jobs : ToggleAvailable(j)
  \/ Tick

Faulty ==
  \/ Terminate \/ Crash \/ FillFails \/ RenameFails
  \/ \E w \in todo : OpenFails(w)

Agent ==
  \/ Start \/ FetchSucceeds \/ FetchFails \/ FolderFails \/ Retry
  \/ CacheHit \/ CacheMiss
  \/ \E w \in todo : OpenTmp(w) \/ OpenDenied(w)
  \/ Fill \/ Rename \/ NextJob
  \/ InitialFails \/ InitDone \/ CycleDone \/ Refresh

Next == Environment \/ Faulty \/ Agent

Spec == Init /\ [][Next]_vars

\* The process keeps running and the kubelet restarts its container; nothing
\* is assumed of Keeper, of the clock or of the faults.
FairSpec == Spec /\ WF_vars(Agent)
----------------------------------------------------------------------------
(* Properties. *)

\* The type invariant of agent, volume and Keeper.
TypeOK ==
  /\ ver \in [Records -> 1 .. MaxVersion]
  /\ avail \subseteq Jobs
  /\ shared \subseteq Records
  /\ file \in [Paths -> Contents \cup {Absent, Partial}]
  /\ tmp \in [Paths -> Contents \cup {Absent, Partial}]
  /\ role \in {"init", "sidecar", "none"}
  /\ pc \in Points
  /\ job \in Jobs
  /\ attempt \in 1 .. MaxAttempts
  /\ todo \subseteq Writes
  /\ cur \in Writes \cup {Absent}
  /\ result \in [Jobs -> Results]
  /\ cache \in [Records -> Cached \cup {Absent}]
  /\ ready \in BOOLEAN
  /\ faults \in 0 .. MaxFaults

Has(p) == file[p] \notin {Absent, Partial}

\* No other secret is cached under the name of s.
OwnName(s) == \A x \in Secrets : Name[x] = Name[s] => x = s

\* No other entry writes to the path of s.
OwnPath(s) == \A j \in Jobs : \A t \in Targets(j) : t.path = Path[s] => j = s

\* No folder writes to the path of a secret.
FoldersApart ==
  \A s \in Secrets, f \in Folders : \A t \in Targets(f) : t.path # Path[s]

\* fail-on-error: once the containers of the application may start, every
\* configured secret has a file, whatever fails, stops or rotates later
\* (Run, fetchAllSecrets: an error of any secret fails the init container).
AppStartsWithSecrets ==
  FailOnError /\ role # "init" => \A s \in Secrets : Has(Path[s])

\* A secret that has a name and a path of its own never shows the value of
\* another entry: retry, cache and temporary file do not mix entries up.
OwnContent ==
  \A s \in Secrets : OwnName(s) /\ OwnPath(s) /\ Has(Path[s]) =>
                        file[Path[s]].job = s

\* When a cycle is over, a secret that it counts as fetched or served from the
\* cache is on the volume with exactly the last good value (fetchSecret hands
\* on the error of writeSecretFile).
ReportedIsWritten ==
  pc = "wait" =>
    \A s \in Secrets :
      /\ OwnName(s) /\ OwnPath(s)
      /\ result[s] \in {"keeper", "cache"}
      => /\ cache[Name[s]] # Absent
         /\ file[Path[s]] = cache[Name[s]].data

\* A running sidecar is stopped by signals and crashes only: refresh errors
\* are logged and never take the agent down (runSidecarMode).
SurvivesRefreshErrors == [][ready /\ ~ ready' => faults' > faults]_vars

SF == INSTANCE SecretFiles

\* Readers of the volume only ever see what SecretFiles promises: complete
\* values that Keeper had, no path emptied, no record going back in version.
FilesPromise == SF!Spec

\* Every file the entry j may write, of a record r that is offered.
Current(j, t) == file[t.path] = Value(j, t.rec)

Steady(j, t) == j \in avail /\ (j \in Folders => t.rec \in shared)

\* Rotation reaches the application: a value that Keeper offers from some time
\* on is on the volume from some time on, unless the pod is init-only
\* (docs/rotation.md: "If secrets changed, sidecar rewrites files").
EventuallyFresh ==
  \A j \in Jobs : \A t \in Targets(j) :
    ~ InitOnly /\ <>[]Steady(j, t) => <>[]Current(j, t)

\* What remains of EventuallyFresh when processes crash and disks fill: only a
\* temporary file left behind keeps a file from being fresh.
FreshOrStranded ==
  \A j \in Jobs : \A t \in Targets(j) :
    ~ InitOnly /\ <>[]Steady(j, t) =>
      <>[]Current(j, t) \/ <>[](tmp[t.path] # Absent)

\* Without fail-on-error the pod starts whatever Keeper, the volume and the
\* process do; with it, it starts when Keeper answers from some time on.
PodStarts ==
  (~ FailOnError \/ <>[](avail = Jobs)) => <>(role # "init")
----------------------------------------------------------------------------
(* What the documentation says, and the code does not do. *)

\* agent.go: "All retries failed - try cache": the file of a secret shows that
\* secret, also when two entries name the same record.
EachShowsItself ==
  \A s \in Secrets : OwnPath(s) /\ Has(Path[s]) => file[Path[s]].job = s
============================================================================
