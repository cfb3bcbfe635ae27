------------------------- MODULE SidecarAgentInv -------------------------
(***************************************************************************)
(* The inductive invariant of SidecarAgent: what ties the program point,   *)
(* the values in flight, the cache and the volume together.                *)
(***************************************************************************)
EXTENDS SidecarAgent

Pending == todo \cup ({cur} \ {Absent})

\* Where the process is says which of its variables are in use.
Shape ==
  /\ cur # Absent <=> pc \in {"fill", "rename"}
  /\ todo # {} => pc \in {"write", "fill", "rename"}
  /\ pc \in {"backoff", "fallback"} => job \in Secrets
  /\ pc = "backoff" => attempt < MaxAttempts
  /\ pc = "down" => ~ ready
  /\ role # "sidecar" => ~ ready /\ pc # "wait"
  /\ role = "none" => pc = "down"

\* Only a complete temporary file is renamed, and only there do readers look.
Atomic ==
  /\ \A p \in Paths : file[p] # Partial
  /\ pc = "rename" => tmp[cur.path] = cur.data

\* A value in flight belongs to the entry at work; that of a secret is the one
\* that the cache holds under its name.
InFlight ==
  \A w \in Pending :
    /\ \E t \in Targets(job) : t.path = w.path /\ t.rec = w.data.rec
    /\ job \in Secrets =>
         /\ cache[Name[job]] # Absent
         /\ w.data = cache[Name[job]].data

\* Keeper is never behind: what is cached, in flight or on the volume are
\* values that Keeper had.
Known ==
  /\ \A w \in Pending : w.data.ver <= ver[w.data.rec]
  /\ \A p \in Paths : Has(p) => file[p].ver <= ver[file[p].rec]
  /\ \A r \in Records : cache[r] # Absent =>
       cache[r].data.rec = r /\ cache[r].data.ver <= ver[r]

\* The volume is never ahead of what may be written next: of the values in
\* flight, which are all of one snapshot, and of the cached values.
Monotone ==
  /\ \A w \in Pending :
       Has(w.path) /\ file[w.path].rec = w.data.rec =>
         file[w.path].ver <= w.data.ver
  /\ \A w, x \in Pending : w.data.rec = x.data.rec => w.data.ver = x.data.ver
  /\ \A s \in Secrets :
       LET f == file[Path[s]] IN
       Has(Path[s]) /\ cache[f.rec] # Absent => f.ver <= cache[f.rec].data.ver

\* What result says of the entries worked on so far.
Progress ==
  /\ \A j \in Jobs :
       \/ pc \in {"down", "fetch", "backoff", "fallback"} /\ job <= j
       \/ job < j
       \/ result[j] # "none"
  /\ pc \in {"end", "wait"} => job = NumJobs
  /\ FailOnError => \A j \in Jobs : result[j] # "degraded"

\* A secret that is reported as fetched or served from the cache has a file,
\* unless it is being written; and they all have one once the init container
\* is done.
Written ==
  /\ \A s \in Secrets :
       /\ result[s] \in {"keeper", "cache"}
       /\ s = job => Pending = {}
       => Has(Path[s])
  /\ AppStartsWithSecrets

\* What is cached under a name of its own, and what is on a path of its own, is
\* the value of that entry.
Owned ==
  \A s \in Secrets : OwnName(s) =>
    /\ cache[Name[s]] # Absent => cache[Name[s]].data.job = s
    /\ OwnPath(s) /\ Has(Path[s]) => file[Path[s]].job = s

\* A secret with a name and a path of its own that is reported as fetched or
\* served from the cache shows the cached value, unless it is being written.
UpToDate ==
  \A s \in Secrets :
    /\ OwnName(s) /\ OwnPath(s)
    /\ result[s] \in {"keeper", "cache"}
    /\ s = job => Pending = {}
    => /\ cache[Name[s]] # Absent
       /\ file[Path[s]] = cache[Name[s]].data

TypeInv  == TypeOK /\ Shape
StartInv == Atomic /\ InFlight /\ Known /\ Progress /\ Written

\* What every step preserves: the parts that AppStartsWithSecrets, OwnContent and
\* ReportedIsWritten follow from and, if no folder writes to the path of a
\* secret, the part that FilesPromise follows from (agent.go, Run to
\* writeSecretFile).
Inductive ==
  TypeInv /\ StartInv /\ Owned /\ UpToDate /\ (FoldersApart => Monotone)
============================================================================
