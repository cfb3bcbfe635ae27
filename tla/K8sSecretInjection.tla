------------------------ MODULE K8sSecretInjection ------------------------
(***************************************************************************)
(* Kubernetes Secret injection of the webhook (pkg/webhook/k8s_secret.go): *)
(* admission requests for different pods run at the same time, in one or   *)
(* several replicas of the webhook.  Each request fetches its entries from *)
(* Keeper and creates or updates one Secret per entry.  It reads a Secret  *)
(* from the cache of its replica, which lags behind the API server, and    *)
(* then writes to the API server, which refuses to create what exists and  *)
(* to update a version that is not the latest.                             *)
(* At admission the pod has no UID yet, and the API server refuses an      *)
(* owner reference without one (k8s-secret-owner-ref, on by default).      *)
(***************************************************************************)
EXTENDS Naturals, Sequences

CONSTANTS
  Names,        \* names of Kubernetes Secrets
  Keys,         \* keys of their data
  Requests,     \* admission requests, one for each pod
  Replicas,     \* replicas of the webhook
  Handler,      \* Handler[q]: the replica that gets request q
  Plan,         \* Plan[q]: the entries under "secrets" of pod q, in order
  InjectAll,    \* InjectAll[q]: the annotation inject-as-k8s-secret
  ModesOf,      \* ModesOf[q]: the values its k8s-secret-mode may have
  FailOnError,  \* FailOnError[q]: the annotation fail-on-error
  OwnersOf,     \* OwnersOf[q]: the values its k8s-secret-owner-ref may have
  MaxDeletes,   \* bound: deletions of a Secret by somebody else
  MaxErrors,    \* bound: failing calls of the API server
  Absent        \* no such Secret, no such key

\* An entry: the name of its Secret, the keys that its record provides, whether
\* the Secret is small enough, whether it is fetched by a call of its own
\* (notation or file), and its own flag injectAsK8sSecret.
EntryType == [name : Names, keys : SUBSET Keys, fits : BOOLEAN,
              single : BOOLEAN, inject : BOOLEAN]

Modes == {"overwrite", "merge", "skip-if-exists", "fail"}

ASSUME PlanAssumption ==
  /\ Handler \in [Requests -> Replicas]
  /\ Plan \in [Requests -> Seq(EntryType)]
  /\ InjectAll \in [Requests -> BOOLEAN]
  /\ ModesOf \in [Requests -> SUBSET Modes]
  /\ FailOnError \in [Requests -> BOOLEAN]
  /\ OwnersOf \in [Requests -> SUBSET BOOLEAN]
  /\ MaxDeletes \in Nat
  /\ MaxErrors \in Nat

\* A value is told by the entry that it comes from.
Sources == [pod : Requests, entry : Nat]
Data    == [Keys -> Sources \cup {Absent}]
Objects == [data : Data, rv : Nat]

ASSUME SentinelAssumption == Absent \notin Sources \cup Data \cup Objects

VARIABLES
  \* the API server
  store,    \* store[n]: the Secret n
  rev,      \* the resource version that was given out last
  deletes,  \* deletions so far
  errors,   \* failing calls so far
  \* the replicas
  view,     \* view[c][n]: the Secret n in the informer cache of replica c
  \* the requests
  mode,     \* mode[q]: the annotation k8s-secret-mode
  owner,    \* owner[q]: the annotation k8s-secret-owner-ref
  pc,       \* the program point of the request
  idx,      \* the entry it is working on
  got,      \* the entries that Keeper answered for
  obj,      \* the Secret it has read, to be updated
  cause     \* why it was denied

server == <<store, rev, deletes, errors>>
vars   == <<server, view, mode, owner, pc, idx, got, obj, cause>>

Entries(q) == 1 .. Len(Plan[q])
Entry(q)   == Plan[q][idx[q]]

\* filterK8sSecretConfigs
Wanted(q) == {i \in Entries(q) : Plan[q][i].inject \/ InjectAll[q]}

\* Mutant of DataOf: a function on the keys of the entry only.
DataOfKeys(q, i) == [k \in Plan[q][i].keys |-> [pod |-> q, entry |-> i]]

\* buildK8sSecret
DataOf(q, i) ==
  [k \in Keys |-> IF k \in Plan[q][i].keys THEN [pod |-> q, entry |-> i] ELSE Absent]

\* Mutant of Merged: what is there wins.
MergedOld(old, new) == [k \in Keys |-> IF old[k] # Absent THEN old[k] ELSE new[k]]

Merged(old, new) == [k \in Keys |-> IF new[k] # Absent THEN new[k] ELSE old[k]]
----------------------------------------------------------------------------
Init ==
  /\ store = [n \in Names |-> Absent]
  /\ rev = 0
  /\ deletes = 0
  /\ errors = 0
  /\ view = [c \in Replicas |-> store]
  /\ mode \in {m \in [Requests -> Modes] : \A q \in Requests : m[q] \in ModesOf[q]}
  /\ owner \in {o \in [Requests -> BOOLEAN] : \A q \in Requests : o[q] \in OwnersOf[q]}
  /\ pc = [q \in Requests |-> "sent"]
  /\ idx = [q \in Requests |-> 1]
  /\ got = [q \in Requests |-> {}]
  /\ obj = [q \in Requests |-> Absent]
  /\ cause = [q \in Requests |-> "none"]
----------------------------------------------------------------------------
Goto(q, point) == pc' = [pc EXCEPT ![q] = point]

\* The entry is done: the next one, or the pod is allowed.
Advance(q) ==
  /\ idx' = [idx EXCEPT ![q] = @ + 1]
  /\ obj' = [obj EXCEPT ![q] = Absent]
  /\ Goto(q, IF idx[q] < Len(Plan[q]) THEN "get" ELSE "allowed")

\* An error ends the request and denies the pod; what it has written stays.
Deny(q, why) ==
  /\ Goto(q, "denied")
  /\ cause' = [cause EXCEPT ![q] = why]
  /\ obj' = [obj EXCEPT ![q] = Absent]

\* Nothing to do without the annotation, or without entries.
NotAsked(q) ==
  /\ pc[q] = "sent"
  /\ ~ InjectAll[q] \/ Wanted(q) = {}
  /\ Goto(q, "allowed")
  /\ UNCHANGED <<server, view, mode, owner, idx, got, obj, cause>>

\* Keeper answers.  A record that is not found is left out, unless
\* fail-on-error is set.
Fetch(q) ==
  /\ pc[q] = "sent"
  /\ InjectAll[q] /\ Wanted(q) # {}
  /\ \E found \in SUBSET Wanted(q) :
       /\ {i \in Wanted(q) : Plan[q][i].single} \subseteq found
       /\ FailOnError[q] => found = Wanted(q)
       /\ got' = [got EXCEPT ![q] = found]
  /\ Goto(q, "get")
  /\ UNCHANGED <<server, view, mode, owner, idx, obj, cause>>

\* The client, the list call or a single call fails: the pod is denied, or it
\* is allowed and nothing is injected.
FetchFails(q) ==
  /\ pc[q] = "sent"
  /\ InjectAll[q] /\ Wanted(q) # {}
  /\ IF FailOnError[q] THEN Deny(q, "fetch")
     ELSE Goto(q, "allowed") /\ UNCHANGED <<obj, cause>>
  /\ UNCHANGED <<server, view, mode, owner, idx, got>>

\* Mutant of SkipMissing: the loop does not go on.
SkipForever(q) ==
  /\ pc[q] = "get"
  /\ idx[q] \notin got[q]
  /\ UNCHANGED vars

SkipMissing(q) ==
  /\ pc[q] = "get"
  /\ idx[q] \notin got[q]
  /\ Advance(q)
  /\ UNCHANGED <<server, view, mode, owner, got, cause>>

\* No name, or more than 1 MB: the pod is denied, with or without fail-on-error.
BuildFails(q) ==
  /\ pc[q] = "get"
  /\ idx[q] \in got[q]
  /\ ~ Entry(q).fits
  /\ Deny(q, "build")
  /\ UNCHANGED <<server, view, mode, owner, idx, got>>

Reads(q) == pc[q] = "get" /\ idx[q] \in got[q] /\ Entry(q).fits

Seen(q) == view[Handler[q]][Entry(q).name]

GetNotFound(q) ==
  /\ Reads(q)
  /\ Seen(q) = Absent
  /\ Goto(q, "create")
  /\ UNCHANGED <<server, view, mode, owner, idx, got, obj, cause>>

GetSkips(q) ==
  /\ Reads(q)
  /\ Seen(q) # Absent
  /\ mode[q] = "skip-if-exists"
  /\ Advance(q)
  /\ UNCHANGED <<server, view, mode, owner, got, cause>>

GetRefuses(q) ==
  /\ Reads(q)
  /\ Seen(q) # Absent
  /\ mode[q] = "fail"
  /\ Deny(q, "exists")
  /\ UNCHANGED <<server, view, mode, owner, idx, got>>

\* What the entry makes of the data of an existing Secret.
Changed(q, old) ==
  IF mode[q] = "merge" THEN Merged(old, DataOf(q, idx[q])) ELSE DataOf(q, idx[q])

\* Mutant of GetForUpdate: overwrite merges as well.
GetForMerge(q) ==
  /\ Reads(q)
  /\ Seen(q) # Absent
  /\ mode[q] \in {"merge", "overwrite"}
  /\ obj' = [obj EXCEPT ![q] = [rv |-> Seen(q).rv,
                               data |-> Merged(Seen(q).data, DataOf(q, idx[q]))]]
  /\ Goto(q, "update")
  /\ UNCHANGED <<server, view, mode, owner, idx, got, cause>>

\* The copy that is read is changed and keeps its resource version.
GetForUpdate(q) ==
  /\ Reads(q)
  /\ Seen(q) # Absent
  /\ mode[q] \in {"merge", "overwrite"}
  /\ obj' = [obj EXCEPT ![q] = [rv |-> Seen(q).rv,
                               data |-> Changed(q, Seen(q).data)]]
  /\ Goto(q, "update")
  /\ UNCHANGED <<server, view, mode, owner, idx, got, cause>>

Write(n, d) ==
  /\ rev' = rev + 1
  /\ store' = [store EXCEPT ![n] = [data |-> d, rv |-> rev + 1]]
  /\ UNCHANGED <<deletes, errors>>

\* Mutant of Create: the API server is asked to apply, not to create.
Upsert(q) ==
  /\ pc[q] = "create"
  /\ Write(Entry(q).name, DataOf(q, idx[q]))
  /\ Advance(q)
  /\ UNCHANGED <<view, mode, owner, got, cause>>

Create(q) ==
  /\ pc[q] = "create"
  /\ ~ owner[q]
  /\ store[Entry(q).name] = Absent
  /\ Write(Entry(q).name, DataOf(q, idx[q]))
  /\ Advance(q)
  /\ UNCHANGED <<view, mode, owner, got, cause>>

CreateConflicts(q) ==
  /\ pc[q] = "create"
  /\ ~ owner[q]
  /\ store[Entry(q).name] # Absent
  /\ Deny(q, "exists")
  /\ UNCHANGED <<server, view, mode, owner, idx, got>>

\* The version that was read is still the latest.
Latest(q) ==
  /\ store[Entry(q).name] # Absent
  /\ store[Entry(q).name].rv = obj[q].rv

\* Mutant of Update: whatever version the Secret has.
UpdateBlindly(q) ==
  /\ pc[q] = "update"
  /\ store[Entry(q).name] # Absent
  /\ Write(Entry(q).name, obj[q].data)
  /\ Advance(q)
  /\ UNCHANGED <<view, mode, owner, got, cause>>

Update(q) ==
  /\ pc[q] = "update"
  /\ ~ owner[q]
  /\ Latest(q)
  /\ Write(Entry(q).name, obj[q].data)
  /\ Advance(q)
  /\ UNCHANGED <<view, mode, owner, got, cause>>

UpdateConflicts(q) ==
  /\ pc[q] = "update"
  /\ ~ owner[q]
  /\ ~ Latest(q)
  /\ Deny(q, "conflict")
  /\ UNCHANGED <<server, view, mode, owner, idx, got>>

\* The Secret that is sent is owned by a pod without a UID, and not valid.
WriteRefused(q) ==
  /\ pc[q] \in {"create", "update"}
  /\ owner[q]
  /\ Deny(q, "invalid")
  /\ UNCHANGED <<server, view, mode, owner, idx, got>>

\* The API server, or the way to it, fails.
ApiFails(q) ==
  /\ pc[q] \in {"create", "update"} \/ Reads(q)
  /\ errors < MaxErrors
  /\ errors' = errors + 1
  /\ Deny(q, "api")
  /\ UNCHANGED <<store, rev, deletes, view, mode, owner, idx, got>>
----------------------------------------------------------------------------
\* The informer of a replica catches up with one Secret.
Sync(c, n) ==
  /\ view[c][n] # store[n]
  /\ view' = [view EXCEPT ![c][n] = store[n]]
  /\ UNCHANGED <<server, mode, owner, pc, idx, got, obj, cause>>

\* Somebody deletes a Secret.
Delete(n) ==
  /\ deletes < MaxDeletes
  /\ store[n] # Absent
  /\ store' = [store EXCEPT ![n] = Absent]
  /\ rev' = rev + 1
  /\ deletes' = deletes + 1
  /\ UNCHANGED <<errors, view, mode, owner, pc, idx, got, obj, cause>>

Handle(q) ==
  \/ NotAsked(q) \/ Fetch(q) \/ FetchFails(q) \/ SkipMissing(q)
  \/ BuildFails(q) \/ GetNotFound(q) \/ GetSkips(q) \/ GetRefuses(q)
  \/ GetForUpdate(q) \/ Create(q) \/ CreateConflicts(q) \/ Update(q)
  \/ UpdateConflicts(q) \/ WriteRefused(q)

Next ==
  \/ \E q \in Requests : Handle(q) \/ ApiFails(q)
  \/ \E c \in Replicas, n \in Names : Sync(c, n)
  \/ \E n \in Names : Delete(n)

Spec == Init /\ [][Next]_vars

\* The goroutine of every request goes on.
FairSpec == Spec /\ \A q \in Requests : WF_vars(Handle(q))
----------------------------------------------------------------------------
(* Properties. *)

\* The type invariant of API server, informer caches and requests.
TypeOK ==
  /\ store \in [Names -> Objects \cup {Absent}]
  /\ rev \in Nat
  /\ deletes \in 0 .. MaxDeletes
  /\ errors \in 0 .. MaxErrors
  /\ view \in [Replicas -> [Names -> Objects \cup {Absent}]]
  /\ mode \in [Requests -> Modes]
  /\ owner \in [Requests -> BOOLEAN]
  /\ pc \in [Requests -> {"sent", "get", "create", "update", "allowed", "denied"}]
  /\ idx \in [Requests -> Nat]
  /\ got \in [Requests -> SUBSET Nat]
  /\ obj \in [Requests -> Objects \cup {Absent}]
  /\ cause \in [Requests -> {"none", "fetch", "build", "exists", "conflict", "invalid", "api"}]

\* A request works on the entries of its pod, one after the other, and writes for
\* those that Keeper answered for.
InRange ==
  \A q \in Requests :
    /\ pc[q] = "sent" => idx[q] = 1 /\ got[q] = {}
    /\ got[q] \subseteq Entries(q)
    /\ pc[q] \in {"get", "create", "update"} => idx[q] \in Entries(q)
    /\ pc[q] \in {"create", "update"} => idx[q] \in got[q]
    /\ pc[q] = "update" => obj[q] # Absent /\ mode[q] \in {"merge", "overwrite"}

\* No copy is newer than the API server, and a replica that has the latest
\* version of a Secret has the Secret.
ViewsAgree ==
  /\ \A n \in Names : store[n] # Absent => store[n].rv <= rev
  /\ \A c \in Replicas, n \in Names : view[c][n] # Absent =>
       /\ view[c][n].rv <= rev
       /\ store[n] # Absent /\ view[c][n].rv = store[n].rv => view[c][n] = store[n]
       /\ deletes = 0 => store[n] # Absent
  /\ \A q \in Requests : obj[q] # Absent => obj[q].rv <= rev

\* A Secret to be sent that has the latest version is made from the latest data.
CopiesAgree ==
  \A q \in Requests :
    pc[q] = "update" /\ Latest(q) => obj[q].data = Changed(q, store[Entry(q).name].data)

\* What a stale cache cannot break: the invariant behind ActsAtomically
\* (createOrUpdateSecret).
Inductive == TypeOK /\ InRange /\ ViewsAgree /\ CopiesAgree

DataIn(s) == [n \in Names |-> IF s[n] = Absent THEN Absent ELSE s[n].data]

SO == INSTANCE SecretOps WITH
        data <- DataIn(store),
        Effects <- [q \in Requests |->
                      {[name |-> Plan[q][i].name, data |-> DataOf(q, i)] :
                         i \in Entries(q)}]

\* However stale the cache that was read is, every write acts on the Secret as
\* it is at that moment, the way the mode says: merge keeps the keys that
\* others have added, "skip-if-exists" and "fail" change no existing Secret
\* (createOrUpdateSecret).
ActsAtomically == SO!Spec

Done(q) == {i \in got[q] : i < idx[q]}

\* Every request that writes to Secret n merges or leaves an existing one alone.
NeverOverwritten(n) ==
  \A q \in Requests : \A i \in got[q] :
    Plan[q][i].name = n => mode[q] # "overwrite"

\* The Secret of entry i of request q is there, and with it the keys that were
\* merged.
Stays(q, i) ==
  LET n == Plan[q][i].name IN
  /\ store[n] # Absent
  /\ mode[q] = "merge" /\ NeverOverwritten(n) =>
       \A k \in Plan[q][i].keys : store[n].data[k] # Absent

\* What a request has done is there until somebody deletes it: each Secret,
\* and the keys it has merged, whatever other requests merge at the same time
\* (createOrUpdateSecret, mode merge).
DoneStays ==
  deletes = 0 => \A q \in Requests : \A i \in Done(q) : Stays(q, i)

\* Mode fail: of all entries that name a Secret, one at most gets it
\* (createOrUpdateSecret, mode fail).
FailIsExclusive ==
  deletes = 0 =>
    \A q, x \in Requests : \A i \in Done(q), j \in Done(x) :
      /\ mode[q] = "fail" /\ mode[x] = "fail"
      /\ Plan[q][i].name = Plan[x][j].name
      => q = x /\ i = j

\* The API server waits for the webhook: every request gets an answer.
EveryRequestAnswered ==
  \A q \in Requests : <>(pc[q] \in {"allowed", "denied"})
----------------------------------------------------------------------------
(* What the documentation says, and the code does not do. *)

\* docs/injection-modes.md: skip-if-exists "Does nothing if Secret already
\* exists. Use for idempotent deployments", merge is for "when multiple pods
\* update the same Secret": in these modes, no pod is denied because another
\* one has written the Secret.
ToleratesOthers ==
  \A q \in Requests :
    mode[q] \in {"skip-if-exists", "merge"} => cause[q] \notin {"exists", "conflict"}

\* docs/configuration.md: k8s-secret-owner-ref, "true" by default, means
\* "Auto-delete Secret when pod terminates"; so a pod that asks for it gets its
\* Secret, and is not denied because of it.
OwnersAccepted == \A q \in Requests : cause[q] # "invalid"
============================================================================
