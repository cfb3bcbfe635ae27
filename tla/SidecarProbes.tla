--------------------------- MODULE SidecarProbes ---------------------------
(***************************************************************************)
(* The sidecar under the probes that the webhook gives it                  *)
(* (pkg/webhook/handler.go) and the kubelet carries out.  The health       *)
(* server of the agent (pkg/sidecar/agent.go) listens only after the       *)
(* initial fetch, which takes the longer the more entries there are and    *)
(* the more attempts fail; until then every probe is refused.  Time is     *)
(* counted in units that divide the delays and periods of the probes.      *)
(***************************************************************************)
EXTENDS Integers

CONSTANTS
  Entries,          \* the secrets and folders of the configuration
  InitialDelay,     \* initialDelaySeconds, of both probes
  Period,           \* periodSeconds, of both probes
  FailureThreshold, \* failures of the liveness probe in a row that kill
  MaxFetch,         \* bound: the time that an initial fetch takes
  FailOnError       \* the annotation fail-on-error

ASSUME ProbeAssumption ==
  /\ InitialDelay \in Nat
  /\ Period \in Nat \ {0}
  /\ FailureThreshold \in Nat \ {0}
  /\ MaxFetch \in Nat
  /\ FailOnError \in BOOLEAN

VARIABLES
  failing,   \* entries that cannot be had now: Keeper does not answer or lacks
             \* what is named, or a secret's file cannot be written
  stranded,  \* secrets with a temporary file that a killed process or a write
             \* to a full volume has left: none of them can be written again (see
             \* SidecarAgent!OpenDenied; a file of a folder that cannot be
             \* written is only logged)
  hit,       \* entries that have failed at some time of this initial fetch
  lost,      \* and those that have failed all the time
  pc,        \* the process: down, fetching, serving, killed or exited
  need,      \* the time that the initial fetch takes this time
  spent,     \* how much of it has passed
  liveDue,   \* the time until the next liveness probe
  readyDue,  \* and until the next readiness probe
  fails,     \* failures of the liveness probe in a row
  ready      \* what the last readiness probe has found

probes == <<liveDue, readyDue, fails, ready>>
keeper == <<failing, stranded, hit, lost>>
vars   == <<keeper, pc, need, spent, probes>>

Running == {"fetching", "serving"}
Stopped == {"down", "killed", "exited"}

\* With fail-on-error, the init container ends when it has written all entries;
\* otherwise it may leave a temporary file.
Init ==
  /\ failing \in SUBSET Entries
  /\ stranded \in SUBSET Entries
  /\ FailOnError => stranded = {}
  /\ hit = {}
  /\ lost = {}
  /\ pc = "down"
  /\ need = 0
  /\ spent = 0
  /\ liveDue = 0
  /\ readyDue = 0
  /\ fails = 0
  /\ ready = FALSE
----------------------------------------------------------------------------
(* The agent. *)

\* A new process begins with the entries; the kubelet counts anew.
Begins ==
  /\ pc \in Stopped
  /\ pc' = "fetching"
  /\ need' \in 0 .. MaxFetch
  /\ spent' = 0
  /\ hit' = failing
  /\ lost' = failing
  /\ fails' = 0
  /\ ready' = FALSE
  /\ readyDue' = InitialDelay
  /\ UNCHANGED <<failing, stranded>>

\* Mutant of Start: the liveness probe has no initial delay.
StartUndelayed == Begins /\ liveDue' = 0

\* Run: the process starts with the initial fetch.
Start == Begins /\ liveDue' = InitialDelay

FetchEnds == pc = "fetching" /\ spent = need

\* Some of the entries may have left a temporary file.
Leaves(entries) ==
  /\ \E debris \in SUBSET entries : stranded' = stranded \cup debris
  /\ UNCHANGED <<failing, hit, lost>>

\* runSidecarMode: the health server and the refresh loop.  With fail-on-error,
\* every entry has been fetched and written, so each had a moment to be had; the
\* cache is empty in an initial fetch.
Serve ==
  /\ FetchEnds
  /\ FailOnError => lost \cup stranded = {}
  /\ pc' = "serving"
  /\ Leaves(IF FailOnError THEN {} ELSE hit)
  /\ UNCHANGED <<need, spent, probes>>

\* An entry has failed, in all its attempts: Run returns the error, and main
\* exits.
InitialFails ==
  /\ FetchEnds
  /\ FailOnError
  /\ hit \cup stranded # {}
  /\ pc' = "exited"
  /\ Leaves(hit)
  /\ UNCHANGED <<need, spent, probes>>

\* Mutant of Healthz: a refresh that fails makes the sidecar unhealthy.
HealthzIfRefreshed == pc = "serving" /\ failing = {}

\* /healthz; nothing ever sets healthy to FALSE, a refresh that fails neither.
Healthz == pc = "serving"

\* Mutant of Readyz: an attempt that has failed in the initial fetch keeps the
\* sidecar from being ready.
ReadyzIfUnhit == pc = "serving" /\ hit = {}

\* /readyz; ready is set before the server listens.
Readyz == pc = "serving"
----------------------------------------------------------------------------
(* The kubelet. *)

LivenessPasses ==
  /\ pc \in Running /\ liveDue = 0
  /\ Healthz
  /\ fails' = 0
  /\ liveDue' = Period
  /\ UNCHANGED <<keeper, pc, need, spent, readyDue, ready>>

LivenessFails ==
  /\ pc \in Running /\ liveDue = 0
  /\ ~ Healthz
  /\ fails + 1 < FailureThreshold
  /\ fails' = fails + 1
  /\ liveDue' = Period
  /\ UNCHANGED <<keeper, pc, need, spent, readyDue, ready>>

\* The container is killed, perhaps while a temporary file of an entry is there,
\* and started again later.
LivenessKills ==
  /\ pc \in Running /\ liveDue = 0
  /\ ~ Healthz
  /\ fails + 1 >= FailureThreshold
  /\ pc' = "killed"
  /\ Leaves(Entries)
  /\ ready' = FALSE
  /\ UNCHANGED <<need, spent, liveDue, readyDue, fails>>

Readiness ==
  /\ pc \in Running /\ readyDue = 0
  /\ ready' = Readyz
  /\ readyDue' = Period
  /\ UNCHANGED <<keeper, pc, need, spent, liveDue, fails>>

\* Time passes, unless something is due.
Tick ==
  /\ pc \in Running /\ liveDue > 0 /\ readyDue > 0
  /\ ~ FetchEnds
  /\ liveDue' = liveDue - 1
  /\ readyDue' = readyDue - 1
  /\ spent' = IF pc = "fetching" THEN spent + 1 ELSE spent
  /\ UNCHANGED <<keeper, pc, need, fails, ready>>

\* Outages begin and end, records come and go.
Change(now) ==
  /\ now # failing
  /\ failing' = now
  /\ hit' = IF pc = "fetching" THEN hit \cup now ELSE hit
  /\ lost' = IF pc = "fetching" THEN lost \cap now ELSE lost
  /\ UNCHANGED <<stranded, pc, need, spent, probes>>

Run ==
  \/ Start \/ Serve \/ InitialFails
  \/ LivenessPasses \/ LivenessFails \/ LivenessKills \/ Readiness \/ Tick

Next == Run \/ \E now \in SUBSET Entries : Change(now)

Spec == Init /\ [][Next]_vars

\* Process and kubelet go on, and time passes; outages may last for ever.
FairSpec == Spec /\ WF_vars(Run)
----------------------------------------------------------------------------
(* Properties. *)

\* The time from the start until the last failure of the liveness probe.
Patience == InitialDelay + (FailureThreshold - 1) * Period

\* The invariant: all variables have their types, and each failure so far is one
\* period of the initial fetch.
Paced ==
  /\ failing \subseteq Entries /\ stranded \subseteq Entries
  /\ lost \subseteq hit /\ hit \subseteq Entries
  /\ pc \in Running \cup Stopped /\ ready \in BOOLEAN
  /\ need \in Nat /\ spent \in Nat /\ fails \in Nat
  /\ liveDue \in Nat /\ readyDue \in Nat
  /\ spent <= need
  /\ pc = "fetching" => spent + liveDue = InitialDelay + fails * Period
  /\ pc \in Running => fails < FailureThreshold

\* The kubelet never kills a sidecar that serves, in an outage neither, and one
\* that still fetches only after the probe's patience; a sidecar ends by itself
\* only in its initial fetch, with fail-on-error, when an entry has failed (Run,
\* startHealthServer, buildSidecarContainer).
StopsOnlyWhenLate ==
  [][/\ pc # "killed" /\ pc' = "killed" => pc = "fetching" /\ spent >= Patience
     /\ pc # "exited" /\ pc' = "exited" =>
          pc = "fetching" /\ FailOnError /\ hit \cup stranded # {}]_vars

\* When from some time on initial fetches are shorter than the patience and, with
\* fail-on-error, every entry can be had and no temporary file was left, the pod
\* becomes ready and stays so, whatever else happened before (runSidecarMode,
\* startHealthServer).  A file that was left with fail-on-error stops every later
\* process; without it, neither files nor outages keep the pod from being ready.
BecomesReady ==
  <>[](/\ pc = "fetching" => need < Patience
       /\ FailOnError => failing \cup stranded = {}) => <>[] ready
============================================================================
