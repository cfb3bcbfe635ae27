------------------------ MODULE SidecarProbesProofs ------------------------
(***************************************************************************)
(* For all delays, periods and thresholds of the probes, and for initial   *)
(* fetches of any length, only a late fetch is killed.                     *)
(***************************************************************************)
EXTENDS SidecarProbes, TLAPS

\* The invariant holds at first: there is no process.
LEMMA PacedAtFirst == Init => Paced
<1> SUFFICES ASSUME Init
             PROVE  Paced
  OBVIOUS
<1>1. failing \subseteq Entries /\ stranded \subseteq Entries /\ ready \in BOOLEAN
  BY Zenon DEF Init
<1>2. /\ pc = "down" /\ hit = {} /\ lost = {}
      /\ need = 0 /\ spent = 0 /\ fails = 0 /\ liveDue = 0 /\ readyDue = 0
  BY DEF Init
<1>3. QED
  BY <1>1, <1>2 DEF Paced, Running, Stopped

\* Every step keeps it: time moves from the next probe to the fetch, and a
\* failure is followed by a period.
LEMMA PacedIsKept == Paced /\ [Next]_vars => Paced'
<1> SUFFICES ASSUME Paced, [Next]_vars
             PROVE  Paced'
  OBVIOUS
<1> USE ProbeAssumption DEF Paced, probes, keeper, Running, Stopped
<1>1. CASE Start
  <2>1. /\ failing' \subseteq Entries /\ stranded' \subseteq Entries
        /\ lost' \subseteq hit' /\ hit' \subseteq Entries /\ ready' \in BOOLEAN
    BY <1>1, Zenon DEF Start, Begins
  <2>2. /\ pc' = "fetching" /\ need' \in 0 .. MaxFetch /\ spent' = 0
        /\ liveDue' = InitialDelay /\ readyDue' = InitialDelay /\ fails' = 0
    BY <1>1 DEF Start, Begins
  <2>3. fails' * Period = 0
    BY <2>2
  <2>4. QED
    BY <2>1, <2>2, <2>3
<1>2. CASE Serve
  <2>1. stranded' \subseteq Entries
    BY <1>2 DEF Serve, Leaves
  <2>2. QED
    BY <1>2, <2>1 DEF Serve, Leaves, FetchEnds
<1>3. CASE InitialFails
  <2>1. stranded' \subseteq Entries
    BY <1>3 DEF InitialFails, Leaves
  <2>2. QED
    BY <1>3, <2>1 DEF InitialFails, Leaves, FetchEnds
<1>4. CASE LivenessPasses
  BY <1>4 DEF LivenessPasses, Healthz
<1>5. CASE LivenessFails
  <2>1. (fails + 1) * Period = fails * Period + Period
    OBVIOUS
  <2>2. QED
    BY <1>5, <2>1 DEF LivenessFails, Healthz
<1>6. CASE LivenessKills
  <2>1. stranded' \subseteq Entries
    BY <1>6 DEF LivenessKills, Leaves
  <2>2. QED
    BY <1>6, <2>1 DEF LivenessKills, Leaves
<1>7. CASE Readiness
  BY <1>7 DEF Readiness, Readyz
<1>8. CASE Tick
  BY <1>8 DEF Tick, FetchEnds
<1>9. ASSUME NEW now \in SUBSET Entries, Change(now)
      PROVE  Paced'
  <2>1. /\ failing' \subseteq Entries
        /\ lost' \subseteq hit' /\ hit' \subseteq Entries
    BY <1>9 DEF Change
  <2>2. QED
    BY <1>9, <2>1 DEF Change
<1>10. CASE UNCHANGED vars
  BY <1>10 DEF vars
<1>11. QED
  BY <1>1, <1>2, <1>3, <1>4, <1>5, <1>6, <1>7, <1>8, <1>9, <1>10 DEF Next, Run

\* The liveness probe counts the time of the initial fetch exactly: so many
\* periods as there were failures (buildSidecarContainer, startHealthServer).
THEOREM ProbesArePaced == Spec => []Paced
  BY PacedAtFirst, PacedIsKept, PTL DEF Spec

\* A process is killed only when its initial fetch has taken the probe's
\* patience, whether Keeper answers or not, and exits only when an entry of that
\* fetch has failed or is barred by a file left behind, with fail-on-error (Run,
\* startHealthServer, buildSidecarContainer).
THEOREM QuickStartsAreSpared == Spec => StopsOnlyWhenLate
<1> DEFINE Late ==
      /\ pc # "killed" /\ pc' = "killed" => pc = "fetching" /\ spent >= Patience
      /\ pc # "exited" /\ pc' = "exited" =>
           pc = "fetching" /\ FailOnError /\ hit \cup stranded # {}
<1>1. Paced /\ [Next]_vars => [Late]_vars
  <2> SUFFICES ASSUME Paced, Next
               PROVE  Late
    OBVIOUS
  <2>1. CASE InitialFails
    BY <2>1 DEF InitialFails, FetchEnds
  <2>2. CASE LivenessKills
    <3>1. pc = "fetching" /\ liveDue = 0 /\ pc' = "killed"
      BY <2>2 DEF LivenessKills, Healthz, Running
    <3>2. fails = FailureThreshold - 1
      BY <2>2, <3>1, ProbeAssumption DEF LivenessKills, Paced, Running
    <3>3. spent = Patience
      BY <3>1, <3>2, ProbeAssumption DEF Paced, Patience
    <3>4. QED
      BY <3>1, <3>3, ProbeAssumption DEF Paced
  <2>3. CASE ~ InitialFails /\ ~ LivenessKills
    <3>1. pc' = pc \/ pc' = "fetching" \/ pc' = "serving"
      BY <2>3 DEF Next, Run, Start, Begins, Serve, LivenessPasses, LivenessFails,
                  Readiness, Tick, Change, probes
    <3>2. QED
      BY <3>1
  <2>4. QED
    BY <2>1, <2>2, <2>3
<1>2. QED
  BY <1>1, ProbesArePaced, PTL DEF Spec, StopsOnlyWhenLate
============================================================================
