----------------------- MODULE MCK8sSecretInjection -----------------------
(***************************************************************************)
(* Pods that use the same Secrets, for TLC.                                *)
(***************************************************************************)
EXTENDS K8sSecretInjection, TLC

CONSTANTS a, b, c,  \* pods
          c1, c2,   \* replicas of the webhook
          s1,       \* a Secret
          k1, k2, k3 \* keys

E(n, ks) == [name |-> n, keys |-> ks, fits |-> TRUE, single |-> FALSE,
             inject |-> FALSE]
Single(e)   == [e EXCEPT !.single = TRUE]
TooLarge(e) == [e EXCEPT !.fits = FALSE]
Flagged(e)  == [e EXCEPT !.inject = TRUE]

\* Pods a and c on one replica, pod b on the other.
MCHandler == [q \in Requests |-> IF q = b THEN c2 ELSE c1]

\* Pods a and b write to s1: a key that is the same, and one of their own.  Pod a
\* adds its own with a second entry, which it fetches by a call of its own; the
\* second entry of b is too large.  Pod c only has the flag of its entry.
MCPlan == (a :> <<E(s1, {k1}), Single(E(s1, {k2}))>>)
       @@ (b :> <<E(s1, {k1, k3}), TooLarge(E(s1, {k1, k2}))>>)
       @@ (c :> <<Flagged(E(s1, {k1}))>>)

MCInjectAll == [q \in Requests |-> q # c]

\* All modes of a with all modes of b.
MCModesOf == [q \in Requests |-> IF q = c THEN {"overwrite"} ELSE Modes]

\* With and without an owner reference of b.
MCOwnersOf == [q \in Requests |-> IF q = b THEN BOOLEAN ELSE {FALSE}]

\* fail-on-error for pod b only.
MCFailOnError == [q \in Requests |-> q = b]
============================================================================
