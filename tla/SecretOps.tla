----------------------------- MODULE SecretOps -----------------------------
(***************************************************************************)
(* What the modes of Kubernetes Secret injection mean: every entry of a    *)
(* pod acts once, at one moment, on the Secret as it is at that moment.    *)
(* K8sSecretInjection, where a stale copy is read first and the write      *)
(* comes later, implements this module.                                    *)
(***************************************************************************)
CONSTANTS
  Names,     \* names of Kubernetes Secrets
  Keys,      \* keys of their data
  Requests,  \* admitted pods
  Effects,   \* Effects[q]: what pod q writes, records with name and data
  Absent     \* no such Secret, no such key

VARIABLES
  data,      \* data[n]: the data of Secret n, a function on Keys, or Absent
  mode       \* mode[q]: the annotation k8s-secret-mode of pod q

Modes == {"overwrite", "merge", "skip-if-exists", "fail"}

Init ==
  /\ data = [n \in Names |-> Absent]
  /\ mode \in [Requests -> Modes]

Merged(old, new) == [k \in Keys |-> IF new[k] # Absent THEN new[k] ELSE old[k]]

\* The only thing that "skip-if-exists" and "fail" ever do to a Secret.
Create(e) ==
  /\ data[e.name] = Absent
  /\ data' = [data EXCEPT ![e.name] = e.data]

Merge(e) ==
  /\ data[e.name] # Absent
  /\ data' = [data EXCEPT ![e.name] = Merged(data[e.name], e.data)]

Overwrite(e) ==
  /\ data[e.name] # Absent
  /\ data' = [data EXCEPT ![e.name] = e.data]

\* Somebody else deletes the Secret.
Delete(n) == data' = [data EXCEPT ![n] = Absent]

Next ==
  \/ \E q \in Requests : \E e \in Effects[q] :
       \/ Create(e)
       \/ mode[q] = "merge" /\ Merge(e)
       \/ mode[q] = "overwrite" /\ Overwrite(e)
  \/ \E n \in Names : Delete(n)

Spec == Init /\ [][Next /\ UNCHANGED mode]_<<data, mode>>
============================================================================
