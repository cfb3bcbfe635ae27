---------------------------- MODULE SecretFiles ----------------------------
(***************************************************************************)
(* What the secrets volume promises to the application that reads it,      *)
(* whatever the agent that fills it goes through: a path, once it holds a  *)
(* secret, always holds one; what it holds is a value Keeper really had;   *)
(* and a path never goes back to an older version of the record it shows.  *)
(* SidecarAgent implements this module.                                    *)
(***************************************************************************)
EXTENDS Naturals

CONSTANTS
  Records,     \* the records of the Keeper vault
  Paths,       \* the paths of the secrets volume
  Contents,    \* what a file may hold: values with fields rec and ver
  MaxVersion,  \* bound: how often a record may be rotated
  Absent       \* no such file

VARIABLES
  ver,         \* ver[r]: the version of r that Keeper holds
  file         \* file[p]: what a reader of p finds

vars == <<ver, file>>

Init ==
  /\ ver = [r \in Records |-> 1]
  /\ file = [p \in Paths |-> Absent]

\* A person or Keeper's own rotation changes the value of a record.
Rotate(r) ==
  /\ ver[r] < MaxVersion
  /\ ver' = [ver EXCEPT ![r] = ver[r] + 1]
  /\ UNCHANGED file

\* A complete value appears at p in one step.
Publish(p, c) ==
  /\ c.ver <= ver[c.rec]
  /\ file[p] # Absent => (file[p].rec = c.rec => file[p].ver <= c.ver)
  /\ file' = [file EXCEPT ![p] = c]
  /\ UNCHANGED ver

Next ==
  \/ \E r \in Records : Rotate(r)
  \/ \E p \in Paths, c \in Contents : Publish(p, c)

Spec == Init /\ [][Next]_vars
============================================================================
