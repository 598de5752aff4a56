------------------------------- MODULE Releases -------------------------------
(***************************************************************************)
(* What the directory of task outputs promises to a program that opens an  *)
(* output through its link "current", as labed does: a link leads to a     *)
(* complete output or nowhere, what it leads to is neither replaced nor    *)
(* removed, and it only ever moves on to the newest output there is.       *)
(* ArtifactStore implements this, Deployment builds on it.                 *)
(***************************************************************************)
EXTENDS Integers

CONSTANTS Item, Version, \* linked outputs, their versions
          Content,       \* what may be in an output
          Absent,        \* in place of the content of an output that is not there
          None           \* in place of a link that is not there

VARIABLES stored, link

releases == <<stored, link>>

Present(t) == {n \in Version : stored[t][n] # Absent}

ReleasesInit ==
  /\ stored = [t \in Item |-> [n \in Version |-> Absent]]
  /\ link = [t \in Item |-> None]

(* An output appears at once and complete, and never under the link.       *)
Publish(t, n, c) ==
  /\ link[t] # n
  /\ stored' = [stored EXCEPT ![t][n] = c]
  /\ UNCHANGED link

Discard(t, n) ==
  /\ link[t] # n
  /\ stored' = [stored EXCEPT ![t][n] = Absent]
  /\ UNCHANGED link

Unpoint(t) ==
  /\ link' = [link EXCEPT ![t] = None]
  /\ UNCHANGED stored

Point(t, n) ==
  /\ link[t] = None
  /\ n \in Present(t)
  /\ \A m \in Present(t) : m <= n
  /\ link' = [link EXCEPT ![t] = n]
  /\ UNCHANGED stored

ReleasesNext ==
  \E t \in Item :
    \/ Unpoint(t)
    \/ \E n \in Version : Discard(t, n) \/ Point(t, n) \/ \E c \in Content : Publish(t, n, c)

ReleasesSpec == ReleasesInit /\ [][ReleasesNext]_releases
=============================================================================
