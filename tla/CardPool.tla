------------------------------- MODULE CardPool -------------------------------
(***************************************************************************)
(* What the GPU service promises its callers: the cards of a job pass from *)
(* idle to the job all at once, and back to idle all at once; and a job is *)
(* told its cards are available only while they are.                       *)
(***************************************************************************)
EXTENDS FiniteSets, Integers, Sequences

CONSTANTS Cards, Jobs, GpuIDs, NoJob

VARIABLES
  owner,      \* the job each card is assigned to
  granted     \* jobs told that their cards are available

Wanted(j)    == {GpuIDs[j][i] : i \in DOMAIN GpuIDs[j]}
Available(j) == Wanted(j) \subseteq Cards /\ \A c \in Wanted(j) : owner[c] = NoJob
Assigned(j)  == \A c \in Wanted(j) \cap Cards : owner[c] = j
Assign(j, o) == [c \in Cards |-> IF c \in Wanted(j) THEN o ELSE owner[c]]

Init == owner = [c \in Cards |-> NoJob] /\ granted = {}

Say(j)     == Available(j) /\ granted' = granted \cup {j} /\ UNCHANGED owner
Forget(j)  == granted' = granted \ {j} /\ UNCHANGED owner
Acquire(j) == j \in granted /\ Available(j) /\ owner' = Assign(j, j) /\ granted' = granted \ {j}
Release(j) == Assigned(j) /\ owner' = Assign(j, NoJob) /\ UNCHANGED granted

Next == \E j \in Jobs : Say(j) \/ Forget(j) \/ Acquire(j) \/ Release(j)

Spec == Init /\ [][Next]_<<owner, granted>>
=============================================================================
