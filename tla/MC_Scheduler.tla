---------------------------- MODULE MC_Scheduler ----------------------------
(* Small instances of Scheduler for TLC. *)
EXTENDS Scheduler

CONSTANTS n1, n2, c1, j1, j2, g1, p1, p2

OneNode   == {n1}
TwoNodes  == {n1, n2}
OneClient == {c1}
TwoJobs   == {j1, j2}
TwoPids   == {p1, p2}
OneCard   == {g1}

OnlyJob == j1 :> <<g1>>

\* Two jobs that want the same card.
SameCard == j1 :> <<g1>> @@ j2 :> <<g1>>

\* Jobs that ask for the same cards are interchangeable, and so are pids.
Alike == Permutations(Jobs) \cup Permutations(Pids)
=============================================================================
