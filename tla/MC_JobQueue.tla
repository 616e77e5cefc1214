---------------------------- MODULE MC_JobQueue ----------------------------
(* Small instances of JobQueue for TLC. *)
EXTENDS JobQueue, TLC

CONSTANTS j1, j2, j3, c1, c2

ThreeJobs == {j1, j2, j3}
OneAdmin  == {c1}
TwoAdmins == {c1, c2}

\* As with the ids 8, 9, 10: spelled, the later ones come first.
Spelled3 == j1 :> 2 @@ j2 :> 3 @@ j3 :> 1

\* Users of low (1) and high (2) priority.
Mixed3 == j1 :> 1 @@ j2 :> 2 @@ j3 :> 1
=============================================================================
