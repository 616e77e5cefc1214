---------------------------- MODULE MC_GpuCards ----------------------------
(* Small instances of GpuCards for TLC. *)
EXTENDS GpuCards, TLC

CONSTANTS j1, j2, j3, g1, g2, g9, i1

TwoCards  == {g1, g2}
ThreeIDs  == {g1, g2, g9}
ThreeJobs == {j1, j2, j3}
OneInstance == {i1}

\* Overlapping requests, and one that names a card that does not exist.
Unknown == j1 :> <<g1, g2>> @@ j2 :> <<g2, g1>> @@ j3 :> <<g1, g9>>
=============================================================================
