----------------------------- MODULE MC_Reaper -----------------------------
(* Small instances of Reaper for TLC. *)
EXTENDS Reaper

CONSTANTS p1, o1

OneTask  == {p1}
OneOther == {o1}
=============================================================================
