---------------------------- MODULE MC_Accounts ----------------------------
(* Small instances of Accounts for TLC. *)
EXTENDS Accounts, TLC

CONSTANTS n1, n2, e1, e2, r1, r2, r3

OneName   == {n1}
TwoNames  == {n1, n2}
OneEmail  == {e1}
TwoEmails == {e1, e2}
TwoReqs   == {r1, r2}
ThreeReqs == {r1, r2, r3}
Alike     == Permutations(ThreeReqs) \cup Permutations(TwoNames)
=============================================================================
