----------------------------- MODULE MC_Console -----------------------------
(* Small instances of Console for TLC. *)
EXTENDS Console, TLC

CONSTANTS u1, r1, r2, c1, c2, w1, w2, s1, s2

OneUser  == {u1}
OneWrap  == {w1}
OneSock  == {s1}
TwoReqs  == {r1, r2}
TwoConns == {c1, c2}
TwoWraps == {w1, w2}
TwoSocks == {s1, s2}

Alike == Permutations(Reqs) \cup Permutations(Conns) \cup Permutations(Wraps) \cup Permutations(Socks)
=============================================================================
