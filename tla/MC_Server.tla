----------------------------- MODULE MC_Server -----------------------------
(* Small instances of Server for TLC. *)
EXTENDS Server, TLC

CONSTANTS c1, c2, r1

TwoClients == {c1, c2}
OneReq     == {r1}
BothInfo   == c1 :> "systemInfo" @@ c2 :> "systemInfo"
=============================================================================
