------------------------------ MODULE MC_Files ------------------------------
(* Small instances of Files for TLC. *)
EXTENDS Files, TLC

CONSTANTS u1, u2, r1, a

OneUpload  == {u1}
TwoUploads == {u1, u2}
OneReq     == {r1}
OneName    == {a}
OnlyName   == u1 :> a
SameName   == u1 :> a @@ u2 :> a
=============================================================================
