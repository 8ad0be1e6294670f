-------------------------- MODULE MCCallAdmission ---------------------------
(***************************************************************************)
(* CallAdmission for TLC: three parallel calls of one request (two that    *)
(* wait for their siblings' money and one that does not) on fewer slots    *)
(* than calls.                                                             *)
(***************************************************************************)
EXTENDS CallAdmission, TLC

CONSTANTS r1, c1, c2, c3

OneRequest == [c \in Calls |-> r1]
=============================================================================
