--------------------------- MODULE MCPaidRuntime ----------------------------
(***************************************************************************)
(* PaidRuntime for TLC: a request whose phase makes two calls at a time,   *)
(* and, where money is compared between requests, a second one on the      *)
(* same invite link.                                                       *)
(***************************************************************************)
EXTENDS PaidRuntime, TLC

CONSTANTS r1, r2, p1, p2, a1, a2, b1

SiblingRunOf == [p \in Phases |-> r1]
SiblingPhaseOf == [a \in Attempts |-> p1]
LinkRunOf == (p1 :> r1) @@ (p2 :> r2)
LinkPhaseOf == (a1 :> p1) @@ (a2 :> p2)
TwoInflight == [p \in Phases |-> 2]

Capped == b1 :> 1
Uncapped == b1 :> None
=============================================================================
