--------------------------- MODULE MCBudgetLedger ---------------------------
(***************************************************************************)
(* BudgetLedger for TLC.                                                   *)
(* One request has a phase with two calls in flight (as                    *)
(* MAX_PARALLEL_PROVIDER_ATTEMPTS allows in the pipeline phase); a second  *)
(* request of the same bucket has a sequential phase with a call, and one  *)
(* that only reserves.  A request may take less than its bucket may in a   *)
(* day, so either limit binds while the other does not.                    *)
(***************************************************************************)
EXTENDS BudgetLedger, TLC

CONSTANTS r1, r2, p1, p2, p3, a1, a2, a3, b1, o1

SiblingRunOf == (p1 :> r1) @@ (p2 :> r2) @@ (p3 :> r2)
SiblingPhaseOf == (a1 :> p1) @@ (a2 :> p1) @@ (a3 :> p2)
SiblingMaxInflight == (p1 :> 2) @@ (p2 :> 1) @@ (p3 :> 1)

Capped == b1 :> 3
Uncapped == b1 :> None

Siblings == Permutations({a1, a2})
=============================================================================
