----------------------------- MODULE SingleFlight -----------------------------
(***************************************************************************)
(* The lease table of features/report_delivery/singleflight.py: one row    *)
(* per generation key, at most one of them ACTIVE per cost scope, handed   *)
(* from owner to owner under a fencing token that only grows.              *)
(*                                                                         *)
(* A key is the five columns of LeaseKey; ScopeOf maps it to the three of  *)
(* the partial unique index (bucket, company, source): two namespaces or   *)
(* epochs of one report share a scope.  An expiry instant is the time      *)
(* left, so `expires_at > now' is left > 0.  The random lease_token of an  *)
(* acquisition is folded into the fencing token: both are new at once, and *)
(* no row is ever deleted.  Failure codes are not kept.                    *)
(***************************************************************************)
EXTENDS Naturals, FiniteSets

CONSTANTS
    Keys,       \* lease keys
    Scopes,     \* cost scopes
    ScopeOf,    \* the scope of a key
    Sessions,   \* owners: one generation session each
    LeaseTtl,   \* ticks an owner's lease lives after a heartbeat
    FanoutTtl,  \* ticks an outcome is shared with waiters
    None

ASSUME LeaseAssumption ==
    /\ ScopeOf \in [Keys -> Scopes]
    /\ LeaseTtl \in Nat \ {0}
    /\ FanoutTtl \in 1..LeaseTtl
    /\ None \notin Sessions

VARIABLE lease  \* the table: a row per key

LeaseStates == {"ABSENT", "ACTIVE", "COMPLETED", "FAILED"}

LeaseRow ==
    [state : LeaseStates, owner : Sessions \cup {None}, fence : Nat,
     left : 0..LeaseTtl, result : Sessions \cup {None}]

NoLease == [state |-> "ABSENT", owner |-> None, fence |-> 0, left |-> 0, result |-> None]

LeaseInit == lease = [k \in Keys |-> NoLease]

Rivals(k) == {j \in Keys \ {k} : ScopeOf[j] = ScopeOf[k]}

Live(k) == lease[k].left > 0

Running(k) == lease[k].state = "ACTIVE" /\ Live(k)

\* The guard of every owner's UPDATE: the row is still this acquisition's.
Holds(s, k, f) == Running(k) /\ lease[k].owner = s /\ lease[k].fence = f

-----------------------------------------------------------------------------
(* acquire *)

\* Mutant: a failure is not fanned out, the key is free at once.
DispositionUnshared(k) ==
    IF \E j \in Rivals(k) : Running(j) THEN "WAIT"
    ELSE IF lease[k].state = "ABSENT" THEN "ACQUIRED"
    ELSE IF ~Live(k) \/ lease[k].state = "FAILED" THEN "TAKEOVER"
    ELSE IF lease[k].state = "ACTIVE" THEN "WAIT" ELSE lease[k].state

\* What acquire answers.  A rival generation is waited for, never reused.
Disposition(k) ==
    IF \E j \in Rivals(k) : Running(j) THEN "WAIT"
    ELSE IF lease[k].state = "ABSENT" THEN "ACQUIRED"
    ELSE IF ~Live(k) THEN "TAKEOVER"
    ELSE IF lease[k].state = "ACTIVE" THEN "WAIT" ELSE lease[k].state

Claims(k) == Disposition(k) \in {"ACQUIRED", "TAKEOVER"}

\* Mutant: only the caller's own expired row is closed.
ClosedOwnRow(j, k) ==
    IF j = k /\ lease[j].state = "ACTIVE" /\ ~Live(j)
    THEN [lease[j] EXCEPT !.state = "FAILED"]
    ELSE lease[j]

\* The row of j once the expired ACTIVE rows of k's scope are closed.
ClosedIfExpired(j, k) ==
    IF ScopeOf[j] = ScopeOf[k] /\ lease[j].state = "ACTIVE" /\ ~Live(j)
    THEN [lease[j] EXCEPT !.state = "FAILED"]
    ELSE lease[j]

CloseExpired(k) == lease' = [j \in Keys |-> ClosedIfExpired(j, k)]

\* Closing what expired and taking the key are one transaction.
TakeLease(s, k, ttl) ==
    lease' = [j \in Keys |->
                IF j = k
                THEN [state |-> "ACTIVE", owner |-> s, fence |-> lease[k].fence + 1,
                      left |-> ttl, result |-> None]
                ELSE ClosedIfExpired(j, k)]

-----------------------------------------------------------------------------
(* The operations of a holder, and the two ways a result is withdrawn. *)

Extend(k, ttl) == lease' = [lease EXCEPT ![k].left = ttl]

Publish(s, k) ==
    lease' = [lease EXCEPT ![k].state = "COMPLETED", ![k].left = FanoutTtl, ![k].result = s]

ShareFailure(k) ==
    lease' = [lease EXCEPT ![k].state = "FAILED", ![k].left = FanoutTtl]

\* quarantine_completed_key_after_receipt_mismatch: any COMPLETED row of the key.
QuarantineCompleted(k) ==
    lease' = [lease EXCEPT ![k].left = IF lease[k].state = "COMPLETED" THEN 0 ELSE @]

\* completed_result_matches: `now' is the completer's own completed_at, so an
\* expiry that another process moved later is not seen.
ReceiptOf(s, k) == lease[k].state = "COMPLETED" /\ lease[k].result = s

LeaseTick ==
    lease' = [k \in Keys |-> [lease[k] EXCEPT !.left = IF @ > 0 THEN @ - 1 ELSE 0]]

=============================================================================
