----------------------------- MODULE PaidRuntime ----------------------------
(***************************************************************************)
(* The threads of the one server process that use the paid-call ledger:    *)
(* app/src/web/paid_runtime.py and core/provider_gateway/gateway.py.       *)
(*                                                                         *)
(* Opening, settling and cancelling a phase run one at a time under        *)
(* _PAID_PHASE_LOCK, but each reads the ledger before the transaction it   *)
(* writes in; the callbacks of a provider call take no lock at all, and a  *)
(* job that reaches its deadline or a shutdown settles its phase while     *)
(* its calls are still running.  The process may die at any moment; the    *)
(* next one has a new lease owner and finds the rows it left.              *)
(*                                                                         *)
(* Only the ledger of BudgetLedger is modelled, from where the cutover has *)
(* left it: the branches for a database that is not cut over yet are not.  *)
(***************************************************************************)
EXTENDS BudgetLedger

CONSTANTS
  MaxStarts,  \* bound of the model: starts of the process
  Extras      \* usage a job may report beyond what its calls recorded

\* _LEASE_OWNER_ID is drawn anew by every process.
ASSUME RuntimeAssumption ==
  /\ MaxStarts \in Nat
  /\ Owners = 1..MaxStarts
  /\ Extras \subseteq Nat

VARIABLES
  process,   \* which start of the server runs, or ran last
  up,        \* whether it runs
  healthy,   \* _BUDGET_STORE_HEALTHY
  mismatch,  \* whether the last comparison of the ledger with the observed
             \* history found jobs that cost more than the ledger knows
  lock,      \* what the holder of _PAID_PHASE_LOCK is doing
  worker,    \* where the job of each phase stands
  caller,    \* where the thread of each provider call stands
  sent       \* calls that reached the provider

server == <<process, up>>
threads == <<lock, worker, caller, sent>>
runtimeVars == <<ledger, today, server, healthy, mismatch, threads>>

-----------------------------------------------------------------------------
Free == [kind |-> "free"]

\* _begin_paid_phase_locked between _link_total_budget_inputs and begin_phase
Opening(p, b, amount, prior) ==
  [kind |-> "opening", phase |-> p, bucket |-> b, amount |-> amount, prior |-> prior]

\* _settle_attempt_ledger_phase between list_attempts and its first write
Settling(p, open, planned, intended) ==
  [kind |-> "settling", phase |-> p, open |-> open, planned |-> planned,
   intended |-> intended]

\* before the _seed_attempt_ledger that every one of them ends with
Seeding(p) == [kind |-> "seeding", phase |-> p]

LockStates ==
  {Free}
    \cup [kind : {"opening"}, phase : Phases, bucket : Buckets,
          amount : Reservations, prior : Nat]
    \cup [kind : {"settling"}, phase : Phases, open : BOOLEAN,
          planned : SUBSET Attempts, intended : SUBSET Attempts]
    \cup [kind : {"seeding"}, phase : Phases]

WorkerStates ==
  {"none", "admitted", "opening", "refused", "held", "started", "settling", "closed",
   "failed", "lost"}

CallerStates == {"idle", "begun", "beaten", "armed", "sent", "done"}

RuntimeTypeOK ==
  /\ TypeOK
  /\ process \in 0..MaxStarts
  /\ up \in BOOLEAN /\ healthy \in BOOLEAN /\ mismatch \in BOOLEAN
  /\ lock \in LockStates
  /\ worker \in [Phases -> WorkerStates]
  /\ caller \in [Attempts -> CallerStates]
  /\ sent \subseteq Attempts

RuntimeInit ==
  /\ Init
  /\ process = 0
  /\ up = FALSE
  /\ healthy = FALSE
  /\ mismatch \in BOOLEAN
  /\ lock = Free
  /\ worker = [p \in Phases |-> "none"]
  /\ caller = [a \in Attempts |-> "idle"]
  /\ sent = {}

Turn(p, st) == worker' = [worker EXCEPT ![p] = st]
Move(a, from, to) == up /\ caller[a] \in from /\ caller' = [caller EXCEPT ![a] = to]

-----------------------------------------------------------------------------
(* The process                                                             *)

\* What the history may say of a job that has ended, if settling it failed
\* or a call answered after its phase was closed.
Underbooked == \E p \in Phases : worker[p] \in {"closed", "failed"}

\* _seed_attempt_ledger(verify_observation_history=True): the health of the
\* store is what the comparison with the history says.
VerifyHistory ==
  /\ ExpireDuePhaseLeases
  /\ \E found \in {FALSE, mismatch \/ Underbooked} :
       mismatch' = found /\ healthy' = ~found

\* _seed_ledger at startup
Start ==
  /\ ~up
  /\ process < MaxStarts
  /\ process' = process + 1
  /\ up' = TRUE
  /\ VerifyHistory
  /\ UNCHANGED threads

\* Every thread is gone, and every uncommitted transaction with it.
Crash ==
  /\ up
  /\ process < MaxStarts
  /\ up' = FALSE
  /\ lock' = Free
  /\ worker' = [p \in Phases |-> IF worker[p] \in {"none", "closed", "failed"}
                                 THEN worker[p] ELSE "lost"]
  /\ caller' = [a \in Attempts |-> IF caller[a] = "idle" THEN "idle" ELSE "done"]
  /\ UNCHANGED <<ledger, today, process, healthy, mismatch, sent>>

\* recheck_budget_store: the same check again, by an administrator.
RecheckBudgetStore ==
  /\ up /\ lock = Free
  /\ VerifyHistory
  /\ UNCHANGED <<server, threads>>

\* resolve_budget_liability, which ends with that check as well.
ResolveBudgetLiability ==
  /\ up /\ lock = Free
  /\ AnyResolveLiability
  /\ \E found \in {FALSE, mismatch \/ Underbooked} :
       mismatch' = found /\ healthy' = ~found
  /\ UNCHANGED <<server, threads>>

-----------------------------------------------------------------------------
(* Reaping and seeding                                                     *)

\* Mutant: a process reaps the phases it opened itself.
ReapDueOwn ==
  IF \E p \in DuePhases : phase[p].owner = process
  THEN ExpireDuePhaseLeases /\ healthy' = TRUE
  ELSE UNCHANGED <<ledger, today, healthy>>

\* _reap_expired_attempt_phases_locked: a reaping that found something
\* rebuilds the figures in memory, and with them the health of the store.
ReapDue ==
  /\ ExpireDuePhaseLeases
  /\ healthy' = (healthy \/ DuePhases # {})

\* reap_expired_paid_phases, before any run is admitted
ReapExpiredPaidPhases ==
  /\ up /\ lock = Free
  /\ DuePhases # {}
  /\ ReapDue
  /\ UNCHANGED <<mismatch, server, threads>>

ReapFails ==
  /\ up /\ lock = Free
  /\ healthy' = FALSE
  /\ UNCHANGED <<ledger, today, mismatch, server, threads>>

\* _seed_attempt_ledger
Seed ==
  /\ lock.kind = "seeding"
  /\ ExpireDuePhaseLeases
  /\ healthy' = TRUE
  /\ lock' = Free
  /\ UNCHANGED <<mismatch, server, worker, caller, sent>>

\* A begun phase is lost to its caller (the exception is not caught there);
\* for settling and cancelling the store counts as broken.
SeedFails ==
  /\ lock.kind = "seeding"
  /\ lock' = Free
  /\ IF worker[lock.phase] = "held"
     THEN Turn(lock.phase, "lost") /\ UNCHANGED healthy
     ELSE healthy' = FALSE /\ UNCHANGED worker
  /\ UNCHANGED <<ledger, today, mismatch, server, caller, sent>>

-----------------------------------------------------------------------------
(* Opening a phase                                                         *)

\* _guard_run: a request passes the paid door, and opens its phase later.
\* Its run id is drawn anew, so no row of the phase exists.
Admit(p) ==
  /\ up /\ healthy
  /\ worker[p] = "none" /\ phase[p].state = "ABSENT"
  /\ Turn(p, "admitted")
  /\ UNCHANGED <<ledger, today, healthy, mismatch, server, lock, caller, sent>>

\* _begin_paid_phase_locked as far as _link_total_budget_inputs: reap, then
\* read what the link has cost.  No transaction is open.
OpenRead(p, b, amount) ==
  /\ up /\ lock = Free
  /\ worker[p] = "admitted"
  /\ ReapDue
  /\ lock' = Opening(p, b, amount, SpentBy(PhasesOfBucket(b))')
  /\ Turn(p, "opening")
  /\ UNCHANGED <<mismatch, server, caller, sent>>

\* begin_phase, under BEGIN IMMEDIATE
OpenWrite ==
  /\ lock.kind = "opening"
  /\ BeginPhase(lock.phase, lock.bucket, lock.amount, process, lock.prior)
  /\ lock' = Seeding(lock.phase)
  /\ Turn(lock.phase, "held")
  /\ UNCHANGED <<healthy, mismatch, server, caller, sent>>

\* AdmissionLimitExceeded, or another bucket already pays for the run
OpenRefused ==
  /\ lock.kind = "opening"
  /\ \/ ~AdmittedWithin(lock.phase, lock.bucket, lock.amount, lock.prior)
     \/ \E q \in PhasesOfRun(RunOf[lock.phase]) : phase[q].bucket # lock.bucket
  /\ lock' = Free
  /\ Turn(lock.phase, "refused")
  /\ UNCHANGED <<ledger, today, healthy, mismatch, server, caller, sent>>

OpenFails ==
  /\ lock.kind = "opening"
  /\ lock' = Free
  /\ Turn(lock.phase, "refused")
  /\ healthy' = FALSE
  /\ UNCHANGED <<ledger, today, mismatch, server, caller, sent>>

\* The job hands the ticket to its provider thread.
StartProvider(p) ==
  /\ up
  /\ worker[p] = "held"
  /\ lock # Seeding(p)
  /\ Turn(p, "started")
  /\ UNCHANGED <<ledger, today, healthy, mismatch, server, lock, caller, sent>>

-----------------------------------------------------------------------------
(* Closing a phase                                                         *)

\* _cancel_paid_phase_locked: the provider has not been started.
CancelPaidPhase(p) ==
  /\ up /\ lock = Free
  /\ worker[p] = "held"
  /\ IF phase[p].state = "ACTIVE"
     THEN CompletePhase(p, process, FALSE)
     ELSE UNCHANGED <<ledger, today>>
  /\ lock' = Seeding(p)
  /\ Turn(p, "closed")
  /\ UNCHANGED <<healthy, mismatch, server, caller, sent>>

CancelFails(p) ==
  /\ up /\ lock = Free
  /\ worker[p] = "held"
  /\ Turn(p, "lost")
  /\ healthy' = FALSE
  /\ UNCHANGED <<ledger, today, mismatch, server, lock, caller, sent>>

InTransport(p, transport) ==
  {a \in ActiveAttempts(p) : attempt[a].transport = transport}

\* _settle_attempt_ledger_phase as far as its readings.  The calls of the
\* phase may still be running (deadline, shutdown).
SettleRead(p) ==
  /\ up /\ lock = Free
  /\ worker[p] = "started"
  /\ lock' = Settling(p, phase[p].state = "ACTIVE", InTransport(p, "PLANNED"),
                      InTransport(p, "DISPATCH_INTENT_RECORDED"))
  /\ Turn(p, "settling")
  /\ UNCHANGED <<ledger, today, healthy, mismatch, server, caller, sent>>

\* Mutant: the calls are settled without asking the phase to close.
ClosedOutQuietly(a) ==
  IF a \in lock.planned
  THEN Settled(a, "LOCAL_FAILURE", "KNOWN_ZERO", 0, 0, "none")
  ELSE Settled(a, "TRANSPORT_AMBIGUOUS", "CONSERVATIVE_LIABILITY", 0,
               attempt[a].estimate, "none")

\* The row of a call that was found unsettled: free if planned, else owed.
ClosedOut(a) ==
  IF a \in lock.planned
  THEN Settled(a, "LOCAL_FAILURE", "KNOWN_ZERO", 0, 0, "FAILED")
  ELSE Settled(a, "TRANSPORT_AMBIGUOUS", "CONSERVATIVE_LIABILITY", 0,
               attempt[a].estimate, "FAILED")

Owing(S) == SumFunctionOnSet([a \in Attempts |-> attempt[a].estimate], S)

\* Mutant: what was read is taken for what still is.
CloseOutFromSnapshot(p) ==
  LET after == [a \in Attempts |->
                  IF a \in lock.planned \cup lock.intended
                  THEN ClosedOut(a) ELSE attempt[a]]
  IN  /\ OwnedAndLive(p, process)
      /\ attempt' = after
      /\ phase' = [phase EXCEPT ![p] = PhaseAfter(after, p, Owing(lock.intended))]
      /\ UNCHANGED today

\* Every call found unsettled is recorded, in one transaction, if it is
\* still what was read; the last of them closes the phase.
CloseOut(p) ==
  LET after == [a \in Attempts |->
                  IF a \in lock.planned \cup lock.intended
                  THEN ClosedOut(a) ELSE attempt[a]]
  IN  /\ OwnedAndLive(p, process)
      /\ lock.planned \subseteq InTransport(p, "PLANNED")
      /\ lock.intended \subseteq InTransport(p, "DISPATCH_INTENT_RECORDED")
      /\ attempt' = after
      /\ phase' = [phase EXCEPT ![p] = PhaseAfter(after, p, Owing(lock.intended))]
      /\ UNCHANGED today

\* A call recorded after the fact, for usage that no call of p recorded.
ExtraCall(p, extra) ==
  [PlannedAttempt(IF extra < phase[p].reservation THEN extra ELSE phase[p].reservation)
     EXCEPT !.transport = "RESPONSE_RECEIVED", !.billing = "KNOWN_COST",
            !.reservation = 0, !.known = extra]

\* _record_transition_attempt, then complete_phase
RecordExtraAndComplete(p, extra) ==
  /\ OwnedAndLive(p, process)
  /\ phase[p].reservation > 0
  /\ \E a \in AttemptsOf(p) :
       /\ caller[a] = "idle" /\ attempt[a].transport = "ABSENT"
       /\ attempt' = [attempt EXCEPT ![a] = ExtraCall(p, extra)]
       /\ caller' = [caller EXCEPT ![a] = "done"]
  /\ \E succeeded \in BOOLEAN :
       phase' = [phase EXCEPT ![p] =
                   ClosedPhase(p, IF succeeded THEN "SUCCEEDED" ELSE "FAILED")]
  /\ UNCHANGED today

\* A job that reports more usage than its calls recorded gets one more call
\* of exactly that cost; a call begun since the readings forbids it.
CompleteWithExtra(p, extra) ==
  /\ ActiveAttempts(p) = {}
  /\ CloseRequest(attempt, p) = "none"
  /\ RecordExtraAndComplete(p, extra)

SettleWrite ==
  /\ lock.kind = "settling"
  /\ LET p == lock.phase
         found == lock.planned \cup lock.intended
     IN  /\ \/ ~lock.open /\ UNCHANGED <<ledger, today, caller>>
            \/ lock.open /\ found # {} /\ CloseOut(p) /\ UNCHANGED caller
            \/ /\ lock.open /\ found = {}
               /\ \/ /\ \E succeeded \in BOOLEAN : CompletePhase(p, process, succeeded)
                     /\ UNCHANGED caller
                  \/ \E extra \in Extras : extra > 0 /\ CompleteWithExtra(p, extra)
         /\ lock' = Seeding(p)
         /\ Turn(p, "closed")
  /\ UNCHANGED <<healthy, mismatch, server, sent>>

\* The ledger changed since it was read, the lease ran out, or the write
\* failed: everything is rolled back and the lease is left to run out.
SettleFails ==
  /\ lock.kind = "settling"
  /\ lock' = Free
  /\ Turn(lock.phase, "failed")
  /\ healthy' = FALSE
  /\ UNCHANGED <<ledger, today, mismatch, server, caller, sent>>

-----------------------------------------------------------------------------
(* One provider call: the callbacks and gateway.call_once.  Its thread     *)
(* may outlive the settling of its phase.                                  *)

CallSame == UNCHANGED <<healthy, mismatch, server, lock, worker>>

Running(p) == worker[p] \in {"started", "settling", "closed", "failed"}

CallBegin(a) ==
  /\ Running(PhaseOf[a])
  /\ Move(a, {"idle"}, "begun")
  /\ \E amount \in Estimates : BeginAttempt(a, process, amount)
  /\ CallSame /\ UNCHANGED sent

\* The circuit is open: the row is begun and settled as free at once, and
\* the phase is asked to close.
CallBeginIntoOpenCircuit(a) ==
  /\ Running(PhaseOf[a])
  /\ Move(a, {"idle"}, "done")
  /\ \E amount \in Estimates :
       /\ CanBeginAttempt(a, process, amount)
       /\ LET row == [PlannedAttempt(amount)
                        EXCEPT !.transport = "LOCAL_FAILURE",
                               !.billing = "KNOWN_ZERO", !.reservation = 0,
                               !.close = "FAILED"]
              after == [attempt EXCEPT ![a] = row]
          IN  /\ attempt' = after
              /\ phase' = [phase EXCEPT ![PhaseOf[a]] = PhaseAfter(after, PhaseOf[a], 0)]
  /\ CallSame /\ UNCHANGED <<today, sent>>

\* heartbeat: the new end of the lease is a full lease away, or one second
\* past the old one (less than a tick).
CallHeartbeat(a) ==
  /\ Move(a, {"begun"}, "beaten")
  /\ OwnedAndLive(PhaseOf[a], process)
  /\ phase' = [phase EXCEPT ![PhaseOf[a]].lease = MaxLease]
  /\ CallSame /\ UNCHANGED <<attempt, today, sent>>

\* mark_dispatch_intent, allowed by the circuit
CallArm(a) ==
  /\ Move(a, {"beaten"}, "armed")
  /\ MarkDispatchIntent(a, process)
  /\ CallSame /\ UNCHANGED sent

\* mark_dispatch_intent, refused by the circuit
CallRefused(a) ==
  /\ Move(a, {"beaten"}, "done")
  /\ RecordPreDispatchFailure(a, process, "FAILED")
  /\ CallSame /\ UNCHANGED sent

\* cancel_before_dispatch after a failed heartbeat, intent or check: the
\* row is settled as free, unless that fails too.
CallCancelled(a) ==
  /\ Move(a, {"begun", "beaten"}, "done")
  /\ RecordPreDispatchFailure(a, process, "none") \/ UNCHANGED <<ledger, today>>
  /\ CallSame /\ UNCHANGED sent

CallSend(a) ==
  /\ Move(a, {"armed"}, "sent")
  /\ sent' = sent \cup {a}
  /\ CallSame /\ UNCHANGED <<ledger, today>>

\* What a provider adapter can observe of a call that was sent.
Observations ==
  [billing : {"KNOWN_COST"}, cost : Costs, close : {"none"}]
    \cup [billing : {"CONSERVATIVE_LIABILITY"}, cost : {0}, close : {"FAILED"}]

CallObserve(a) ==
  /\ Move(a, {"sent"}, "done")
  /\ \E outcome \in Observations, transport \in Transports \ {"LOCAL_FAILURE"} :
       RecordAttemptOutcome(a, process, transport, outcome)
  /\ CallSame /\ UNCHANGED sent

\* ProviderObservationRecordFailed: the lease will make the call owed.
CallObserveFails(a) ==
  /\ Move(a, {"sent"}, "done")
  /\ CallSame /\ UNCHANGED <<ledger, today, sent>>

-----------------------------------------------------------------------------
RuntimeTick == Tick /\ UNCHANGED <<server, healthy, mismatch, threads>>

LockHolderStep ==
  \/ OpenWrite \/ OpenRefused \/ OpenFails
  \/ SettleWrite \/ SettleFails
  \/ Seed \/ SeedFails

RuntimeNext ==
  \/ Start \/ Crash
  \/ RecheckBudgetStore \/ ResolveBudgetLiability
  \/ ReapExpiredPaidPhases \/ ReapFails
  \/ LockHolderStep
  \/ \E p \in Phases :
       \/ Admit(p)
       \/ \E b \in Buckets, amount \in Reservations : OpenRead(p, b, amount)
       \/ StartProvider(p)
       \/ CancelPaidPhase(p) \/ CancelFails(p)
       \/ SettleRead(p)
  \/ \E a \in Attempts :
       \/ CallBegin(a) \/ CallBeginIntoOpenCircuit(a)
       \/ CallHeartbeat(a)
       \/ CallArm(a) \/ CallRefused(a) \/ CallCancelled(a)
       \/ CallSend(a)
       \/ CallObserve(a) \/ CallObserveFails(a)
  \/ RuntimeTick

RuntimeSpec == RuntimeInit /\ [][RuntimeNext]_runtimeVars

(* The holder of the lock, the clock and a restart go on by themselves;    *)
(* requests keep coming, and each reaps before anything else.              *)
RuntimeFairness ==
  /\ WF_runtimeVars(RuntimeTick)
  /\ WF_runtimeVars(Start)
  /\ WF_runtimeVars(LockHolderStep)
  /\ WF_runtimeVars(ReapExpiredPaidPhases)

RuntimeFairSpec == RuntimeSpec /\ RuntimeFairness

-----------------------------------------------------------------------------
(* A call that reached the provider is never on the books as one that did  *)
(* not, whoever settles it: its own thread, a settling that raced with it, *)
(* the reaping of its lease or the next process.                           *)
SentIsAccounted ==
  \A a \in sent :
    attempt[a].transport \in
      {"DISPATCH_INTENT_RECORDED", "RESPONSE_RECEIVED", "TRANSPORT_AMBIGUOUS"}

(* A phase its job has closed is over, or is waiting for nothing but calls *)
(* begun before: whatever the thread of such a call does afterwards, the   *)
(* phase buys no further call.                                             *)
ClosedByJobBuysNothing ==
  \A p \in Phases :
    worker[p] = "closed" /\ phase[p].state = "ACTIVE"
      => CloseRequest(attempt, p) # "none" /\ ActiveAttempts(p) # {}

(* No phase holds its money for ever: a failed settling, a lost ticket or  *)
(* a dead process leaves it to the lease.                                  *)
PhaseComesToAnEnd ==
  \A p \in Phases : phase[p].state = "ACTIVE" ~> phase[p].state # "ACTIVE"

(* A comparison that finds the observed history to cost more than the      *)
(* ledger knows closes the paid door, and only the same check opens it.    *)
MismatchKeepsPaidClosed == up /\ mismatch => ~healthy

(* What a link's calls cost, owe and hold over its lifetime stays within   *)
(* its total limit, but for what single calls overran: begin_phase checks  *)
(* it in the transaction that reserves, as it does the daily limit.        *)
LifetimeSpendWithinCap ==
  \A b \in Buckets : CappedBy(PhasesOfBucket(b), TotalLimit[b])
=============================================================================
