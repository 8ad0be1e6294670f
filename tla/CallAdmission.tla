---------------------------- MODULE CallAdmission ---------------------------
(***************************************************************************)
(* How one pipeline call gets to the provider, and gives back what it      *)
(* holds: the process-wide FIFO of call slots                              *)
(* (core/provider_gateway/concurrency.py), the request-local money         *)
(* (features/budget/provider_budget.py) and the request-local flag and     *)
(* count (_MeteredEngine and _MeteredMessages, features/pipeline/real.py). *)
(*                                                                         *)
(* A call waits for money inside its slot. Every test of the shared flag   *)
(* is made outside the locks, so it is a step of its own: what it saw may  *)
(* be stale one step later. The ledger rows behind begin_attempt and       *)
(* mark_dispatch_intent are BudgetLedger's; here they succeed or fail.     *)
(***************************************************************************)
EXTENDS Integers, FiniteSets, SequencesExt

CONSTANTS
  Runs,       \* requests, each with one ProviderBudget
  Calls,      \* threads calling the provider, each again and again
  RunOf,      \* the request a thread works for
  Patient,    \* threads that pass wait_for_pending
  Limit,      \* configured_limit()
  Total,      \* total_krw of a request's phase
  Estimates,  \* estimates a call may come to
  Overrun,    \* how far an actual cost may exceed its estimate
  MaxCalls    \* MAX_AI_CALLS_PER_REQUEST, less the calls kept back

ASSUME AdmissionAssumption ==
  /\ IsFiniteSet(Calls)
  /\ RunOf \in [Calls -> Runs]
  /\ Patient \subseteq Calls
  /\ Limit \in Nat \ {0}
  /\ Total \in Nat \ {0}
  /\ Estimates \subseteq Nat \ {0}
  /\ Overrun \in Nat
  /\ MaxCalls \in Nat

VARIABLES
  pc,         \* where each thread stands in create()
  waiters,    \* ProviderCallLimiter._waiters
  active,     \* ProviderCallLimiter._active
  count,      \* _provider_call_count + _cached_provider_call_slots
  estimate,   \* the estimate of the thread's current call
  pending,    \* ProviderBudget._pending, as the threads whose estimate it holds
  unknown,    \* ProviderBudget._unknown_calls
  held,       \* ProviderBudget._held_estimated_krw
  known,      \* ProviderBudget._known_actual_krw
  overrun,    \* ProviderBudget._estimate_overrun_krw
  uncertain,  \* requests with _billing_uncertain
  halted      \* requests whose ensure_paid_phase raises

queue == <<waiters, active>>
money == <<pending, unknown, held, known, overrun>>
flags == <<uncertain, halted>>
vars == <<pc, queue, count, estimate, money, flags>>

InSlotStates ==
  {"entered", "counted", "checked", "reserved", "begun", "cleared", "sent",
   "doubtful", "leaving"}

TypeOK ==
  /\ pc \in [Calls -> {"idle", "queued"} \cup InSlotStates]
  /\ waiters \in Seq(Calls)
  /\ active \in Int
  /\ count \in [Runs -> 0..MaxCalls]
  /\ estimate \in [Calls -> Nat]
  /\ pending \subseteq Calls
  /\ unknown \subseteq Calls
  /\ held \in [Runs -> Int]
  /\ known \in [Runs -> Nat]
  /\ overrun \in [Runs -> Nat]
  /\ uncertain \subseteq Runs
  /\ halted \subseteq Runs

Init ==
  /\ pc = [c \in Calls |-> "idle"]
  /\ waiters = << >>
  /\ active = 0
  /\ count = [r \in Runs |-> 0]
  /\ estimate = [c \in Calls |-> 0]
  /\ pending = {}
  /\ unknown = {}
  /\ held = [r \in Runs |-> 0]
  /\ known = [r \in Runs |-> 0]
  /\ overrun = [r \in Runs |-> 0]
  /\ uncertain = {}
  /\ halted = {}

InSlot == {c \in Calls : pc[c] \in InSlotStates}

CallsOf(r) == {c \in Calls : RunOf[c] = r}

Goto(c, from, to) == pc[c] = from /\ pc' = [pc EXCEPT ![c] = to]

\* _check_admission raises.
Refused(r) == r \in uncertain \cup halted

-----------------------------------------------------------------------------
(* ProviderCallLimiter.slot                                                *)

Enqueue(c) ==
  /\ Goto(c, "idle", "queued")
  /\ waiters' = Append(waiters, c)
  /\ UNCHANGED <<active, count, estimate, money, flags>>

\* Mutant: any waiter takes a slot that is free.
TakeAnySlot(c) ==
  /\ Goto(c, "queued", "entered")
  /\ active < Limit
  /\ waiters' = RemoveFirst(waiters, c)
  /\ active' = active + 1
  /\ UNCHANGED <<count, estimate, money, flags>>

\* The test before it was passed earlier, and may be stale.
TakeSlot(c) ==
  /\ Goto(c, "queued", "entered")
  /\ Head(waiters) = c
  /\ active < Limit
  /\ waiters' = Tail(waiters)
  /\ active' = active + 1
  /\ UNCHANGED <<count, estimate, money, flags>>

\* Mutant: a refused waiter leaves its token behind.
AbandonQueue(c) ==
  /\ Goto(c, "queued", "idle")
  /\ Refused(RunOf[c])
  /\ UNCHANGED <<queue, count, estimate, money, flags>>

\* A waiter's check raises: finally removes its token.
LeaveQueue(c) ==
  /\ Goto(c, "queued", "idle")
  /\ Refused(RunOf[c])
  /\ waiters' = RemoveFirst(waiters, c)
  /\ UNCHANGED <<active, count, estimate, money, flags>>

\* finally of an admitted call, however it ended.
LeaveSlot(c) ==
  /\ Goto(c, "leaving", "idle")
  /\ active' = active - 1
  /\ estimate' = [estimate EXCEPT ![c] = IF c \in pending THEN @ ELSE 0]
  /\ UNCHANGED <<waiters, count, money, flags>>

-----------------------------------------------------------------------------
(* _create_admitted up to the reservation                                  *)

\* The second check and reserve_provider_call, then the estimate; the count
\* is not given back when the call ends.
ReserveProviderCall(c) ==
  /\ ~Refused(RunOf[c])
  /\ count[RunOf[c]] < MaxCalls
  /\ Goto(c, "entered", "counted")
  /\ count' = [count EXCEPT ![RunOf[c]] = @ + 1]
  /\ \E e \in Estimates : estimate' = [estimate EXCEPT ![c] = e]
  /\ UNCHANGED <<queue, money, flags>>

RefuseProviderCall(c) ==
  /\ Refused(RunOf[c]) \/ count[RunOf[c]] >= MaxCalls
  /\ Goto(c, "entered", "leaving")
  /\ UNCHANGED <<queue, count, estimate, money, flags>>

\* Mutant: a cache hit is counted without asking for room.
CountCachedBlindly(r) ==
  /\ ~Refused(r)
  /\ count' = [count EXCEPT ![r] = @ + 1]
  /\ UNCHANGED <<pc, queue, estimate, money, flags>>

\* reserve_cached_provider_call: a cache hit uses up its share of the count.
ReserveCachedCall(r) ==
  /\ ~Refused(r)
  /\ count[r] < MaxCalls
  /\ count' = [count EXCEPT ![r] = @ + 1]
  /\ UNCHANGED <<pc, queue, estimate, money, flags>>

\* check_admission, before the reservation and on every turn of its wait.
CheckAdmission(c) ==
  /\ Goto(c, "counted", IF Refused(RunOf[c]) THEN "leaving" ELSE "checked")
  /\ UNCHANGED <<queue, count, estimate, money, flags>>

Fits(c) == known[RunOf[c]] + held[RunOf[c]] + estimate[c] <= Total

\* Mutant: what siblings hold for the moment is not counted.
ReserveKnownOnly(c) ==
  /\ known[RunOf[c]] + estimate[c] <= Total
  /\ Goto(c, "checked", "reserved")
  /\ pending' = pending \cup {c}
  /\ held' = [held EXCEPT ![RunOf[c]] = @ + estimate[c]]
  /\ UNCHANGED <<queue, count, estimate, unknown, known, overrun, flags>>

StopsAtUnknown(c) == c \in Patient /\ unknown \cap CallsOf(RunOf[c]) # {}

\* Mutant: an unknown sibling does not end the wait.
MayWaitForUnknown(c) ==
  /\ c \in Patient
  /\ pending \cap CallsOf(RunOf[c]) # {}
  /\ known[RunOf[c]] + estimate[c] <= Total

\* Only what siblings hold for the moment stands in the way.
MayWait(c) ==
  /\ c \in Patient
  /\ ~StopsAtUnknown(c)
  /\ pending \cap CallsOf(RunOf[c]) # {}
  /\ known[RunOf[c]] + estimate[c] <= Total

\* reserve_call, first branch.
Reserve(c) ==
  /\ ~StopsAtUnknown(c)
  /\ Fits(c)
  /\ Goto(c, "checked", "reserved")
  /\ pending' = pending \cup {c}
  /\ held' = [held EXCEPT ![RunOf[c]] = @ + estimate[c]]
  /\ UNCHANGED <<queue, count, estimate, unknown, known, overrun, flags>>

WaitForMoney(c) ==
  /\ ~Fits(c)
  /\ MayWait(c)
  /\ Goto(c, "checked", "counted")
  /\ UNCHANGED <<queue, count, estimate, money, flags>>

RefuseReservation(c) ==
  /\ ~MayWait(c)
  /\ StopsAtUnknown(c) \/ ~Fits(c)
  /\ Goto(c, "checked", "leaving")
  /\ UNCHANGED <<queue, count, estimate, money, flags>>

-----------------------------------------------------------------------------
(* _create_admitted with the reservation in hand                           *)

BeginAttempt(c) ==
  /\ Goto(c, "reserved", "begun")
  /\ UNCHANGED <<queue, count, estimate, money, flags>>

\* cancel_before_dispatch: the whole estimate is given back.
Cancel(c) ==
  /\ pending' = pending \ {c}
  /\ unknown' = unknown \ {c}
  /\ held' = [held EXCEPT ![RunOf[c]] = @ - estimate[c]]
  /\ UNCHANGED <<known, overrun>>

\* Mutant: a call whose ledger row failed keeps its money.
KeepOnBeginFailure(c) ==
  /\ Goto(c, "reserved", "leaving")
  /\ UNCHANGED <<queue, count, estimate, money, flags>>

\* begin_attempt raises.
BeginFails(c) ==
  /\ Goto(c, "reserved", "leaving")
  /\ Cancel(c)
  /\ UNCHANGED <<queue, count, estimate, flags>>

\* before_dispatch: the last check.
ClearForDispatch(c) ==
  /\ ~Refused(RunOf[c])
  /\ Goto(c, "begun", "cleared")
  /\ UNCHANGED <<queue, count, estimate, money, flags>>

\* before_dispatch raises: the check, the heartbeat or the dispatch intent.
\* If the ledger cannot be told either, the request becomes uncertain.
DispatchNotStarted(c) ==
  /\ \/ Refused(RunOf[c]) /\ Goto(c, "begun", "leaving")
     \/ Goto(c, "cleared", "leaving")
  /\ Cancel(c)
  /\ uncertain' \in {uncertain, uncertain \cup {RunOf[c]}}
  /\ UNCHANGED <<queue, count, estimate, halted>>

Send(c) ==
  /\ Goto(c, "cleared", "sent")
  /\ UNCHANGED <<queue, count, estimate, money, flags>>

\* Mutant: the actual cost is booked beside the estimate.
SettleBeside(c) ==
  /\ Goto(c, "sent", "leaving")
  /\ pending' = pending \ {c}
  /\ \E actual \in 0..(estimate[c] + Overrun) :
       /\ known' = [known EXCEPT ![RunOf[c]] = @ + actual]
       /\ overrun' = [overrun EXCEPT ![RunOf[c]] =
            IF actual > estimate[c] THEN @ + (actual - estimate[c]) ELSE @]
  /\ UNCHANGED <<queue, count, estimate, unknown, held, flags>>

\* A cost is known (an answer, or a failure that carries one): settle_call.
Settle(c) ==
  /\ Goto(c, "sent", "leaving")
  /\ pending' = pending \ {c}
  /\ unknown' = unknown \ {c}
  /\ held' = [held EXCEPT ![RunOf[c]] = @ - estimate[c]]
  /\ \E actual \in 0..(estimate[c] + Overrun) :
       /\ known' = [known EXCEPT ![RunOf[c]] = @ + actual]
       /\ overrun' = [overrun EXCEPT ![RunOf[c]] =
            IF actual > estimate[c] THEN @ + (actual - estimate[c]) ELSE @]
  /\ UNCHANGED <<queue, count, estimate, flags>>

\* Mutant: only mark_unknown is told, the request's own flag is not raised.
DoubtSilently(c) ==
  /\ \/ Goto(c, "sent", "doubtful")
     \/ Goto(c, "begun", "doubtful")
     \/ Goto(c, "cleared", "doubtful")
  /\ UNCHANGED <<queue, count, estimate, money, flags>>

\* No cost is known (no usage, the observation not recorded, or the thread
\* interrupted anywhere in call_once): mark_billing_uncertain.
Doubt(c) ==
  /\ \/ Goto(c, "sent", "doubtful")
     \/ Goto(c, "begun", "doubtful")
     \/ Goto(c, "cleared", "doubtful")
  /\ uncertain' = uncertain \cup {RunOf[c]}
  /\ UNCHANGED <<queue, count, estimate, money, halted>>

\* mark_unknown: the estimate stays held for good.
MarkUnknown(c) ==
  /\ Goto(c, "doubtful", "leaving")
  /\ unknown' = unknown \cup {c}
  /\ UNCHANGED <<queue, count, estimate, pending, held, known, overrun, flags>>

\* The request is cancelled or its lease is lost (ensure_paid_phase).
Halt(r) ==
  /\ r \notin halted
  /\ halted' = halted \cup {r}
  /\ UNCHANGED <<pc, queue, count, estimate, money, uncertain>>

-----------------------------------------------------------------------------
\* What a thread does on its own once it is in create().
Proceed(c) ==
  \/ LeaveSlot(c)
  \/ ReserveProviderCall(c) \/ RefuseProviderCall(c) \/ CheckAdmission(c)
  \/ Reserve(c) \/ WaitForMoney(c) \/ RefuseReservation(c)
  \/ BeginAttempt(c) \/ BeginFails(c)
  \/ ClearForDispatch(c) \/ DispatchNotStarted(c)
  \/ Send(c) \/ Settle(c) \/ Doubt(c) \/ MarkUnknown(c)

Next ==
  \/ \E c \in Calls :
       \/ Enqueue(c) \/ TakeSlot(c) \/ LeaveQueue(c)
       \/ Proceed(c)
  \/ \E r \in Runs : ReserveCachedCall(r) \/ Halt(r)

(* A waiter polls every PROVIDER_ADMISSION_POLL_SECONDS and an admitted    *)
(* thread goes on; the provider call ends at the client's timeout.         *)
Fairness ==
  \A c \in Calls :
    /\ WF_vars(TakeSlot(c) \/ LeaveQueue(c))
    /\ WF_vars(Proceed(c))

Spec == Init /\ [][Next]_vars

FairSpec == Spec /\ Fairness

-----------------------------------------------------------------------------
HeldBy(r) == SumFunctionOnSet(estimate, pending \cap CallsOf(r))

(* However calls end, the limiter's counter is the number of calls inside  *)
(* (never above the limit), its queue holds exactly the waiters, once, and *)
(* the running total _held_estimated_krw is the sum of what is pending.    *)
CountersExact ==
  /\ active = Cardinality(InSlot)
  /\ active <= Limit
  /\ ToSet(waiters) = {c \in Calls : pc[c] = "queued"}
  /\ IsInjective(waiters)
  /\ \A r \in Runs : held[r] = HeldBy(r)

(* What a request has spent and holds stays within its reservation, but    *)
(* for the excess of actual over estimated cost, which is itself counted.  *)
AccountedWithinTotal ==
  \A r \in Runs : known[r] + held[r] <= Total + overrun[r]

(* A call sent, or that may have been, keeps its estimate held until its   *)
(* cost is known; one that left without either holds nothing.              *)
ReservationFollowsCall ==
  \A c \in Calls :
    /\ pc[c] \in {"reserved", "begun", "cleared", "sent", "doubtful"} => c \in pending
    /\ c \in pending /\ pc[c] \in {"idle", "queued", "entered", "leaving"} => c \in unknown

(* A thread that finds unknown money also finds the request closed: the    *)
(* flag is raised first, so no call of the request starts in between.      *)
UnknownMeansUncertain == \A c \in unknown : RunOf[c] \in uncertain

(* A call told to wait for money waits, inside its slot, for a sibling     *)
(* that is inside a slot of its own and will settle or cancel: the wait    *)
(* can end, and no waiter holds the slot that its sibling needs.           *)
WaitsForRunningSibling ==
  [][\A c \in Calls :
       pc[c] = "checked" /\ pc'[c] = "counted" =>
         \E d \in pending \ unknown :
           /\ RunOf[d] = RunOf[c]
           /\ pc[d] \in {"reserved", "begun", "cleared", "sent", "doubtful"}]_vars

(* Every call that queues for a slot leaves create() again, served or      *)
(* refused, whatever its siblings and the other requests do.               *)
EveryCallLeaves == \A c \in Calls : pc[c] = "queued" ~> pc[c] = "idle"
=============================================================================
