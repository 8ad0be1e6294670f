---------------------------- MODULE BudgetLedger ----------------------------
(***************************************************************************)
(* The paid-call ledger of app/src/features/budget/state_machine.py.       *)
(*                                                                         *)
(* A run opens paid phases; a phase reserves money in one bucket for one   *)
(* business day under a database lease; every provider call is an attempt  *)
(* of a phase with its own reservation.  Each exported function runs under *)
(* BEGIN IMMEDIATE, so each is one action here.  Attempt rows are          *)
(* append-only in the database; the model keeps the latest event of each   *)
(* attempt, and whether any event of it carried a close-phase reason.      *)
(*                                                                         *)
(* A lease is kept as the time left until lease_expires_at, so that time   *)
(* needs no bound: "at >= lease_expires_at" is "lease = 0".                *)
(***************************************************************************)
EXTENDS Integers, FiniteSets, Functions

CONSTANTS
  Runs,          \* requests (run_id)
  Phases,        \* (run_id, phase) keys
  Attempts,      \* provider attempt ids (fresh uuids)
  Buckets,       \* cost buckets: an invite link, a member, an admin
  Owners,        \* lease owners: one per process start
  RunOf,         \* [Phases -> Runs]
  PhaseOf,       \* [Attempts -> Phases], the phase an attempt id is spent on
  MaxInflight,   \* [Phases -> Nat], SEQUENTIAL or MAX_PARALLEL attempts
  BucketLimit,   \* [Buckets -> Nat \cup {None}], daily admission limit
  TotalLimit,    \* [Buckets -> Nat \cup {None}], lifetime limit of a link
  RunLimit,      \* Nat \cup {None}, admission limit of one request
  Reservations,  \* amounts a phase may reserve
  Estimates,     \* amounts an attempt may reserve
  Costs,         \* amounts the provider may charge
  Transports,    \* ways a dispatched call may end
  LegacyAmounts, \* amounts the cutover may bring in; {} if it finds no rows
  MaxLease,      \* PAID_PHASE_LEASE_SEC, in ticks
  MaxDay,        \* bound of the model: last business day
  None           \* "no limit", "no owner", "no bucket"

ASSUME LedgerAssumption ==
  /\ RunOf \in [Phases -> Runs]
  /\ PhaseOf \in [Attempts -> Phases]
  /\ IsFiniteSet(Phases) /\ IsFiniteSet(Attempts)
  /\ MaxInflight \in [Phases -> Nat \ {0}]
  /\ BucketLimit \in [Buckets -> Nat \cup {None}]
  /\ TotalLimit \in [Buckets -> Nat \cup {None}]
  /\ RunLimit \in Nat \cup {None}
  /\ Reservations \subseteq Nat \ {0}
  /\ Estimates \subseteq Nat \ {0}
  /\ Costs \subseteq Nat
  /\ LegacyAmounts \subseteq Nat
  /\ Transports \subseteq
       {"RESPONSE_RECEIVED", "TRANSPORT_AMBIGUOUS", "LOCAL_FAILURE"}
  /\ MaxLease \in Nat \ {0}
  /\ MaxDay \in Nat
  /\ None \notin Buckets \cup Owners \cup Nat

VARIABLES
  phase,    \* budget_phases, one row per (run_id, phase)
  attempt,  \* latest budget_attempt_events row of each attempt
  today     \* clock.today_kst()

ledger == <<phase, attempt>>

-----------------------------------------------------------------------------
PhaseStates == {"ABSENT", "ACTIVE", "SUCCEEDED", "FAILED", "UNKNOWN_LEGACY"}

TransportStates ==
  {"ABSENT", "PLANNED", "DISPATCH_INTENT_RECORDED", "RESPONSE_RECEIVED",
   "TRANSPORT_AMBIGUOUS", "LOCAL_FAILURE", "UNKNOWN_LEGACY"}

BillingStates ==
  {"ABSENT", "RESERVED", "KNOWN_COST", "CONSERVATIVE_LIABILITY",
   "LIABILITY_CONFIRMED", "KNOWN_ZERO", "UNKNOWN_LEGACY"}

CloseRequests == {"none", "SUCCEEDED", "FAILED"}

PhaseRow ==
  [state : PhaseStates, day : 0..MaxDay, bucket : Buckets \cup {None},
   reservation : Nat, owner : Owners \cup {None}, lease : 0..MaxLease]

AttemptRow ==
  [transport : TransportStates, billing : BillingStates, estimate : Nat,
   reservation : Nat, known : Nat, liability : Nat, close : CloseRequests,
   legacy : BOOLEAN]    \* provider = 'legacy': brought in by the cutover

NoPhase ==
  [state |-> "ABSENT", day |-> 0, bucket |-> None, reservation |-> 0,
   owner |-> None, lease |-> 0]

NoAttempt ==
  [transport |-> "ABSENT", billing |-> "ABSENT", estimate |-> 0,
   reservation |-> 0, known |-> 0, liability |-> 0, close |-> "none",
   legacy |-> FALSE]

-----------------------------------------------------------------------------
(* Reading the ledger.                                                     *)

AttemptsOf(p) == {a \in Attempts : PhaseOf[a] = p}

\* Planned or dispatched, not settled.
IsUnsettled(row) ==
  /\ row.billing = "RESERVED"
  /\ row.transport \in {"PLANNED", "DISPATCH_INTENT_RECORDED"}

Unsettled(a) == IsUnsettled(attempt[a])

\* _active_attempts_for_phase
PendingIn(att, p) == {a \in AttemptsOf(p) : IsUnsettled(att[a])}

ActiveAttempts(p) == PendingIn(attempt, p)

\* _phase_close_request: FAILED wins over SUCCEEDED.
CloseRequest(att, p) ==
  IF \E a \in AttemptsOf(p) : att[a].close = "FAILED" THEN "FAILED"
  ELSE IF \E a \in AttemptsOf(p) : att[a].close = "SUCCEEDED" THEN "SUCCEEDED"
  ELSE "none"

ReservedBy(S) == SumFunctionOnSet([a \in Attempts |-> attempt[a].reservation], S)

AtLeastZero(n) == IF n > 0 THEN n ELSE 0

\* _PHASE_RESERVATION_EXPOSURE_SQL
ReservationExposure(p) ==
  LET byAttempts == ReservedBy(AttemptsOf(p))
  IN  IF phase[p].reservation > byAttempts
      THEN phase[p].reservation ELSE byAttempts

ActiveReservation(P) ==
  SumFunctionOnSet([p \in Phases |-> ReservationExposure(p)],
                   {p \in P : phase[p].state = "ACTIVE"})

AttemptsIn(P) == {a \in Attempts : PhaseOf[a] \in P}

\* Mutant: owed money is forgotten once it is no longer reserved.
SpentKnownOnly(P) ==
  SumFunctionOnSet([a \in Attempts |-> attempt[a].known], AttemptsIn(P))

SpentBy(P) ==
  SumFunctionOnSet([a \in Attempts |-> attempt[a].known + attempt[a].liability],
                   AttemptsIn(P))

\* _load_exposure_where: known cost + liability + active reservations
Exposure(P) == SpentBy(P) + ActiveReservation(P)

PhasesOfBucket(b) == {p \in Phases : phase[p].bucket = b}

PhasesOfDay(b, d) == {p \in PhasesOfBucket(b) : phase[p].day = d}

PhasesOfRun(r) == {p \in Phases : RunOf[p] = r /\ phase[p].state # "ABSENT"}

Within(amount, limit) == limit # None => amount <= limit
-----------------------------------------------------------------------------
(* The rows left behind by the one-time cutover (prepare_cutover).  Every  *)
(* (run, phase) of the old tables becomes a phase that is over: its spend  *)
(* becomes an attempt of known cost, and an in-flight reservation becomes  *)
(* an attempt of unknown cost that owes it.  Where the observed history    *)
(* cost more than the old tables, one phase of the run gets a second       *)
(* attempt of known cost, the difference (_legacy_observation_adjustments).*)

KnownLegacy(amount) ==
  [NoAttempt EXCEPT !.transport = "RESPONSE_RECEIVED", !.billing = "KNOWN_COST",
                    !.estimate = amount, !.known = amount, !.legacy = TRUE]

UnknownLegacy(amount) ==
  [NoAttempt EXCEPT !.transport = "UNKNOWN_LEGACY", !.billing = "UNKNOWN_LEGACY",
                    !.estimate = amount, !.liability = amount, !.legacy = TRUE]

LegacyRows ==
  {KnownLegacy(amount) : amount \in LegacyAmounts}
    \cup {UnknownLegacy(amount) : amount \in LegacyAmounts \ {0}}

LegacyIn(p, billing) ==
  {a \in AttemptsOf(p) : attempt[a].legacy /\ attempt[a].billing = billing}

AtMostOne(S) == \A x, y \in S : x = y

\* _legacy_inventory has one spend and one reservation per (run, phase), and
\* one bucket per run; a run is adjusted once.
LegacyInventory ==
  /\ \A p \in Phases : AtMostOne(LegacyIn(p, "UNKNOWN_LEGACY"))
  /\ \A r \in Runs : \E adjustment \in Attempts \cup {None} :
       \A p \in Phases :
         RunOf[p] = r => AtMostOne(LegacyIn(p, "KNOWN_COST") \ {adjustment})
  /\ \A r \in Runs : AtMostOne({phase[p].bucket : p \in PhasesOfRun(r)})

LegacyPhases ==
  [state : {"SUCCEEDED", "UNKNOWN_LEGACY"}, day : 0..today, bucket : Buckets,
   reservation : {0}, owner : {None}, lease : {0}]

LegacyState(p) ==
  IF LegacyIn(p, "UNKNOWN_LEGACY") # {} THEN "UNKNOWN_LEGACY"
  ELSE IF LegacyIn(p, "KNOWN_COST") # {} THEN "SUCCEEDED" ELSE "ABSENT"

Init ==
  /\ today \in 0..MaxDay
  /\ attempt \in [Attempts -> {NoAttempt} \cup LegacyRows]
  /\ phase \in [Phases -> {NoPhase} \cup LegacyPhases]
  /\ \A p \in Phases : phase[p].state = LegacyState(p)
  /\ LegacyInventory

-----------------------------------------------------------------------------
(* Opening a phase.  prior is the caller's reading of what the link has    *)
(* already cost over its lifetime; the reservations are counted afresh.    *)

\* Mutant: the daily limit is left to the limit of each request.
AdmittedByRequest(p, b, amount, prior) ==
  /\ Within(prior + ActiveReservation(PhasesOfBucket(b)) + amount, TotalLimit[b])
  /\ Within(Exposure(PhasesOfRun(RunOf[p])) + amount, RunLimit)

AdmittedWithin(p, b, amount, prior) ==
  /\ Within(Exposure(PhasesOfDay(b, today)) + amount, BucketLimit[b])
  /\ Within(prior + ActiveReservation(PhasesOfBucket(b)) + amount, TotalLimit[b])
  /\ Within(Exposure(PhasesOfRun(RunOf[p])) + amount, RunLimit)

BeginPhase(p, b, amount, o, prior) ==
  /\ phase[p].state = "ABSENT"
  /\ \A q \in PhasesOfRun(RunOf[p]) : phase[q].bucket = b
  /\ AdmittedWithin(p, b, amount, prior)
  /\ phase' = [phase EXCEPT ![p] =
                 [state |-> "ACTIVE", day |-> today, bucket |-> b,
                  reservation |-> amount, owner |-> o, lease |-> MaxLease]]
  /\ UNCHANGED <<attempt, today>>

\* Mutant: the lease end is not compared with the clock.
OwnedEvenIfLapsed(p, o) == phase[p].state = "ACTIVE" /\ phase[p].owner = o

\* _require_active_owner
OwnedAndLive(p, o) ==
  /\ phase[p].state = "ACTIVE"
  /\ phase[p].owner = o
  /\ phase[p].lease > 0

HeartbeatPhase(p, o, lease) ==
  /\ OwnedAndLive(p, o)
  /\ lease > phase[p].lease
  /\ phase' = [phase EXCEPT ![p].lease = lease]
  /\ UNCHANGED <<attempt, today>>

-----------------------------------------------------------------------------
(* One provider attempt.                                                   *)

\* Mutant: each call is compared with the phase alone, not with its siblings.
CanBeginBesideSiblings(a, o, amount) ==
  /\ attempt[a].transport = "ABSENT"
  /\ OwnedAndLive(PhaseOf[a], o)
  /\ CloseRequest(attempt, PhaseOf[a]) = "none"
  /\ Cardinality(ActiveAttempts(PhaseOf[a])) < MaxInflight[PhaseOf[a]]
  /\ amount <= phase[PhaseOf[a]].reservation

CanBeginAttempt(a, o, amount) ==
  LET p == PhaseOf[a] IN
  /\ attempt[a].transport = "ABSENT"
  /\ OwnedAndLive(p, o)
  /\ CloseRequest(attempt, p) = "none"
  /\ Cardinality(ActiveAttempts(p)) < MaxInflight[p]
  /\ amount + ReservedBy(ActiveAttempts(p)) <= phase[p].reservation

PlannedAttempt(amount) ==
  [NoAttempt EXCEPT !.transport = "PLANNED", !.billing = "RESERVED",
                    !.estimate = amount, !.reservation = amount]

BeginAttempt(a, o, amount) ==
  /\ CanBeginAttempt(a, o, amount)
  /\ attempt' = [attempt EXCEPT ![a] = PlannedAttempt(amount)]
  /\ UNCHANGED <<phase, today>>

\* Mutant: the intent is recorded for a call whatever became of it.
CanDispatchAnew(a, o) ==
  /\ OwnedAndLive(PhaseOf[a], o)
  /\ CloseRequest(attempt, PhaseOf[a]) = "none"
  /\ attempt[a].transport # "ABSENT"

CanDispatch(a, o) ==
  /\ OwnedAndLive(PhaseOf[a], o)
  /\ CloseRequest(attempt, PhaseOf[a]) = "none"
  /\ attempt[a].transport = "PLANNED"
  /\ attempt[a].billing = "RESERVED"

MarkDispatchIntent(a, o) ==
  /\ CanDispatch(a, o)
  /\ attempt' = [attempt EXCEPT ![a].transport = "DISPATCH_INTENT_RECORDED",
                                ![a].billing = "RESERVED"]
  /\ UNCHANGED <<phase, today>>

\* The latest event of an attempt that no longer reserves anything.
Settled(a, transport, billing, known, liability, close) ==
  [attempt[a] EXCEPT !.transport = transport, !.billing = billing,
                     !.reservation = 0, !.known = known,
                     !.liability = liability,
                     !.close = IF close = "none" THEN @ ELSE close]

ClosedPhase(p, state) ==
  [phase[p] EXCEPT !.state = state, !.reservation = 0, !.owner = None,
                   !.lease = 0]

\* Mutants: a close request does not wait for siblings; what was consumed
\* stays available; the remainder is not cut at zero.
PhaseAfterImpatient(att, p, consumed) ==
  IF CloseRequest(att, p) # "none" THEN ClosedPhase(p, CloseRequest(att, p))
  ELSE [phase[p] EXCEPT !.reservation = AtLeastZero(@ - consumed)]

PhaseAfterRefunding(att, p, consumed) ==
  IF CloseRequest(att, p) # "none" /\ PendingIn(att, p) = {}
  THEN ClosedPhase(p, CloseRequest(att, p)) ELSE phase[p]

PhaseAfterUncut(att, p, consumed) ==
  IF CloseRequest(att, p) # "none" /\ PendingIn(att, p) = {}
  THEN ClosedPhase(p, CloseRequest(att, p))
  ELSE [phase[p] EXCEPT !.reservation = @ - consumed]

\* _update_phase_after_attempt: the phase closes with the last pending
\* sibling once a close was requested; until then it keeps what is left.
PhaseAfter(att, p, consumed) ==
  IF CloseRequest(att, p) # "none" /\ PendingIn(att, p) = {}
  THEN ClosedPhase(p, CloseRequest(att, p))
  ELSE [phase[p] EXCEPT !.reservation = AtLeastZero(@ - consumed)]

\* Mutant: the event is appended and the phase is left as it was.
SettleAttemptAlone(a, transport, billing, known, liability, close) ==
  /\ attempt' = [attempt EXCEPT ![a] = Settled(a, transport, billing, known, liability, close)]
  /\ UNCHANGED <<phase, today>>

\* Append a settling event to attempt a and bring its phase up to date.
SettleAttempt(a, transport, billing, known, liability, close) ==
  LET row == Settled(a, transport, billing, known, liability, close) IN
  /\ attempt' = [attempt EXCEPT ![a] = row]
  /\ phase' = [phase EXCEPT ![PhaseOf[a]] =
                 PhaseAfter([attempt EXCEPT ![a] = row], PhaseOf[a],
                            known + liability)]
  /\ UNCHANGED today

RecordPreDispatchFailure(a, o, close) ==
  /\ OwnedAndLive(PhaseOf[a], o)
  /\ attempt[a].transport = "PLANNED"
  /\ attempt[a].billing = "RESERVED"
  /\ close \in {"none", "FAILED"}
  /\ SettleAttempt(a, "LOCAL_FAILURE", "KNOWN_ZERO", 0, 0, close)

\* What a recorded outcome may say.  A liability closes its phase, and every
\* caller (the gateway adapters, the settling of a phase) owes the estimate.
Outcomes ==
  [billing : {"KNOWN_COST"}, cost : Costs, close : CloseRequests]
    \cup [billing : {"KNOWN_ZERO"}, cost : {0}, close : CloseRequests]
    \cup [billing : {"CONSERVATIVE_LIABILITY"}, cost : {0},
          close : CloseRequests \ {"none"}]

\* Mutant: a second answer to the same call is recorded too.
CanRecordAgain(a, o) ==
  /\ OwnedAndLive(PhaseOf[a], o)
  /\ attempt[a].transport \in {"DISPATCH_INTENT_RECORDED", "RESPONSE_RECEIVED"}

CanRecordOutcome(a, o) ==
  /\ OwnedAndLive(PhaseOf[a], o)
  /\ attempt[a].transport = "DISPATCH_INTENT_RECORDED"
  /\ attempt[a].billing = "RESERVED"

RecordAttemptOutcome(a, o, transport, outcome) ==
  /\ CanRecordOutcome(a, o)
  /\ transport \in Transports
  /\ SettleAttempt(a, transport, outcome.billing, outcome.cost,
                   IF outcome.billing = "CONSERVATIVE_LIABILITY"
                   THEN attempt[a].estimate ELSE 0,
                   outcome.close)

-----------------------------------------------------------------------------
(* Closing phases.                                                         *)

CompletePhase(p, o, succeeded) ==
  /\ OwnedAndLive(p, o)
  /\ ActiveAttempts(p) = {}
  /\ phase' = [phase EXCEPT ![p] =
                 ClosedPhase(p, IF succeeded THEN "SUCCEEDED" ELSE "FAILED")]
  /\ UNCHANGED <<attempt, today>>

\* expire_phase_lease: what was dispatched is owed, what was not is free.
ExpiredAttempt(a) ==
  IF attempt[a].transport = "DISPATCH_INTENT_RECORDED"
  THEN Settled(a, "TRANSPORT_AMBIGUOUS", "CONSERVATIVE_LIABILITY", 0,
               attempt[a].estimate, "none")
  ELSE Settled(a, "LOCAL_FAILURE", "KNOWN_ZERO", 0, 0, "none")

DuePhases == {p \in Phases : phase[p].state = "ACTIVE" /\ phase[p].lease = 0}

ExpireDuePhaseLeases ==
  /\ attempt' = [a \in Attempts |->
                   IF PhaseOf[a] \in DuePhases /\ Unsettled(a)
                   THEN ExpiredAttempt(a) ELSE attempt[a]]
  /\ phase' = [p \in Phases |->
                 IF p \in DuePhases THEN ClosedPhase(p, "FAILED") ELSE phase[p]]
  /\ UNCHANGED today

\* resolve_liability: an administrator's decision on one open liability.
Reconcilable(a) ==
  /\ phase[PhaseOf[a]].state # "ACTIVE"
  /\ attempt[a].billing \in {"CONSERVATIVE_LIABILITY", "UNKNOWN_LEGACY"}

ResolveLiability(a, action, cost) ==
  /\ Reconcilable(a)
  /\ \/ /\ action = "CONFIRM_ACTUAL"
        /\ attempt' = [attempt EXCEPT ![a].billing = "KNOWN_COST",
                                      ![a].known = cost, ![a].liability = 0]
     \/ /\ action = "CONFIRM_CONSERVATIVE_LIABILITY"
        /\ attempt' = [attempt EXCEPT ![a].billing = "LIABILITY_CONFIRMED"]
     \/ /\ action = "CONFIRM_ZERO"
        /\ attempt' = [attempt EXCEPT ![a].billing = "KNOWN_ZERO",
                                      ![a].liability = 0]
  /\ UNCHANGED <<phase, today>>

ResolutionActions ==
  {"CONFIRM_ACTUAL", "CONFIRM_CONSERVATIVE_LIABILITY", "CONFIRM_ZERO"}

-----------------------------------------------------------------------------
(* Time: a tick brings every lease closer to its end; days pass.           *)

Tick ==
  /\ \E p \in Phases : phase[p].lease > 0
  /\ phase' = [p \in Phases |-> [phase[p] EXCEPT !.lease = AtLeastZero(@ - 1)]]
  /\ UNCHANGED <<attempt, today>>

NextDay ==
  /\ today < MaxDay
  /\ today' = today + 1
  /\ UNCHANGED ledger

-----------------------------------------------------------------------------
(* The caller's reading of the lifetime cost is taken here at the moment   *)
(* of the transaction; PaidRuntime takes it earlier, as the code does.     *)

AnyBeginPhase ==
  \E p \in Phases, b \in Buckets, amount \in Reservations, o \in Owners :
    BeginPhase(p, b, amount, o, SpentBy(PhasesOfBucket(b)))

AnyHeartbeatPhase ==
  \E p \in Phases, o \in Owners : HeartbeatPhase(p, o, MaxLease)

AnyBeginAttempt ==
  \E a \in Attempts, o \in Owners, amount \in Estimates : BeginAttempt(a, o, amount)

AnyMarkDispatchIntent ==
  \E a \in Attempts, o \in Owners : MarkDispatchIntent(a, o)

AnyPreDispatchFailure ==
  \E a \in Attempts, o \in Owners, close \in {"none", "FAILED"} :
    RecordPreDispatchFailure(a, o, close)

AnyAttemptOutcome ==
  \E a \in Attempts, o \in Owners, transport \in Transports, outcome \in Outcomes :
    RecordAttemptOutcome(a, o, transport, outcome)

AnyCompletePhase ==
  \E p \in Phases, o \in Owners, succeeded \in BOOLEAN : CompletePhase(p, o, succeeded)

ExpireSome == DuePhases # {} /\ ExpireDuePhaseLeases

AnyResolveLiability ==
  \E a \in Attempts, action \in ResolutionActions, cost \in Costs :
    ResolveLiability(a, action, cost)

Next ==
  \/ AnyBeginPhase
  \/ AnyHeartbeatPhase
  \/ AnyBeginAttempt
  \/ AnyMarkDispatchIntent
  \/ AnyPreDispatchFailure
  \/ AnyAttemptOutcome
  \/ AnyCompletePhase
  \/ ExpireSome
  \/ AnyResolveLiability
  \/ Tick
  \/ NextDay

vars == <<phase, attempt, today>>

Spec == Init /\ [][Next]_vars

-----------------------------------------------------------------------------
(* The two records always have the shape the tables' CHECK constraints     *)
(* and readers (_phase_from_row, _attempt_from_row) rely on.               *)
TypeOK ==
  /\ phase \in [Phases -> PhaseRow]
  /\ attempt \in [Attempts -> AttemptRow]
  /\ today \in 0..MaxDay

(* A phase that is over holds no money and no lease, and none of its       *)
(* attempts still holds any: whichever of settlement, completion or lease  *)
(* expiry closed it, no reservation leaks.                                 *)
ClosedPhaseSettled ==
  \A p \in Phases : phase[p].state # "ACTIVE" =>
    /\ phase[p].reservation = 0 /\ phase[p].owner = None /\ phase[p].lease = 0
    /\ \A a \in AttemptsOf(p) : ~Unsettled(a) /\ attempt[a].reservation = 0

(* A phase asked to close is kept open only by siblings still in flight,   *)
(* so the last of them always closes it (_update_phase_after_attempt).     *)
CloseRequestAwaitsSibling ==
  \A p \in Phases :
    phase[p].state = "ACTIVE" /\ CloseRequest(attempt, p) # "none"
      => ActiveAttempts(p) # {}

\* How far the calls of P cost more than was estimated when they began.
Overrun(P) ==
  SumFunctionOnSet(
    [a \in Attempts |-> AtLeastZero(attempt[a].known + attempt[a].liability - attempt[a].estimate)],
    AttemptsIn(P))

\* What the attempts of P have cost or owe, and what open phases still hold.
Committed(P) ==
  SumFunctionOnSet([a \in Attempts |-> attempt[a].known + attempt[a].liability],
                   AttemptsIn(P)) + ActiveReservation(P)

LegacyOf(P) ==
  SumFunctionOnSet([a \in Attempts |-> attempt[a].estimate],
                   {a \in AttemptsIn(P) : attempt[a].legacy})

CappedBy(P, limit) ==
  limit = None \/
    LET legacy == LegacyOf(P)
    IN  Committed(P) <= Overrun(P) + (IF legacy > limit THEN legacy ELSE limit)

(* What the ledger promises for one call, whatever it does to phases and   *)
(* money: the attempts form an implementation of CallCharges.              *)
ChargeOf(row) ==
  CASE row.billing = "ABSENT" -> "idle"
    [] row.billing = "RESERVED" /\ row.transport = "PLANNED" -> "planned"
    [] row.billing = "RESERVED" /\ row.transport = "DISPATCH_INTENT_RECORDED" -> "sent"
    [] row.billing \in {"CONSERVATIVE_LIABILITY", "UNKNOWN_LEGACY"} -> "owed"
    [] row.billing \in {"KNOWN_COST", "LIABILITY_CONFIRMED"} -> "charged"
    [] row.billing = "KNOWN_ZERO" -> "free"

Charges ==
  INSTANCE CallCharges
    WITH Calls <- Attempts, charge <- [a \in Attempts |-> ChargeOf(attempt[a])]

ImplementsCallCharges == Charges!Spec

(* Calls in flight never hold more than is left of their phase, except for *)
(* what earlier calls of it overran: settling one call must not hand its   *)
(* money to a second one.                                                  *)
PendingWithinReservation ==
  \A p \in Phases : phase[p].state = "ACTIVE" =>
    ReservedBy(ActiveAttempts(p)) <= phase[p].reservation + Overrun({p})

(* What the calls of one bucket and day cost and owe, with what is still   *)
(* reserved, stays within the daily limit over all its requests, and that  *)
(* of one request, on whatever day its phases ran, within its own; plus    *)
(* only what single calls cost beyond their estimate.  What the cutover    *)
(* brought in, known or owed, counts first, and may be more than the limit *)
(* by itself.                                                              *)
SpendWithinCaps ==
  /\ \A b \in Buckets, d \in 0..MaxDay : CappedBy(PhasesOfDay(b, d), BucketLimit[b])
  /\ \A r \in Runs : CappedBy(PhasesOfRun(r), RunLimit)

(* Money of a closed phase moves only by an administrator resolving an     *)
(* open liability, and never twice: a late answer, a second expiry or a    *)
(* second resolution changes no settled attempt.                           *)
SettledMoneyIsFinal ==
  [][\A a \in Attempts :
       /\ attempt[a].transport # "ABSENT"
       /\ attempt'[a] # attempt[a]
       => Unsettled(a) \/ Reconcilable(a)]_vars

(* Once the lease of an open phase has run out, the only change it can     *)
(* still undergo is to fail, with every dispatched call owed in full and   *)
(* every undispatched one free.                                            *)
LapsedPhaseOnlyFails ==
  [][\A p \in Phases :
       /\ phase[p].state = "ACTIVE" /\ phase[p].lease = 0
       /\ \/ phase'[p] # phase[p]
          \/ \E a \in AttemptsOf(p) : attempt'[a] # attempt[a]
       => /\ phase'[p].state = "FAILED"
          /\ \A a \in ActiveAttempts(p) :
               IF attempt[a].transport = "PLANNED"
               THEN attempt'[a].billing = "KNOWN_ZERO"
               ELSE /\ attempt'[a].billing = "CONSERVATIVE_LIABILITY"
                    /\ attempt'[a].liability = attempt[a].estimate]_vars
=============================================================================
