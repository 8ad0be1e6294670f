-------------------------- MODULE PaidRuntimeProofs --------------------------
(***************************************************************************)
(* Proofs about PaidRuntime for any number of phases, calls and lives of   *)
(* the process. Every step of the threads is first shown to keep the       *)
(* books: the invariant of the ledger holds on, what was sent stays sent,  *)
(* what was asked to close stays asked, and no phase is opened but by      *)
(* OpenWrite. What the threads remember follows from that.                 *)
(*                                                                         *)
(* What a step of the whole system does to the books (BooksStep) is then   *)
(* listed once; the properties of the ledger, its money and its refinement *)
(* of CallCharges carry over from that list, as does the life of a lease.  *)
(***************************************************************************)
EXTENDS PaidRuntime, BudgetLedgerProofs

(* How the rows of calls that may have reached the provider read.          *)
Reached == {"DISPATCH_INTENT_RECORDED", "RESPONSE_RECEIVED", "TRANSPORT_AMBIGUOUS"}

(* A sent call stays sent and a close request stays asked.                 *)
RowsGoOn ==
  \A a \in Attempts :
    /\ attempt[a].close # "none" => attempt'[a].close # "none"
    /\ attempt[a].transport \in Reached => attempt'[a].transport \in Reached

(* A phase that is open was open before.                                   *)
NoneOpened ==
  \A p \in Phases : phase'[p].state = "ACTIVE" => phase[p].state = "ACTIVE"

BooksKept == IInv' /\ RowsGoOn /\ NoneOpened

-----------------------------------------------------------------------------
(* A step that leaves the ledger alone keeps the books.                    *)
LEMMA QuietKeeps ==
  ASSUME IInv, phase' = phase, attempt' = attempt, today' = today
  PROVE  BooksKept
<1>1. IInv'
  BY StepInv DEF vars
<1> QED
  BY <1>1 DEF BooksKept, RowsGoOn, NoneOpened

(* Neither does a step that moves leases or the state of an open phase, as *)
(* long as the attempts stay.                                              *)
LEMMA PhasesKeep ==
  ASSUME IInv, [Next]_vars, attempt' = attempt, NoneOpened
  PROVE  BooksKept
  BY StepInv DEF BooksKept, RowsGoOn

(* Time passes.                                                            *)
LEMMA TickKeeps ==
  ASSUME IInv, Tick
  PROVE  BooksKept
<1>1. attempt' = attempt /\ [Next]_vars
  BY DEF Tick, Next
<1>2. NoneOpened
  BY DEF Tick, NoneOpened, IInv, TypeOK, PhaseRow
<1> QED
  BY <1>1, <1>2, PhasesKeep

(* Reaping settles what is pending in due phases, and closes them.         *)
LEMMA ExpireKeeps ==
  ASSUME IInv, ExpireDuePhaseLeases
  PROVE  BooksKept
<1>1. IInv'
  BY ExpireInv
<1>2. RowsGoOn
  <2> SUFFICES ASSUME NEW a \in Attempts
               PROVE  /\ attempt[a].close # "none" => attempt'[a].close # "none"
                      /\ attempt[a].transport \in Reached => attempt'[a].transport \in Reached
    BY DEF RowsGoOn
  <2>1. CASE PhaseOf[a] \in DuePhases /\ Unsettled(a)
    <3>1. attempt'[a] = ExpiredAttempt(a) /\ attempt[a] \in AttemptRow
      BY <2>1 DEF ExpireDuePhaseLeases, IInv, TypeOK
    <3>2. ExpiredAttempt(a).close = attempt[a].close
      BY <3>1 DEF ExpiredAttempt, Settled, AttemptRow
    <3> QED
      BY <2>1, <3>1, <3>2, ExpiredAttemptRow DEF Reached, Unsettled, IsUnsettled
  <2>2. CASE ~(PhaseOf[a] \in DuePhases /\ Unsettled(a))
    BY <2>2 DEF ExpireDuePhaseLeases
  <2> QED
    BY <2>1, <2>2
<1>3. NoneOpened
  <2> SUFFICES ASSUME NEW p \in Phases, phase'[p].state = "ACTIVE"
               PROVE  phase[p].state = "ACTIVE"
    BY DEF NoneOpened
  <2>1. CASE p \in DuePhases
    BY <2>1 DEF DuePhases
  <2>2. CASE p \notin DuePhases
    BY <2>2 DEF ExpireDuePhaseLeases
  <2> QED
    BY <2>1, <2>2
<1> QED
  BY <1>1, <1>2, <1>3 DEF BooksKept

(* Completing closes one phase.                                            *)
LEMMA CompleteKeeps ==
  ASSUME IInv, NEW p \in Phases, NEW o \in Owners, NEW succeeded \in BOOLEAN,
         CompletePhase(p, o, succeeded)
  PROVE  BooksKept /\ phase'[p].state # "ACTIVE"
<1>1. attempt' = attempt /\ [Next]_vars /\ phase[p].state = "ACTIVE"
  BY DEF CompletePhase, Next, AnyCompletePhase, OwnedAndLive
<1>2. phase' = [phase EXCEPT ![p] = ClosedPhase(p, IF succeeded THEN "SUCCEEDED" ELSE "FAILED")]
  BY DEF CompletePhase
<1>3. NoneOpened
  BY <1>1, <1>2 DEF NoneOpened, IInv, TypeOK
<1>4. phase'[p].state # "ACTIVE"
  <2>1. phase[p] \in PhaseRow
    BY DEF IInv, TypeOK
  <2> QED
    BY <1>2, <2>1, ClosedPhaseRow DEF IInv, TypeOK
<1> QED
  BY <1>1, <1>3, <1>4, PhasesKeep

(* A change of one attempt keeps the books if its own row goes on and the  *)
(* phases keep their states.                                               *)
LEMMA OneRowKeeps ==
  ASSUME IInv, IInv', NoneOpened, NEW a \in Attempts, NEW row,
         attempt' = [attempt EXCEPT ![a] = row],
         attempt[a].close # "none" => row.close # "none",
         attempt[a].transport \in Reached => row.transport \in Reached
  PROVE  BooksKept
  BY DEF BooksKept, RowsGoOn, IInv, TypeOK

(* Beginning a call uses an id that was never used.                        *)
LEMMA BeginKeeps ==
  ASSUME IInv, NEW a \in Attempts, NEW o \in Owners, NEW amount \in Estimates,
         BeginAttempt(a, o, amount)
  PROVE  BooksKept
<1>1. [Next]_vars
  BY DEF Next, AnyBeginAttempt
<1>2. /\ attempt[a].transport = "ABSENT" /\ attempt[a].close = "none"
      /\ phase' = phase
  BY DEF BeginAttempt, CanBeginAttempt, IInv, AttemptShape
<1>3. IInv' /\ NoneOpened
  BY <1>1, <1>2, StepInv DEF NoneOpened
<1> QED
  BY <1>2, <1>3, OneRowKeeps DEF BeginAttempt, Reached

(* Recording the intent makes the call one that may have been sent.        *)
LEMMA ArmKeeps ==
  ASSUME IInv, NEW a \in Attempts, NEW o \in Owners, MarkDispatchIntent(a, o)
  PROVE  BooksKept /\ attempt'[a].transport \in Reached
<1>1. [Next]_vars
  BY DEF Next, AnyMarkDispatchIntent
<1> DEFINE row == [attempt[a] EXCEPT !.transport = "DISPATCH_INTENT_RECORDED",
                                     !.billing = "RESERVED"]
<1>2. row.transport = "DISPATCH_INTENT_RECORDED" /\ row.close = attempt[a].close
  BY DEF IInv, TypeOK, AttemptRow
<1>3. attempt' = [attempt EXCEPT ![a] = row] /\ phase' = phase
  BY DEF MarkDispatchIntent, IInv, TypeOK
<1> HIDE DEF row
<1>4. IInv' /\ NoneOpened
  BY <1>1, <1>3, StepInv DEF NoneOpened
<1>5. BooksKept
  BY <1>2, <1>3, <1>4, OneRowKeeps DEF Reached
<1> QED
  BY <1>2, <1>3, <1>5 DEF IInv, TypeOK, Reached

(* A settled call keeps its close request, and its phase is not reopened.  *)
LEMMA SettleKeeps ==
  ASSUME IInv, IInv', NEW a \in Attempts, phase[PhaseOf[a]].state = "ACTIVE",
         NEW transport, NEW billing, NEW known, NEW liability, NEW close,
         SettleAttempt(a, transport, billing, known, liability, close),
         attempt[a].transport \in Reached => transport \in Reached
  PROVE  BooksKept
<1> USE LedgerAssumption
<1> DEFINE row == Settled(a, transport, billing, known, liability, close)
<1>1. row.transport = transport /\ (attempt[a].close # "none" => row.close # "none")
  BY DEF IInv, TypeOK, Settled, AttemptRow
<1>2. attempt' = [attempt EXCEPT ![a] = row]
  BY DEF SettleAttempt
<1>3. \A p \in Phases : p # PhaseOf[a] => phase'[p] = phase[p]
  BY DEF SettleAttempt, IInv, TypeOK
<1> HIDE DEF row
<1>4. NoneOpened
  BY <1>3 DEF NoneOpened
<1> QED
  BY <1>1, <1>2, <1>4, OneRowKeeps

(* A call that was only planned is settled as free.                        *)
LEMMA PreDispatchFailureKeeps ==
  ASSUME IInv, NEW a \in Attempts, NEW o \in Owners, NEW close \in {"none", "FAILED"},
         RecordPreDispatchFailure(a, o, close)
  PROVE  BooksKept
<1>1. IInv'
  BY StepInv DEF Next, AnyPreDispatchFailure
<1>2. /\ SettleAttempt(a, "LOCAL_FAILURE", "KNOWN_ZERO", 0, 0, close)
      /\ phase[PhaseOf[a]].state = "ACTIVE" /\ attempt[a].transport = "PLANNED"
  BY DEF RecordPreDispatchFailure, OwnedAndLive
<1> QED
  BY <1>1, <1>2, SettleKeeps DEF Reached

(* What an adapter observes of a sent call is never that it was not sent.  *)
LEMMA ObserveKeeps ==
  ASSUME IInv, NEW a \in Attempts, NEW o \in Owners, NEW outcome \in Observations,
         NEW transport \in Transports \ {"LOCAL_FAILURE"},
         RecordAttemptOutcome(a, o, transport, outcome)
  PROVE  BooksKept
<1> USE LedgerAssumption
<1>1. outcome \in Outcomes
  BY DEF Observations, Outcomes, CloseRequests
<1>2. IInv'
  BY <1>1, StepInv DEF Next, AnyAttemptOutcome
<1> DEFINE liability == IF outcome.billing = "CONSERVATIVE_LIABILITY"
                        THEN attempt[a].estimate ELSE 0
<1>3. /\ SettleAttempt(a, transport, outcome.billing, outcome.cost, liability, outcome.close)
      /\ phase[PhaseOf[a]].state = "ACTIVE"
  BY DEF RecordAttemptOutcome, CanRecordOutcome, OwnedAndLive
<1>4. transport \in Reached
  BY DEF Reached
<1> HIDE DEF liability
<1> QED
  BY <1>2, <1>3, <1>4, SettleKeeps

(* An administrator's decision changes only what a liability costs.        *)
LEMMA ResolveKeeps ==
  ASSUME IInv, AnyResolveLiability
  PROVE  BooksKept
<1>1. IInv'
  BY StepInv DEF Next
<1>2. PICK a \in Attempts, action \in ResolutionActions, cost \in Costs :
        ResolveLiability(a, action, cost)
  BY DEF AnyResolveLiability
<1>3. NoneOpened
  BY <1>2 DEF ResolveLiability, NoneOpened
<1>4. PICK row : /\ attempt' = [attempt EXCEPT ![a] = row]
                 /\ row.transport = attempt[a].transport /\ row.close = attempt[a].close
  BY <1>2 DEF ResolveLiability, IInv, TypeOK, AttemptRow
<1> QED
  BY <1>1, <1>3, <1>4, OneRowKeeps

(* A heartbeat moves the end of one lease of an open phase.                *)
LEMMA HeartbeatKeeps ==
  ASSUME IInv, NEW p \in Phases, NEW o \in Owners, OwnedAndLive(p, o),
         phase' = [phase EXCEPT ![p].lease = MaxLease],
         attempt' = attempt, today' = today
  PROVE  BooksKept
<1> USE LedgerAssumption
<1>1. CASE phase[p].lease = MaxLease
  <2>1. phase' = phase
    BY <1>1 DEF IInv, TypeOK, PhaseRow
  <2> QED
    BY <2>1, QuietKeeps
<1>2. CASE phase[p].lease # MaxLease
  <2>1. MaxLease > phase[p].lease
    <3>1. phase[p].lease \in 0..MaxLease /\ MaxLease \in Nat
      BY DEF IInv, TypeOK, PhaseRow
    <3> QED
      BY <1>2, <3>1
  <2>2. [Next]_vars
    BY <2>1 DEF Next, AnyHeartbeatPhase, HeartbeatPhase
  <2>3. NoneOpened
    BY DEF NoneOpened, IInv, TypeOK, PhaseRow
  <2> QED
    BY <2>2, <2>3, PhasesKeep
<1> QED
  BY <1>1, <1>2

-----------------------------------------------------------------------------
(* Steps of the runtime that the ledger does not have by itself: they      *)
(* settle several calls of one phase in one transaction, or begin a call   *)
(* and settle it at once.                                                  *)

(* A phase that is over, or one that a requested close leaves open only    *)
(* for its pending calls.                                                  *)
WellClosed(new, att, p) ==
  /\ new \in PhaseRow
  /\ \/ /\ new.state \in {"SUCCEEDED", "FAILED"}
        /\ new.reservation = 0 /\ new.owner = None /\ new.lease = 0
        /\ PendingIn(att, p) = {}
     \/ /\ new.state = "ACTIVE"
        /\ CloseRequest(att, p) # "none" => PendingIn(att, p) # {}

(* _update_phase_after_attempt leaves an open phase in that state.         *)
LEMMA PhaseAfterIsWellClosed ==
  ASSUME NEW p \in Phases, phase[p] \in PhaseRow, phase[p].state = "ACTIVE",
         NEW att, NEW consumed \in Nat
  PROVE  WellClosed(PhaseAfter(att, p, consumed), att, p)
<1> DEFINE new == PhaseAfter(att, p, consumed)
<1>1. CASE CloseRequest(att, p) # "none" /\ PendingIn(att, p) = {}
  <2>1. CloseRequest(att, p) \in {"SUCCEEDED", "FAILED"}
    BY <1>1, CloseRequestType DEF CloseRequests
  <2>2. new = ClosedPhase(p, CloseRequest(att, p))
    BY <1>1 DEF PhaseAfter
  <2> QED
    BY <1>1, <2>1, <2>2, ClosedPhaseRow DEF WellClosed
<1>2. CASE ~(CloseRequest(att, p) # "none" /\ PendingIn(att, p) = {})
  <2>1. AtLeastZero(phase[p].reservation - consumed) \in Nat
    BY DEF AtLeastZero, PhaseRow
  <2> QED
    BY <1>2, <2>1 DEF PhaseAfter, PhaseRow, PhaseStates, WellClosed
<1> QED
  BY <1>1, <1>2

(* A row that a settling may append to a call.                             *)
SettledRow(row) ==
  /\ row \in AttemptRow
  /\ row.transport \notin {"ABSENT", "PLANNED", "DISPATCH_INTENT_RECORDED"}
  /\ row.billing \notin {"ABSENT", "RESERVED"}
  /\ row.reservation = 0

(* Any calls of one open phase may be settled together.                    *)
LEMMA ManySettledInv ==
  ASSUME IInv, NEW p \in Phases, phase[p].state = "ACTIVE",
         NEW S, S \subseteq AttemptsOf(p),
         NEW rows, \A a \in S : SettledRow(rows[a]),
         attempt' = [a \in Attempts |-> IF a \in S THEN rows[a] ELSE attempt[a]],
         NEW new, WellClosed(new, attempt', p),
         phase' = [phase EXCEPT ![p] = new], today' = today
  PROVE  IInv'
<1> USE LedgerAssumption
<1>1. /\ \A q \in Phases : q # p => phase'[q] = phase[q]
      /\ phase'[p] = new
  BY DEF IInv, TypeOK
<1>2. \A a \in Attempts :
        /\ a \in S => attempt'[a] = rows[a] /\ PhaseOf[a] = p
        /\ a \notin S => attempt'[a] = attempt[a]
  BY DEF AttemptsOf
<1>3. TypeOK'
  <2>1. attempt' \in [Attempts -> AttemptRow]
    BY <1>2 DEF IInv, TypeOK, SettledRow
  <2>2. phase' \in [Phases -> PhaseRow]
    BY DEF IInv, TypeOK, WellClosed
  <2> QED
    BY <2>1, <2>2 DEF IInv, TypeOK
<1>4. \A q \in Phases : phase'[q].state = "ABSENT" => phase[q].state = "ABSENT"
  BY <1>1 DEF WellClosed
<1>5. AttemptShape'
  <2> SUFFICES ASSUME NEW a \in Attempts
               PROVE  /\ attempt'[a].billing = "RESERVED"
                           <=> attempt'[a].transport \in {"PLANNED", "DISPATCH_INTENT_RECORDED"}
                      /\ attempt'[a].billing = "ABSENT" <=> attempt'[a].transport = "ABSENT"
                      /\ attempt'[a].billing # "RESERVED" => attempt'[a].reservation = 0
                      /\ attempt'[a].transport = "ABSENT" => attempt'[a].close = "none"
                      /\ phase'[PhaseOf[a]].state = "ABSENT" => attempt'[a].transport = "ABSENT"
    BY DEF AttemptShape
  <2>1. CASE a \in S
    <3>1. phase'[PhaseOf[a]].state # "ABSENT"
      BY <1>1, <1>2, <2>1 DEF WellClosed
    <3> QED
      BY <1>2, <2>1, <3>1 DEF SettledRow
  <2>2. CASE a \notin S
    BY <1>2, <1>4, <2>2 DEF IInv, AttemptShape
  <2> QED
    BY <2>1, <2>2
<1>6. \A q \in Phases : q # p =>
        /\ \A a \in AttemptsOf(q) : attempt'[a] = attempt[a]
        /\ PendingIn(attempt', q) = PendingIn(attempt, q)
        /\ CloseRequest(attempt', q) = CloseRequest(attempt, q)
  <2> SUFFICES ASSUME NEW q \in Phases, q # p
               PROVE  /\ \A a \in AttemptsOf(q) : attempt'[a] = attempt[a]
                      /\ PendingIn(attempt', q) = PendingIn(attempt, q)
                      /\ CloseRequest(attempt', q) = CloseRequest(attempt, q)
    OBVIOUS
  <2>1. \A a \in AttemptsOf(q) : attempt'[a] = attempt[a]
    BY <1>2 DEF AttemptsOf
  <2> QED
    BY <2>1 DEF PendingIn, CloseRequest
<1>7. ClosedPhaseSettled'
  <2> SUFFICES ASSUME NEW q \in Phases, phase'[q].state # "ACTIVE"
               PROVE  /\ phase'[q].reservation = 0 /\ phase'[q].owner = None
                      /\ phase'[q].lease = 0
                      /\ \A c \in AttemptsOf(q) :
                           ~IsUnsettled(attempt'[c]) /\ attempt'[c].reservation = 0
    BY DEF ClosedPhaseSettled, AttemptsOf, Unsettled
  <2>1. CASE q = p
    <3>1. PendingIn(attempt', p) = {} /\ phase'[p] = new
      BY <1>1, <2>1 DEF WellClosed
    <3>2. \A c \in AttemptsOf(p) : ~IsUnsettled(attempt'[c])
      BY <3>1 DEF PendingIn
    <3>3. \A c \in AttemptsOf(p) : attempt'[c].reservation = 0
      BY <1>5, <3>2 DEF AttemptShape, IsUnsettled, AttemptsOf
    <3> QED
      BY <2>1, <3>1, <3>2, <3>3 DEF WellClosed
  <2>2. CASE q # p
    <3>1. phase'[q] = phase[q] /\ phase[q].state # "ACTIVE"
      BY <1>1, <2>2
    <3>2. /\ phase[q].reservation = 0 /\ phase[q].owner = None /\ phase[q].lease = 0
          /\ \A c \in AttemptsOf(q) : ~IsUnsettled(attempt[c]) /\ attempt[c].reservation = 0
      BY <3>1 DEF IInv, ClosedPhaseSettled, Unsettled
    <3>3. \A c \in AttemptsOf(q) : attempt'[c] = attempt[c]
      BY <1>6, <2>2
    <3> QED
      BY <3>1, <3>2, <3>3
  <2> QED
    BY <2>1, <2>2
<1>8. CloseRequestAwaitsSibling'
  <2> SUFFICES ASSUME NEW q \in Phases, phase'[q].state = "ACTIVE",
                      CloseRequest(attempt', q) # "none"
               PROVE  PendingIn(attempt', q) # {}
    BY DEF CloseRequestAwaitsSibling, ActiveAttempts
  <2>1. CASE q = p
    BY <1>1, <2>1 DEF WellClosed
  <2>2. CASE q # p
    BY <1>1, <1>6, <2>2 DEF IInv, CloseRequestAwaitsSibling, ActiveAttempts
  <2> QED
    BY <2>1, <2>2
<1> QED
  BY <1>3, <1>5, <1>7, <1>8 DEF IInv

(* It keeps the books if the close requests stay and no sent call among    *)
(* them is recorded as unsent.                                             *)
LEMMA ManySettledKeeps ==
  ASSUME IInv, NEW p \in Phases, phase[p].state = "ACTIVE",
         NEW S, S \subseteq AttemptsOf(p),
         NEW rows, \A a \in S : /\ SettledRow(rows[a])
                                /\ attempt[a].close # "none" => rows[a].close # "none"
                                /\ attempt[a].transport \in Reached => rows[a].transport \in Reached,
         attempt' = [a \in Attempts |-> IF a \in S THEN rows[a] ELSE attempt[a]],
         NEW new, WellClosed(new, attempt', p),
         phase' = [phase EXCEPT ![p] = new], today' = today
  PROVE  BooksKept
<1>1. IInv'
  BY ManySettledInv
<1>2. RowsGoOn
  BY DEF RowsGoOn
<1>3. NoneOpened
  BY DEF NoneOpened, IInv, TypeOK
<1> QED
  BY <1>1, <1>2, <1>3 DEF BooksKept

(* The same of one call.                                                   *)
LEMMA OneSettledKeeps ==
  ASSUME IInv, NEW p \in Phases, phase[p].state = "ACTIVE",
         NEW a \in AttemptsOf(p), NEW row, SettledRow(row),
         attempt[a].close # "none" => row.close # "none",
         attempt[a].transport \in Reached => row.transport \in Reached,
         attempt' = [attempt EXCEPT ![a] = row],
         NEW new, WellClosed(new, attempt', p),
         phase' = [phase EXCEPT ![p] = new], today' = today
  PROVE  BooksKept
<1> DEFINE S == {a}
           rows == [c \in S |-> row]
<1>1. S \subseteq AttemptsOf(p)
  OBVIOUS
<1>2. attempt' = [c \in Attempts |-> IF c \in S THEN rows[c] ELSE attempt[c]]
  BY DEF IInv, TypeOK
<1>3. \A c \in S : /\ SettledRow(rows[c])
                   /\ attempt[c].close # "none" => rows[c].close # "none"
                   /\ attempt[c].transport \in Reached => rows[c].transport \in Reached
  OBVIOUS
<1> HIDE DEF S, rows
<1> QED
  BY <1>1, <1>2, <1>3, ManySettledKeeps

(* What the calls of a set were estimated at is a natural.                 *)
LEMMA OwingType ==
  ASSUME TypeOK, NEW S, S \subseteq Attempts
  PROVE  Owing(S) \in Nat
<1> DEFINE estimates == [a \in Attempts |-> attempt[a].estimate]
<1>1. IsFiniteSet(S)
  BY LedgerAssumption, FS_Subset
<1>2. \A a \in S : estimates[a] \in Nat
  BY DEF TypeOK, AttemptRow
<1>3. SumFunctionOnSet(estimates, S) \in Nat
  BY <1>1, <1>2, SumNat
<1> QED
  BY <1>3 DEF Owing

(* The calls found unsettled are settled together, and the phase is asked  *)
(* to close.                                                               *)
LEMMA CloseOutKeeps ==
  ASSUME IInv, NEW p \in Phases, CloseOut(p), lock.planned \cup lock.intended # {}
  PROVE  /\ BooksKept
         /\ phase'[p].state = "ACTIVE" => CloseRequest(attempt', p) # "none"
<1> DEFINE S == lock.planned \cup lock.intended
           rows == [a \in S |-> ClosedOut(a)]
           new == PhaseAfter(attempt', p, Owing(lock.intended))
<1>1. /\ phase[p].state = "ACTIVE"
      /\ lock.planned \subseteq InTransport(p, "PLANNED")
      /\ lock.intended \subseteq InTransport(p, "DISPATCH_INTENT_RECORDED")
      /\ attempt' = [a \in Attempts |-> IF a \in S THEN ClosedOut(a) ELSE attempt[a]]
      /\ phase' = [phase EXCEPT ![p] = new]
      /\ today' = today
  BY DEF CloseOut, OwnedAndLive
<1>2. S \subseteq AttemptsOf(p) /\ lock.intended \subseteq Attempts
  BY <1>1 DEF InTransport, ActiveAttempts, PendingIn, AttemptsOf
<1>3. \A a \in S : /\ SettledRow(ClosedOut(a)) /\ ClosedOut(a).close = "FAILED"
                   /\ attempt[a].transport \in Reached => ClosedOut(a).transport \in Reached
  <2> SUFFICES ASSUME NEW a \in S
               PROVE  /\ SettledRow(ClosedOut(a)) /\ ClosedOut(a).close = "FAILED"
                      /\ attempt[a].transport \in Reached => ClosedOut(a).transport \in Reached
    OBVIOUS
  <2>1. attempt[a] \in AttemptRow
    BY <1>2 DEF IInv, TypeOK, AttemptsOf
  <2>2. CASE a \in lock.planned
    <3>1. attempt[a].transport = "PLANNED"
      BY <1>1, <2>2 DEF InTransport
    <3> QED
      BY <2>1, <2>2, <3>1 DEF ClosedOut, Settled, SettledRow, AttemptRow, TransportStates,
                              BillingStates, CloseRequests, Reached
  <2>3. CASE a \notin lock.planned
    BY <2>1, <2>3 DEF ClosedOut, Settled, SettledRow, AttemptRow, TransportStates,
                      BillingStates, CloseRequests, Reached
  <2> QED
    BY <2>2, <2>3
<1>4. WellClosed(new, attempt', p)
  <2>1. Owing(lock.intended) \in Nat
    BY <1>2, OwingType DEF IInv
  <2>2. phase[p] \in PhaseRow
    BY DEF IInv, TypeOK
  <2> QED
    BY <1>1, <2>1, <2>2, PhaseAfterIsWellClosed
<1>5. attempt' = [a \in Attempts |-> IF a \in S THEN rows[a] ELSE attempt[a]]
  BY <1>1
<1>6. \A a \in S : rows[a] = ClosedOut(a)
  OBVIOUS
<1>7. CloseRequest(attempt', p) # "none"
  <2>1. PICK a \in S : TRUE
    OBVIOUS
  <2>2. attempt'[a].close = "FAILED" /\ a \in AttemptsOf(p)
    BY <1>1, <1>2, <1>3, <2>1 DEF AttemptsOf
  <2> QED
    BY <2>2 DEF CloseRequest
<1> HIDE DEF S, rows, new
<1>8. \A a \in S : /\ SettledRow(rows[a])
                   /\ attempt[a].close # "none" => rows[a].close # "none"
                   /\ attempt[a].transport \in Reached => rows[a].transport \in Reached
  BY <1>3, <1>6
<1>9. BooksKept
  BY <1>1, <1>2, <1>4, <1>5, <1>8, ManySettledKeeps
<1> QED
  BY <1>7, <1>9

(* A call that meets an open circuit is begun and settled at once.         *)
LEMMA OpenCircuitKeeps ==
  ASSUME IInv, NEW a \in Attempts, CallBeginIntoOpenCircuit(a)
  PROVE  BooksKept
<1> USE LedgerAssumption
<1>1. PICK amount \in Estimates :
        /\ CanBeginAttempt(a, process, amount)
        /\ LET row == [PlannedAttempt(amount)
                         EXCEPT !.transport = "LOCAL_FAILURE",
                                !.billing = "KNOWN_ZERO", !.reservation = 0,
                                !.close = "FAILED"]
               after == [attempt EXCEPT ![a] = row]
           IN  /\ attempt' = after
               /\ phase' = [phase EXCEPT ![PhaseOf[a]] = PhaseAfter(after, PhaseOf[a], 0)]
  BY DEF CallBeginIntoOpenCircuit
<1> DEFINE p == PhaseOf[a]
           row == [PlannedAttempt(amount)
                     EXCEPT !.transport = "LOCAL_FAILURE", !.billing = "KNOWN_ZERO",
                            !.reservation = 0, !.close = "FAILED"]
           new == PhaseAfter(attempt', p, 0)
<1>2. /\ attempt' = [attempt EXCEPT ![a] = row]
      /\ phase' = [phase EXCEPT ![p] = new]
      /\ today' = today
  BY <1>1 DEF CallBeginIntoOpenCircuit
<1>3. attempt[a].transport = "ABSENT" /\ phase[p].state = "ACTIVE" /\ p \in Phases
  BY <1>1 DEF CanBeginAttempt, OwnedAndLive
<1>4. SettledRow(row) /\ row.close = "FAILED"
  BY DEF PlannedAttempt, NoAttempt, SettledRow, AttemptRow, TransportStates, BillingStates,
         CloseRequests
<1>5. WellClosed(new, attempt', p)
  BY <1>3, PhaseAfterIsWellClosed DEF IInv, TypeOK
<1>6. a \in AttemptsOf(p) /\ attempt[a].transport \notin Reached
  BY <1>3 DEF AttemptsOf, Reached
<1> HIDE DEF p, row, new
<1> QED
  BY <1>2, <1>3, <1>4, <1>5, <1>6, OneSettledKeeps

(* Usage that no call recorded becomes a settled call of a phase without   *)
(* pending calls, and the phase is closed with it.                         *)
LEMMA ExtraKeeps ==
  ASSUME IInv, NEW p \in Phases, NEW extra \in Extras, CompleteWithExtra(p, extra)
  PROVE  BooksKept /\ phase'[p].state # "ACTIVE"
<1>1. PICK a \in AttemptsOf(p), succeeded \in BOOLEAN :
        /\ attempt[a].transport = "ABSENT"
        /\ attempt' = [attempt EXCEPT ![a] = ExtraCall(p, extra)]
        /\ phase' = [phase EXCEPT ![p] =
                       ClosedPhase(p, IF succeeded THEN "SUCCEEDED" ELSE "FAILED")]
        /\ phase[p].state = "ACTIVE" /\ today' = today /\ ActiveAttempts(p) = {}
  BY DEF CompleteWithExtra, RecordExtraAndComplete, OwnedAndLive
<1> DEFINE row == ExtraCall(p, extra)
           new == ClosedPhase(p, IF succeeded THEN "SUCCEEDED" ELSE "FAILED")
<1>2. a \in Attempts /\ {a} \subseteq AttemptsOf(p)
  BY DEF AttemptsOf
<1>3. phase[p] \in PhaseRow /\ extra \in Nat
  BY RuntimeAssumption DEF IInv, TypeOK
<1>4. SettledRow(row)
  BY <1>3 DEF ExtraCall, PlannedAttempt, NoAttempt, SettledRow, AttemptRow, TransportStates,
              BillingStates, CloseRequests, PhaseRow
<1>5. attempt[a].close = "none"
  BY <1>1, <1>2 DEF IInv, AttemptShape
<1>6. PendingIn(attempt', p) = {}
  <2>1. \A c \in AttemptsOf(p) : ~IsUnsettled(attempt[c])
    BY <1>1 DEF ActiveAttempts, PendingIn
  <2>2. ~IsUnsettled(row)
    BY <1>4 DEF SettledRow, IsUnsettled
  <2> HIDE DEF row
  <2>3. \A c \in AttemptsOf(p) : attempt'[c] \in {row, attempt[c]}
    BY <1>1 DEF IInv, TypeOK, AttemptsOf, row
  <2> QED
    BY <2>1, <2>2, <2>3 DEF PendingIn
<1>7. /\ new \in PhaseRow /\ new.state \in {"SUCCEEDED", "FAILED"}
      /\ new.reservation = 0 /\ new.owner = None /\ new.lease = 0
  BY <1>3, ClosedPhaseRow
<1>8. phase' = [phase EXCEPT ![p] = new] /\ attempt' = [attempt EXCEPT ![a] = row]
  BY <1>1
<1> HIDE DEF row, new
<1>9. WellClosed(new, attempt', p)
  BY <1>6, <1>7 DEF WellClosed
<1>10. attempt[a].transport \notin Reached
  BY <1>1 DEF Reached
<1>11. BooksKept
  BY <1>1, <1>4, <1>5, <1>8, <1>9, <1>10, OneSettledKeeps
<1>12. phase'[p] = new
  BY <1>8 DEF IInv, TypeOK
<1> QED
  BY <1>7, <1>11, <1>12

-----------------------------------------------------------------------------
(* What the threads know, and the invariant of the runtime.                *)

RuntimeTypes ==
  /\ process \in 0..MaxStarts
  /\ up \in BOOLEAN /\ healthy \in BOOLEAN /\ mismatch \in BOOLEAN
  /\ lock \in LockStates
  /\ worker \in [Phases -> WorkerStates]
  /\ caller \in [Attempts -> CallerStates]
  /\ sent \subseteq Attempts

(* A process that runs has a lease owner, and only it holds the lock.      *)
Alive == (up => process \in Owners) /\ (lock # Free => up)

(* A settling that found its phase over settles one that stays over.       *)
LockKnows ==
  lock.kind = "settling" /\ ~lock.open => phase[lock.phase].state # "ACTIVE"

(* A phase its job has closed is over or was asked to close.               *)
ClosedAsked ==
  \A p \in Phases :
    worker[p] = "closed" /\ phase[p].state = "ACTIVE" => CloseRequest(attempt, p) # "none"

(* A call whose thread may send it, or that was sent, reads so.            *)
OnBooks ==
  \A a \in Attempts :
    caller[a] \in {"armed", "sent"} \/ a \in sent => attempt[a].transport \in Reached

RuntimeInv == IInv /\ RuntimeTypes /\ Alive /\ LockKnows /\ ClosedAsked /\ OnBooks

(* What a step of the threads must do for these to stay.                   *)
CallersFollow ==
  \A a \in Attempts :
    caller'[a] \in {"armed", "sent"} \/ a \in sent'
      => caller[a] \in {"armed", "sent"} \/ a \in sent \/ attempt'[a].transport \in Reached

WorkersFollow ==
  \A p \in Phases :
    worker'[p] = "closed"
      => worker[p] = "closed" \/ phase'[p].state # "ACTIVE" \/ CloseRequest(attempt', p) # "none"

LockFollows ==
  \/ lock' = lock
  \/ lock'.kind = "settling" /\ ~lock'.open => phase'[lock'.phase].state # "ACTIVE"

(* Every state of the lock names a phase, but for the free one.            *)
LEMMA LockNamesPhase ==
  ASSUME lock \in LockStates
  PROVE  /\ lock.kind \in {"free", "opening", "settling", "seeding"}
         /\ lock.kind # "free" => lock.phase \in Phases /\ lock # Free
         /\ lock.kind = "opening" => lock.bucket \in Buckets /\ lock.amount \in Reservations
                                     /\ lock.prior \in Nat
<1>1. CASE lock = Free
  BY <1>1 DEF Free
<1>2. CASE lock \in [kind : {"opening"}, phase : Phases, bucket : Buckets,
                     amount : Reservations, prior : Nat]
  BY <1>2 DEF Free
<1>3. CASE lock \in [kind : {"settling"}, phase : Phases, open : BOOLEAN,
                     planned : SUBSET Attempts, intended : SUBSET Attempts]
  BY <1>3 DEF Free
<1>4. CASE lock \in [kind : {"seeding"}, phase : Phases]
  BY <1>4 DEF Free
<1> QED
  BY <1>1, <1>2, <1>3, <1>4 DEF LockStates

(* A close that was asked for stays asked for.                             *)
LEMMA RequestsGoOn ==
  ASSUME RowsGoOn, TypeOK', NEW p \in Phases, CloseRequest(attempt, p) # "none"
  PROVE  CloseRequest(attempt', p) # "none"
<1>1. PICK a \in AttemptsOf(p) : attempt[a].close # "none"
  BY DEF CloseRequest
<1>2. a \in Attempts /\ attempt'[a].close # "none"
  BY <1>1 DEF RowsGoOn, AttemptsOf
<1>3. attempt'[a].close \in {"FAILED", "SUCCEEDED"}
  BY <1>2 DEF TypeOK, AttemptRow, CloseRequests
<1> QED
  BY <1>3 DEF CloseRequest

(* A step that keeps the books, and whose threads follow, keeps it all.    *)
LEMMA FollowInv ==
  ASSUME RuntimeInv, BooksKept, RuntimeTypes', Alive',
         CallersFollow, WorkersFollow, LockFollows
  PROVE  RuntimeInv'
<1>1. LockKnows'
  <2>1. CASE lock' = lock
    <3> SUFFICES ASSUME lock.kind = "settling", ~lock.open
                 PROVE  phase'[lock.phase].state # "ACTIVE"
      BY <2>1 DEF LockKnows
    <3>1. lock.phase \in Phases
      BY LockNamesPhase DEF RuntimeInv, RuntimeTypes
    <3> QED
      BY <3>1 DEF RuntimeInv, LockKnows, BooksKept, NoneOpened
  <2>2. CASE lock' # lock
    BY <2>2 DEF LockFollows, LockKnows
  <2> QED
    BY <2>1, <2>2
<1>2. ClosedAsked'
  <2> SUFFICES ASSUME NEW p \in Phases, worker'[p] = "closed", phase'[p].state = "ACTIVE"
               PROVE  CloseRequest(attempt', p) # "none"
    BY DEF ClosedAsked
  <2>1. CASE worker[p] = "closed"
    <3>1. CloseRequest(attempt, p) # "none"
      BY <2>1 DEF BooksKept, NoneOpened, RuntimeInv, ClosedAsked
    <3> QED
      BY <3>1, RequestsGoOn DEF BooksKept, IInv
  <2>2. CASE worker[p] # "closed"
    BY <2>2 DEF WorkersFollow
  <2> QED
    BY <2>1, <2>2
<1>3. OnBooks'
  BY DEF OnBooks, RuntimeInv, CallersFollow, BooksKept, RowsGoOn
<1> QED
  BY <1>1, <1>2, <1>3 DEF RuntimeInv, BooksKept

(* A thread of a provider call moves.                                      *)
LEMMA CallerInv ==
  ASSUME RuntimeInv, BooksKept, NEW a \in Attempts, NEW from, NEW to \in CallerStates,
         Move(a, from, to), CallSame,
         to \in {"armed", "sent"} => attempt'[a].transport \in Reached,
         sent' = sent \/ (to = "sent" /\ sent' = sent \cup {a})
  PROVE  RuntimeInv'
<1>1. /\ caller' = [caller EXCEPT ![a] = to] /\ healthy' = healthy /\ mismatch' = mismatch
      /\ process' = process /\ up' = up /\ lock' = lock /\ worker' = worker
  BY DEF Move, CallSame, server
<1>2. RuntimeTypes'
  BY <1>1 DEF RuntimeInv, RuntimeTypes
<1>3. Alive'
  BY <1>1 DEF RuntimeInv, Alive, Free
<1>4. CallersFollow
  BY <1>1 DEF CallersFollow, RuntimeInv, RuntimeTypes
<1>5. WorkersFollow /\ LockFollows
  BY <1>1 DEF WorkersFollow, LockFollows
<1> QED
  BY <1>2, <1>3, <1>4, <1>5, FollowInv

(* A job, the clock or an administrator acts; no thread of a call does,    *)
(* unless an unused one is spent on a call recorded after the fact.        *)
LEMMA HolderInv ==
  ASSUME RuntimeInv, BooksKept,
         UNCHANGED server, mismatch' = mismatch \/ mismatch' \in BOOLEAN,
         healthy' \in BOOLEAN, sent' = sent,
         \/ caller' = caller
         \/ \E a \in Attempts : caller' = [caller EXCEPT ![a] = "done"],
         lock' \in LockStates, lock' # Free => up, LockFollows,
         worker' \in [Phases -> WorkerStates], WorkersFollow
  PROVE  RuntimeInv'
<1>1. process' = process /\ up' = up
  BY DEF server
<1>2. /\ caller' \in [Attempts -> CallerStates]
      /\ \A a \in Attempts : caller'[a] = caller[a] \/ caller'[a] = "done"
  BY DEF RuntimeInv, RuntimeTypes, CallerStates
<1>3. RuntimeTypes'
  BY <1>1, <1>2 DEF RuntimeInv, RuntimeTypes
<1>4. Alive'
  BY <1>1 DEF RuntimeInv, Alive, Free
<1>5. CallersFollow
  BY <1>2 DEF CallersFollow
<1> QED
  BY <1>3, <1>4, <1>5, FollowInv

(* A job turns to another state; to "closed" only if its phase is over or  *)
(* was asked to close.                                                     *)
LEMMA TurnFollows ==
  ASSUME RuntimeInv, NEW p \in Phases, NEW st \in WorkerStates, Turn(p, st),
         st = "closed" => phase'[p].state # "ACTIVE" \/ CloseRequest(attempt', p) # "none"
  PROVE  worker' \in [Phases -> WorkerStates] /\ WorkersFollow
  BY DEF Turn, RuntimeInv, RuntimeTypes, WorkersFollow

(* A job that does not turn follows.                                       *)
LEMMA SameWorkersFollow ==
  ASSUME RuntimeInv, worker' = worker
  PROVE  worker' \in [Phases -> WorkerStates] /\ WorkersFollow
  BY DEF RuntimeInv, RuntimeTypes, WorkersFollow

(* What a link has cost is a natural.                                      *)
LEMMA SpentType == TypeOK => \A P : SpentBy(P) \in Nat
<1> SUFFICES ASSUME TypeOK, NEW P PROVE SpentBy(P) \in Nat
  OBVIOUS
<1> DEFINE spent == [a \in Attempts |-> attempt[a].known + attempt[a].liability]
<1>1. \A a \in AttemptsIn(P) : spent[a] \in Nat
  BY DEF TypeOK, AttemptRow, AttemptsIn
<1>2. IsFiniteSet(AttemptsIn(P))
  BY FiniteRows
<1>3. SumFunctionOnSet(spent, AttemptsIn(P)) \in Nat
  BY <1>1, <1>2, SumNat
<1> QED
  BY <1>3 DEF SpentBy

-----------------------------------------------------------------------------
(* The runtime starts with what the cutover left, and with no thread.      *)
LEMMA RuntimeInitInv == RuntimeInit => RuntimeInv
<1> SUFFICES ASSUME RuntimeInit PROVE RuntimeInv
  OBVIOUS
<1>1. IInv
  BY InitInv DEF RuntimeInit
<1>2. RuntimeTypes
  <2>1. lock \in LockStates
    BY DEF RuntimeInit, LockStates
  <2>2. worker \in [Phases -> WorkerStates] /\ caller \in [Attempts -> CallerStates]
    BY DEF RuntimeInit, WorkerStates, CallerStates
  <2>3. process \in 0..MaxStarts
    BY RuntimeAssumption DEF RuntimeInit
  <2> QED
    BY <2>1, <2>2, <2>3 DEF RuntimeInit, RuntimeTypes
<1>3. Alive /\ LockKnows /\ ClosedAsked /\ OnBooks
  BY DEF RuntimeInit, Alive, LockKnows, ClosedAsked, OnBooks, Free
<1> QED
  BY <1>1, <1>2, <1>3 DEF RuntimeInv

(* A new process is a new lease owner, and reaps first.                    *)
LEMMA StartInv == RuntimeInv /\ Start => RuntimeInv'
<1> SUFFICES ASSUME RuntimeInv, Start PROVE RuntimeInv'
  OBVIOUS
<1>1. BooksKept
  BY ExpireKeeps DEF Start, VerifyHistory, RuntimeInv
<1>2. /\ process' = process + 1 /\ process' \in 1..MaxStarts /\ up' = TRUE
      /\ healthy' \in BOOLEAN /\ mismatch' \in BOOLEAN
      /\ lock' = lock /\ worker' = worker /\ caller' = caller /\ sent' = sent
  <2>1. /\ process' = process + 1 /\ process' \in 1..MaxStarts /\ up' = TRUE
        /\ lock' = lock /\ worker' = worker /\ caller' = caller /\ sent' = sent
    BY RuntimeAssumption DEF Start, RuntimeInv, RuntimeTypes, threads
  <2>2. PICK found \in {FALSE, mismatch \/ Underbooked} : mismatch' = found /\ healthy' = ~found
    BY Zenon DEF Start, VerifyHistory
  <2>3. (mismatch \/ Underbooked) \in BOOLEAN
    BY Zenon DEF Underbooked
  <2> QED
    BY <2>1, <2>2, <2>3, Zenon
<1>3. RuntimeTypes'
  BY <1>2, RuntimeAssumption DEF RuntimeInv, RuntimeTypes
<1>4. Alive'
  BY <1>2, RuntimeAssumption DEF Alive
<1>5. CallersFollow /\ WorkersFollow /\ LockFollows
  BY <1>2 DEF CallersFollow, WorkersFollow, LockFollows
<1> QED
  BY <1>1, <1>3, <1>4, <1>5, FollowInv

(* A crash ends every thread and changes no row.                           *)
LEMMA CrashInv == RuntimeInv /\ Crash => RuntimeInv'
<1> SUFFICES ASSUME RuntimeInv, Crash PROVE RuntimeInv'
  OBVIOUS
<1>1. BooksKept
  BY QuietKeeps DEF Crash, RuntimeInv, ledger
<1>2. RuntimeTypes'
  BY DEF Crash, RuntimeInv, RuntimeTypes, LockStates, WorkerStates, CallerStates
<1>3. Alive'
  BY DEF Crash, Alive, Free
<1>4. CallersFollow
  BY DEF Crash, CallersFollow
<1>5. WorkersFollow
  BY DEF Crash, WorkersFollow
<1>6. LockFollows
  BY DEF Crash, LockFollows, Free
<1> QED
  BY <1>1, <1>2, <1>3, <1>4, <1>5, <1>6, FollowInv

(* Steps that only touch the ledger and what is known of the store.        *)
LEMMA OutsideInv ==
  ASSUME RuntimeInv, BooksKept, healthy' \in BOOLEAN,
         mismatch' = mismatch \/ mismatch' \in BOOLEAN,
         UNCHANGED <<server, threads>>
  PROVE  RuntimeInv'
<1>1. /\ UNCHANGED server /\ lock' = lock /\ worker' = worker
      /\ caller' = caller /\ sent' = sent
  BY DEF threads
<1>2. lock' \in LockStates /\ (lock' # Free => up) /\ LockFollows
  BY <1>1 DEF RuntimeInv, RuntimeTypes, Alive, LockFollows
<1>3. worker' \in [Phases -> WorkerStates] /\ WorkersFollow
  BY <1>1, SameWorkersFollow
<1> QED
  BY <1>1, <1>2, <1>3, HolderInv

(* Rechecking, reaping, resolving and the clock are such steps.            *)
LEMMA OutsideSteps ==
  RuntimeInv /\ (\/ RecheckBudgetStore \/ ResolveBudgetLiability
                 \/ ReapExpiredPaidPhases \/ ReapFails \/ RuntimeTick) => RuntimeInv'
<1> SUFFICES ASSUME RuntimeInv PROVE
      (\/ RecheckBudgetStore \/ ResolveBudgetLiability
       \/ ReapExpiredPaidPhases \/ ReapFails \/ RuntimeTick) => RuntimeInv'
  OBVIOUS
<1>0. IInv /\ healthy \in BOOLEAN /\ mismatch \in BOOLEAN
  BY DEF RuntimeInv, RuntimeTypes
<1>1. CASE RecheckBudgetStore
  BY <1>0, <1>1, ExpireKeeps, OutsideInv DEF RecheckBudgetStore, VerifyHistory, Underbooked
<1>2. CASE ResolveBudgetLiability
  BY <1>0, <1>2, ResolveKeeps, OutsideInv DEF ResolveBudgetLiability, Underbooked
<1>3. CASE ReapExpiredPaidPhases
  BY <1>0, <1>3, ExpireKeeps, OutsideInv DEF ReapExpiredPaidPhases, ReapDue
<1>4. CASE ReapFails
  <2>1. BooksKept
    BY <1>0, <1>4, QuietKeeps DEF ReapFails, ledger
  <2> QED
    BY <1>0, <1>4, <2>1, OutsideInv DEF ReapFails
<1>5. CASE RuntimeTick
  <2>1. BooksKept
    BY <1>0, <1>5, TickKeeps DEF RuntimeTick
  <2> QED
    BY <1>0, <1>5, <2>1, OutsideInv DEF RuntimeTick
<1> QED
  BY <1>1, <1>2, <1>3, <1>4, <1>5

(* Seeding ends every opening, settling and cancelling.                    *)
LEMMA SeedInv == RuntimeInv /\ (Seed \/ SeedFails) => RuntimeInv'
<1> SUFFICES ASSUME RuntimeInv PROVE Seed \/ SeedFails => RuntimeInv'
  OBVIOUS
<1>0. IInv /\ healthy \in BOOLEAN /\ lock \in LockStates
  BY DEF RuntimeInv, RuntimeTypes
<1>1. Free \in LockStates /\ Free.kind # "settling"
  BY DEF LockStates, Free
<1>2. CASE Seed
  <2>1. BooksKept
    BY <1>0, <1>2, ExpireKeeps DEF Seed
  <2>2. LockFollows
    BY <1>1, <1>2 DEF Seed, LockFollows
  <2>3. worker' \in [Phases -> WorkerStates] /\ WorkersFollow
    BY <1>2, SameWorkersFollow DEF Seed
  <2> QED
    BY <1>1, <1>2, <2>1, <2>2, <2>3, HolderInv DEF Seed
<1>3. CASE SeedFails
  <2>1. BooksKept
    BY <1>0, <1>3, QuietKeeps DEF SeedFails, ledger
  <2>2. LockFollows
    BY <1>1, <1>3 DEF SeedFails, LockFollows
  <2>3. lock.phase \in Phases
    BY <1>0, <1>3, LockNamesPhase DEF SeedFails
  <2>4. worker' \in [Phases -> WorkerStates] /\ WorkersFollow
    BY <1>3, <2>3, SameWorkersFollow, TurnFollows DEF SeedFails, WorkerStates
  <2>5. healthy' \in BOOLEAN
    BY <1>0, <1>3 DEF SeedFails
  <2> QED
    BY <1>1, <1>3, <2>1, <2>2, <2>4, <2>5, HolderInv DEF SeedFails
<1> QED
  BY <1>2, <1>3

(* Opening reads the lifetime cost after the reaping.                      *)
LEMMA OpenReadInv ==
  ASSUME RuntimeInv, NEW p \in Phases, NEW b \in Buckets, NEW amount \in Reservations,
         OpenRead(p, b, amount)
  PROVE  RuntimeInv'
<1>1. IInv /\ healthy \in BOOLEAN
  BY DEF RuntimeInv, RuntimeTypes
<1>2. BooksKept /\ healthy' \in BOOLEAN
  BY <1>1, ExpireKeeps DEF OpenRead, ReapDue
<1>3. SpentBy(PhasesOfBucket(b))' \in Nat
  <2>1. TypeOK' => (\A P : SpentBy(P) \in Nat)'
    BY SpentType, PTL
  <2> QED
    BY <1>2, <2>1 DEF BooksKept, IInv
<1>4. lock' \in LockStates /\ LockFollows
  BY <1>3 DEF OpenRead, Opening, LockStates, LockFollows
<1>5. worker' \in [Phases -> WorkerStates] /\ WorkersFollow
  BY TurnFollows DEF OpenRead, WorkerStates
<1> QED
  BY <1>2, <1>4, <1>5, HolderInv DEF OpenRead

(* Only OpenWrite opens a phase, and its job does not hold it closed.      *)
LEMMA OpenWriteInv == RuntimeInv /\ OpenWrite => RuntimeInv'
<1> SUFFICES ASSUME RuntimeInv, OpenWrite PROVE RuntimeInv'
  OBVIOUS
<1> DEFINE p == lock.phase
<1>1. /\ lock.kind = "opening" /\ p \in Phases /\ lock.bucket \in Buckets
      /\ lock.amount \in Reservations /\ lock # Free
  BY LockNamesPhase DEF OpenWrite, RuntimeInv, RuntimeTypes
<1>2. up /\ process \in Owners
  BY <1>1 DEF RuntimeInv, Alive
<1>3. BeginPhase(p, lock.bucket, lock.amount, process, lock.prior)
  BY DEF OpenWrite
<1>4. IInv' /\ attempt' = attempt /\ \A q \in Phases : q # p => phase'[q] = phase[q]
  BY <1>1, <1>2, <1>3, BeginPhaseInv DEF RuntimeInv, BeginPhase, IInv, TypeOK
<1>5. /\ lock' = Seeding(p) /\ worker' = [worker EXCEPT ![p] = "held"]
      /\ healthy' = healthy /\ mismatch' = mismatch /\ process' = process /\ up' = up
      /\ caller' = caller /\ sent' = sent
  BY DEF OpenWrite, Turn, server
<1> HIDE DEF p
<1>6. RuntimeTypes'
  BY <1>1, <1>5 DEF RuntimeInv, RuntimeTypes, LockStates, Seeding, WorkerStates
<1>7. Alive'
  BY <1>2, <1>5 DEF Alive
<1>8. LockKnows'
  BY <1>5 DEF LockKnows, Seeding
<1>9. ClosedAsked'
  BY <1>1, <1>4, <1>5 DEF ClosedAsked, RuntimeInv, RuntimeTypes
<1>10. OnBooks'
  BY <1>4, <1>5 DEF OnBooks, RuntimeInv
<1> QED
  BY <1>4, <1>6, <1>7, <1>8, <1>9, <1>10 DEF RuntimeInv

(* Steps of a job that change neither ledger nor calls.                    *)
LEMMA JobInv ==
  ASSUME RuntimeInv, UNCHANGED <<ledger, today, mismatch, server, caller, sent>>,
         healthy' \in BOOLEAN, NEW p \in Phases, NEW st \in WorkerStates \ {"closed"},
         Turn(p, st), lock' \in LockStates, lock' # Free => up, LockFollows
  PROVE  RuntimeInv'
<1>1. BooksKept
  BY QuietKeeps DEF RuntimeInv, ledger
<1>2. worker' \in [Phases -> WorkerStates] /\ WorkersFollow
  BY TurnFollows
<1> QED
  BY <1>1, <1>2, HolderInv

(* An opening that is refused or fails, a start, a failed cancelling, and  *)
(* the two ends of a settling that write nothing.                          *)
LEMMA JobSteps ==
  ASSUME RuntimeInv,
         \/ OpenRefused \/ OpenFails \/ SettleFails
         \/ \E p \in Phases :
              Admit(p) \/ StartProvider(p) \/ CancelFails(p) \/ SettleRead(p)
  PROVE  RuntimeInv'
<1>0. healthy \in BOOLEAN /\ lock \in LockStates /\ (lock # Free => up)
  BY DEF RuntimeInv, RuntimeTypes, Alive
<1>1. Free \in LockStates /\ Free.kind # "settling"
  BY DEF LockStates, Free
<1>2. {"admitted", "refused", "started", "failed", "settling", "lost"} \subseteq WorkerStates \ {"closed"}
  BY DEF WorkerStates
<1>3. CASE OpenRefused \/ OpenFails \/ SettleFails
  <2>1. lock.phase \in Phases
    BY <1>0, <1>3, LockNamesPhase DEF OpenRefused, OpenFails, SettleFails
  <2>2. LockFollows /\ lock' = Free
    BY <1>1, <1>3 DEF OpenRefused, OpenFails, SettleFails, LockFollows
  <2>3. healthy' \in BOOLEAN /\ UNCHANGED <<ledger, today, mismatch, server, caller, sent>>
    BY <1>0, <1>3 DEF OpenRefused, OpenFails, SettleFails
  <2>4. Turn(lock.phase, "refused") \/ Turn(lock.phase, "failed")
    BY <1>3 DEF OpenRefused, OpenFails, SettleFails
  <2> QED
    BY <1>1, <1>2, <2>1, <2>2, <2>3, <2>4, JobInv
<1>4. ASSUME NEW p \in Phases, Admit(p) \/ StartProvider(p) \/ CancelFails(p)
      PROVE  RuntimeInv'
  <2>1. LockFollows /\ lock' = lock
    BY <1>4 DEF Admit, StartProvider, CancelFails, LockFollows
  <2>2. healthy' \in BOOLEAN /\ UNCHANGED <<ledger, today, mismatch, server, caller, sent>>
    BY <1>0, <1>4 DEF Admit, StartProvider, CancelFails
  <2>3. Turn(p, "admitted") \/ Turn(p, "started") \/ Turn(p, "lost")
    BY <1>4 DEF Admit, StartProvider, CancelFails
  <2> QED
    BY <1>0, <1>2, <2>1, <2>2, <2>3, JobInv
<1>5. ASSUME NEW p \in Phases, SettleRead(p)
      PROVE  RuntimeInv'
  <2>1. /\ lock' = Settling(p, phase[p].state = "ACTIVE", InTransport(p, "PLANNED"),
                            InTransport(p, "DISPATCH_INTENT_RECORDED"))
        /\ up /\ phase' = phase
        /\ UNCHANGED <<ledger, today, mismatch, server, caller, sent>> /\ healthy' = healthy
        /\ Turn(p, "settling")
    BY <1>5 DEF SettleRead, ledger
  <2>2. \A t : InTransport(p, t) \in SUBSET Attempts
    BY DEF InTransport, ActiveAttempts, PendingIn, AttemptsOf
  <2>3. lock' \in LockStates /\ LockFollows
    BY <2>1, <2>2 DEF Settling, LockStates, LockFollows
  <2> QED
    BY <1>0, <1>2, <2>1, <2>3, JobInv
<1> QED
  BY <1>3, <1>4, <1>5

(* A cancelled phase is over.                                              *)
LEMMA CancelInv ==
  ASSUME RuntimeInv, NEW p \in Phases, CancelPaidPhase(p)
  PROVE  RuntimeInv'
<1>0. IInv /\ healthy \in BOOLEAN /\ up /\ process \in Owners
  BY DEF RuntimeInv, RuntimeTypes, Alive, CancelPaidPhase
<1>1. BooksKept /\ phase'[p].state # "ACTIVE"
  <2>1. CASE phase[p].state = "ACTIVE"
    BY <1>0, <2>1, CompleteKeeps DEF CancelPaidPhase
  <2>2. CASE phase[p].state # "ACTIVE"
    BY <1>0, <2>2, QuietKeeps DEF CancelPaidPhase, ledger
  <2> QED
    BY <2>1, <2>2
<1>2. lock' \in LockStates /\ LockFollows
  BY DEF CancelPaidPhase, Seeding, LockStates, LockFollows
<1>3. worker' \in [Phases -> WorkerStates] /\ WorkersFollow
  BY <1>1, TurnFollows DEF CancelPaidPhase, WorkerStates
<1> QED
  BY <1>0, <1>1, <1>2, <1>3, HolderInv DEF CancelPaidPhase

(* A settled phase is over, or what was found in it asked it to close; one *)
(* that was over when it was read still is.                                *)
LEMMA SettleWriteInv == RuntimeInv /\ SettleWrite => RuntimeInv'
<1> SUFFICES ASSUME RuntimeInv, SettleWrite PROVE RuntimeInv'
  OBVIOUS
<1> DEFINE p == lock.phase
           found == lock.planned \cup lock.intended
<1>0. /\ IInv /\ healthy \in BOOLEAN /\ up /\ process \in Owners
      /\ lock.kind = "settling" /\ p \in Phases
  BY LockNamesPhase DEF RuntimeInv, RuntimeTypes, Alive, SettleWrite
<1>1. /\ lock' = Seeding(p) /\ Turn(p, "closed")
      /\ UNCHANGED <<healthy, mismatch, server, sent>>
  BY DEF SettleWrite
<1>2. \/ ~lock.open /\ UNCHANGED <<ledger, today, caller>>
      \/ found # {} /\ CloseOut(p) /\ UNCHANGED caller
      \/ \E succeeded \in BOOLEAN : CompletePhase(p, process, succeeded) /\ UNCHANGED caller
      \/ \E extra \in Extras : CompleteWithExtra(p, extra)
  BY DEF SettleWrite
<1>3. /\ BooksKept
      /\ phase'[p].state # "ACTIVE" \/ CloseRequest(attempt', p) # "none"
      /\ \/ caller' = caller
         \/ \E a \in Attempts : caller' = [caller EXCEPT ![a] = "done"]
  <2>1. CASE ~lock.open /\ UNCHANGED <<ledger, today, caller>>
    <3>1. BooksKept /\ phase' = phase
      BY <1>0, <2>1, QuietKeeps DEF ledger
    <3> QED
      BY <1>0, <2>1, <3>1 DEF RuntimeInv, LockKnows
  <2>2. CASE found # {} /\ CloseOut(p) /\ UNCHANGED caller
    BY <1>0, <2>2, CloseOutKeeps
  <2>3. CASE \E succeeded \in BOOLEAN : CompletePhase(p, process, succeeded) /\ UNCHANGED caller
    BY <1>0, <2>3, CompleteKeeps
  <2>4. ASSUME NEW extra \in Extras, CompleteWithExtra(p, extra)
        PROVE  /\ BooksKept
               /\ phase'[p].state # "ACTIVE" \/ CloseRequest(attempt', p) # "none"
               /\ \E a \in Attempts : caller' = [caller EXCEPT ![a] = "done"]
    <3>1. BooksKept /\ phase'[p].state # "ACTIVE"
      BY <1>0, <2>4, ExtraKeeps
    <3>2. \E a \in AttemptsOf(p) : caller' = [caller EXCEPT ![a] = "done"]
      BY <2>4 DEF CompleteWithExtra, RecordExtraAndComplete
    <3> QED
      BY <3>1, <3>2 DEF AttemptsOf
  <2> QED
    BY <1>2, <2>1, <2>2, <2>3, <2>4
<1> HIDE DEF p, found
<1>4. lock' \in LockStates /\ LockFollows
  BY <1>0, <1>1 DEF Seeding, LockStates, LockFollows
<1>5. worker' \in [Phases -> WorkerStates] /\ WorkersFollow
  BY <1>0, <1>1, <1>3, TurnFollows DEF WorkerStates
<1> QED
  BY <1>0, <1>1, <1>3, <1>4, <1>5, HolderInv

(* The callbacks of a call.                                                *)
LEMMA CallSteps ==
  ASSUME RuntimeInv, NEW a \in Attempts,
         \/ CallBegin(a) \/ CallBeginIntoOpenCircuit(a)
         \/ CallHeartbeat(a)
         \/ CallArm(a) \/ CallRefused(a) \/ CallCancelled(a)
         \/ CallSend(a)
         \/ CallObserve(a) \/ CallObserveFails(a)
  PROVE  RuntimeInv'
<1>0. IInv /\ (up => process \in Owners) /\ PhaseOf[a] \in Phases
  BY LedgerAssumption DEF RuntimeInv, Alive
<1> USE DEF CallerStates
<1>1. CASE CallBegin(a)
  <2>1. BooksKept
    BY <1>0, <1>1, BeginKeeps DEF CallBegin, Move
  <2>2. Move(a, {"idle"}, "begun") /\ CallSame /\ sent' = sent
    BY <1>1 DEF CallBegin
  <2> QED
    BY <2>1, <2>2, CallerInv
<1>2. CASE CallBeginIntoOpenCircuit(a)
  <2>1. BooksKept
    BY <1>0, <1>2, OpenCircuitKeeps
  <2>2. Move(a, {"idle"}, "done") /\ CallSame /\ sent' = sent
    BY <1>2 DEF CallBeginIntoOpenCircuit
  <2> QED
    BY <2>1, <2>2, CallerInv
<1>3. CASE CallHeartbeat(a)
  <2>1. BooksKept
    BY <1>0, <1>3, HeartbeatKeeps DEF CallHeartbeat, Move
  <2>2. Move(a, {"begun"}, "beaten") /\ CallSame /\ sent' = sent
    BY <1>3 DEF CallHeartbeat
  <2> QED
    BY <2>1, <2>2, CallerInv
<1>4. CASE CallArm(a)
  <2>1. BooksKept /\ attempt'[a].transport \in Reached
    BY <1>0, <1>4, ArmKeeps DEF CallArm, Move
  <2>2. Move(a, {"beaten"}, "armed") /\ CallSame /\ sent' = sent
    BY <1>4 DEF CallArm
  <2> QED
    BY <2>1, <2>2, CallerInv
<1>5. CASE CallRefused(a)
  <2>1. BooksKept
    BY <1>0, <1>5, PreDispatchFailureKeeps DEF CallRefused, Move
  <2>2. Move(a, {"beaten"}, "done") /\ CallSame /\ sent' = sent
    BY <1>5 DEF CallRefused
  <2> QED
    BY <2>1, <2>2, CallerInv
<1>6. CASE CallCancelled(a)
  <2>1. BooksKept
    BY <1>0, <1>6, PreDispatchFailureKeeps, QuietKeeps DEF CallCancelled, Move, ledger
  <2>2. Move(a, {"begun", "beaten"}, "done") /\ CallSame /\ sent' = sent
    BY <1>6 DEF CallCancelled
  <2> QED
    BY <2>1, <2>2, CallerInv
<1>7. CASE CallSend(a)
  <2>1. BooksKept /\ attempt' = attempt
    BY <1>0, <1>7, QuietKeeps DEF CallSend, ledger
  <2>2. attempt[a].transport \in Reached
    BY <1>7 DEF CallSend, Move, RuntimeInv, OnBooks
  <2> QED
    BY <1>7, <2>1, <2>2, CallerInv DEF CallSend
<1>8. CASE CallObserve(a)
  <2>1. BooksKept
    BY <1>0, <1>8, ObserveKeeps DEF CallObserve, Move
  <2>2. Move(a, {"sent"}, "done") /\ CallSame /\ sent' = sent
    BY <1>8 DEF CallObserve
  <2> QED
    BY <2>1, <2>2, CallerInv
<1>9. CASE CallObserveFails(a)
  <2>1. BooksKept
    BY <1>0, <1>9, QuietKeeps DEF CallObserveFails, ledger
  <2>2. Move(a, {"sent"}, "done") /\ CallSame /\ sent' = sent
    BY <1>9 DEF CallObserveFails
  <2> QED
    BY <2>1, <2>2, CallerInv
<1> QED
  BY <1>1, <1>2, <1>3, <1>4, <1>5, <1>6, <1>7, <1>8, <1>9

(* Nothing happens.                                                        *)
LEMMA StutterInv == RuntimeInv /\ UNCHANGED runtimeVars => RuntimeInv'
<1> SUFFICES ASSUME RuntimeInv, UNCHANGED runtimeVars PROVE RuntimeInv'
  OBVIOUS
<1>1. BooksKept
  BY QuietKeeps DEF RuntimeInv, runtimeVars, ledger
<1> QED
  BY <1>1, OutsideInv DEF runtimeVars, RuntimeInv, RuntimeTypes

(* Every step of the runtime keeps its invariant.                          *)
LEMMA RuntimeStep == RuntimeInv /\ [RuntimeNext]_runtimeVars => RuntimeInv'
<1> SUFFICES ASSUME RuntimeInv, [RuntimeNext]_runtimeVars PROVE RuntimeInv'
  OBVIOUS
<1>1. CASE Start \/ Crash
  BY <1>1, StartInv, CrashInv
<1>2. CASE \/ RecheckBudgetStore \/ ResolveBudgetLiability
           \/ ReapExpiredPaidPhases \/ ReapFails \/ RuntimeTick
  BY <1>2, OutsideSteps
<1>3. CASE LockHolderStep
  BY <1>3, OpenWriteInv, JobSteps, SettleWriteInv, SeedInv DEF LockHolderStep
<1>4. ASSUME NEW p \in Phases,
             \/ Admit(p)
             \/ \E b \in Buckets, amount \in Reservations : OpenRead(p, b, amount)
             \/ StartProvider(p)
             \/ CancelPaidPhase(p) \/ CancelFails(p)
             \/ SettleRead(p)
      PROVE  RuntimeInv'
  BY <1>4, OpenReadInv, CancelInv, JobSteps
<1>5. ASSUME NEW a \in Attempts,
             \/ CallBegin(a) \/ CallBeginIntoOpenCircuit(a)
             \/ CallHeartbeat(a)
             \/ CallArm(a) \/ CallRefused(a) \/ CallCancelled(a)
             \/ CallSend(a)
             \/ CallObserve(a) \/ CallObserveFails(a)
      PROVE  RuntimeInv'
  BY <1>5, CallSteps
<1>6. CASE UNCHANGED runtimeVars
  BY <1>6, StutterInv
<1> QED
  BY <1>1, <1>2, <1>3, <1>4, <1>5, <1>6 DEF RuntimeNext

(* The invariant of the ledger and of what the threads know holds always.  *)
THEOREM RuntimeInvariant == RuntimeSpec => []RuntimeInv
<1> QED
  BY RuntimeInitInv, RuntimeStep, PTL DEF RuntimeSpec

(* Threads, lock and ledger are only in the states listed for them.        *)
THEOREM RuntimeTypesHold == RuntimeSpec => []RuntimeTypeOK
<1>1. RuntimeInv => RuntimeTypeOK
  BY DEF RuntimeInv, IInv, RuntimeTypes, RuntimeTypeOK
<1> QED
  BY <1>1, RuntimeInvariant, PTL

(* A call that reached the provider stays on the books as one that may     *)
(* have, whoever settles it.                                               *)
THEOREM RuntimeSentIsAccounted == RuntimeSpec => []SentIsAccounted
<1>1. RuntimeInv => SentIsAccounted
  BY DEF RuntimeInv, RuntimeTypes, OnBooks, Reached, SentIsAccounted
<1> QED
  BY <1>1, RuntimeInvariant, PTL

(* A phase its job has closed buys no further call.                        *)
THEOREM RuntimeClosedByJobBuysNothing == RuntimeSpec => []ClosedByJobBuysNothing
<1>1. RuntimeInv => ClosedByJobBuysNothing
  BY DEF RuntimeInv, IInv, ClosedAsked, CloseRequestAwaitsSibling, ClosedByJobBuysNothing
<1> QED
  BY <1>1, RuntimeInvariant, PTL

-----------------------------------------------------------------------------
(* What the runtime does to the ledger, in one step: a step of the ledger, *)
(* the opening of a phase on a lifetime cost read before, or one of the    *)
(* three transactions that the ledger by itself does not have.             *)

LedgerStep == [Next]_vars /\ NoneOpened

BooksStep ==
  \/ LedgerStep
  \/ OpenWrite
  \/ \E p \in Phases : CloseOut(p)
  \/ \E a \in Attempts : CallBeginIntoOpenCircuit(a)
  \/ \E p \in Phases, extra \in Extras : CompleteWithExtra(p, extra)

(* Nothing written is a step of the ledger.                                *)
LEMMA QuietIsStep ==
  ASSUME UNCHANGED <<ledger, today>>
  PROVE  LedgerStep
  BY DEF LedgerStep, NoneOpened, ledger, vars

(* So is a reaping, whether it finds something or not.                     *)
LEMMA ExpireIsStep ==
  ASSUME IInv, ExpireDuePhaseLeases
  PROVE  LedgerStep
<1>1. NoneOpened
  BY ExpireKeeps DEF BooksKept
<1>2. CASE DuePhases # {}
  BY <1>1, <1>2 DEF LedgerStep, Next, ExpireSome
<1>3. CASE DuePhases = {}
  <2>1. attempt' = [a \in Attempts |-> attempt[a]] /\ phase' = [p \in Phases |-> phase[p]]
        /\ today' = today
    BY <1>3 DEF ExpireDuePhaseLeases
  <2>2. attempt' = attempt /\ phase' = phase
    BY <2>1 DEF IInv, TypeOK
  <2> QED
    BY <1>1, <2>1, <2>2 DEF LedgerStep, vars
<1> QED
  BY <1>2, <1>3

(* The steps outside the lock, and those that only end its use.            *)
LEMMA StepOutside ==
  ASSUME RuntimeInv,
         \/ Start \/ Crash \/ RecheckBudgetStore \/ ResolveBudgetLiability
         \/ ReapExpiredPaidPhases \/ ReapFails \/ RuntimeTick
         \/ OpenRefused \/ OpenFails \/ SettleFails \/ Seed \/ SeedFails
  PROVE  LedgerStep
<1>0. IInv
  BY DEF RuntimeInv
<1>1. CASE Start \/ RecheckBudgetStore \/ ReapExpiredPaidPhases \/ Seed
  BY <1>0, <1>1, ExpireIsStep
  DEF Start, RecheckBudgetStore, VerifyHistory, ReapExpiredPaidPhases, ReapDue, Seed
<1>2. CASE Crash \/ ReapFails \/ OpenRefused \/ OpenFails \/ SettleFails \/ SeedFails
  BY <1>2, QuietIsStep DEF Crash, ReapFails, OpenRefused, OpenFails, SettleFails, SeedFails
<1>3. CASE ResolveBudgetLiability
  <2>1. AnyResolveLiability
    BY <1>3 DEF ResolveBudgetLiability
  <2>2. NoneOpened
    BY <1>0, <2>1, ResolveKeeps DEF BooksKept
  <2> QED
    BY <2>1, <2>2 DEF LedgerStep, Next
<1>4. CASE RuntimeTick
  BY <1>0, <1>4, TickKeeps DEF RuntimeTick, BooksKept, LedgerStep, Next
<1> QED
  BY <1>1, <1>2, <1>3, <1>4

(* Completing a phase.                                                     *)
LEMMA CompleteIsStep ==
  ASSUME IInv, NEW p \in Phases, NEW o \in Owners, NEW succeeded \in BOOLEAN,
         CompletePhase(p, o, succeeded)
  PROVE  LedgerStep
<1>1. NoneOpened
  BY CompleteKeeps DEF BooksKept
<1> QED
  BY <1>1 DEF LedgerStep, Next, AnyCompletePhase

(* The steps of a job and of the holder of the lock.                       *)
LEMMA StepOfJob ==
  ASSUME RuntimeInv, NEW p \in Phases,
         \/ Admit(p)
         \/ \E b \in Buckets, amount \in Reservations : OpenRead(p, b, amount)
         \/ StartProvider(p) \/ CancelPaidPhase(p) \/ CancelFails(p) \/ SettleRead(p)
  PROVE  LedgerStep
<1>0. IInv
  BY DEF RuntimeInv
<1>1. CASE \E b \in Buckets, amount \in Reservations : OpenRead(p, b, amount)
  BY <1>0, <1>1, ExpireIsStep DEF OpenRead, ReapDue
<1>2. CASE Admit(p) \/ StartProvider(p) \/ CancelFails(p) \/ SettleRead(p)
  BY <1>2, QuietIsStep DEF Admit, StartProvider, CancelFails, SettleRead
<1>3. CASE CancelPaidPhase(p)
  <2>1. process \in Owners
    BY <1>3 DEF CancelPaidPhase, RuntimeInv, Alive
  <2>2. CompletePhase(p, process, FALSE) \/ UNCHANGED <<ledger, today>>
    BY <1>3 DEF CancelPaidPhase
  <2> QED
    BY <1>0, <2>1, <2>2, CompleteIsStep, QuietIsStep
<1> QED
  BY <1>1, <1>2, <1>3

(* The writing half of a settling.                                         *)
LEMMA StepOfSettling ==
  ASSUME RuntimeInv, SettleWrite
  PROVE  BooksStep
<1>0. IInv /\ process \in Owners /\ lock.phase \in Phases
  BY LockNamesPhase DEF RuntimeInv, RuntimeTypes, Alive, SettleWrite
<1>1. \/ UNCHANGED <<ledger, today>>
      \/ CloseOut(lock.phase)
      \/ \E succeeded \in BOOLEAN : CompletePhase(lock.phase, process, succeeded)
      \/ \E extra \in Extras : CompleteWithExtra(lock.phase, extra)
  BY DEF SettleWrite
<1> QED
  BY <1>0, <1>1, QuietIsStep, CompleteIsStep DEF BooksStep

(* The steps of the thread of a call.                                      *)
LEMMA StepOfCall ==
  ASSUME RuntimeInv, NEW a \in Attempts,
         \/ CallBegin(a) \/ CallHeartbeat(a)
         \/ CallArm(a) \/ CallRefused(a) \/ CallCancelled(a)
         \/ CallSend(a) \/ CallObserve(a) \/ CallObserveFails(a)
  PROVE  LedgerStep
<1>0. IInv /\ PhaseOf[a] \in Phases
  BY LedgerAssumption DEF RuntimeInv
<1>1. process \in Owners
  BY DEF CallBegin, CallHeartbeat, CallArm, CallRefused, CallCancelled, CallSend, CallObserve,
         CallObserveFails, Move, RuntimeInv, Alive
<1>2. CASE CallBegin(a)
  BY <1>0, <1>1, <1>2, BeginKeeps
     DEF CallBegin, BooksKept, LedgerStep, Next, AnyBeginAttempt
<1>3. CASE CallHeartbeat(a)
  <2> DEFINE p == PhaseOf[a]
  <2>1. /\ OwnedAndLive(p, process) /\ phase' = [phase EXCEPT ![p].lease = MaxLease]
        /\ attempt' = attempt /\ today' = today
    BY <1>3 DEF CallHeartbeat
  <2>2. NoneOpened
    BY <1>0, <1>1, <2>1, HeartbeatKeeps DEF BooksKept
  <2>3. phase[p] \in PhaseRow /\ phase[p].lease \in 0..MaxLease /\ MaxLease \in Nat
    BY <1>0, LedgerAssumption DEF IInv, TypeOK, PhaseRow
  <2>4. CASE phase[p].lease = MaxLease
    <3>1. phase' = phase
      BY <1>0, <2>1, <2>3, <2>4 DEF IInv, TypeOK, PhaseRow
    <3> QED
      BY <2>1, <3>1, QuietIsStep DEF ledger
  <2>5. CASE phase[p].lease # MaxLease
    <3>1. MaxLease > phase[p].lease
      BY <2>3, <2>5
    <3>2. HeartbeatPhase(p, process, MaxLease)
      BY <2>1, <3>1 DEF HeartbeatPhase
    <3>3. AnyHeartbeatPhase
      BY <1>0, <1>1, <3>2 DEF AnyHeartbeatPhase
    <3> QED
      BY <2>2, <3>3 DEF LedgerStep, Next
  <2> QED
    BY <2>4, <2>5
<1>4. CASE CallArm(a)
  BY <1>0, <1>1, <1>4, ArmKeeps DEF CallArm, BooksKept, LedgerStep, Next, AnyMarkDispatchIntent
<1>5. CASE CallRefused(a) \/ CallCancelled(a)
  <2>1. \/ \E close \in {"none", "FAILED"} : RecordPreDispatchFailure(a, process, close)
        \/ UNCHANGED <<ledger, today>>
    BY <1>5 DEF CallRefused, CallCancelled
  <2>2. ASSUME NEW close \in {"none", "FAILED"}, RecordPreDispatchFailure(a, process, close)
        PROVE  LedgerStep
    BY <1>0, <1>1, <2>2, PreDispatchFailureKeeps
       DEF BooksKept, LedgerStep, Next, AnyPreDispatchFailure
  <2> QED
    BY <2>1, <2>2, QuietIsStep
<1>6. CASE CallObserve(a)
  <2>1. PICK outcome \in Observations, transport \in Transports \ {"LOCAL_FAILURE"} :
          RecordAttemptOutcome(a, process, transport, outcome)
    BY <1>6 DEF CallObserve
  <2>2. NoneOpened
    BY <1>0, <1>1, <2>1, ObserveKeeps DEF BooksKept
  <2>3. outcome \in Outcomes
    BY DEF Observations, Outcomes, CloseRequests
  <2> QED
    BY <1>1, <2>1, <2>2, <2>3 DEF LedgerStep, Next, AnyAttemptOutcome
<1>7. CASE CallSend(a) \/ CallObserveFails(a)
  BY <1>7, QuietIsStep DEF CallSend, CallObserveFails
<1> QED
  BY <1>2, <1>3, <1>4, <1>5, <1>6, <1>7

(* Every step of the runtime is one of them.                               *)
LEMMA StepOfBooks ==
  ASSUME RuntimeInv, [RuntimeNext]_runtimeVars
  PROVE  BooksStep
<1>1. CASE \/ Start \/ Crash \/ RecheckBudgetStore \/ ResolveBudgetLiability
           \/ ReapExpiredPaidPhases \/ ReapFails \/ RuntimeTick
  BY <1>1, StepOutside DEF BooksStep
<1>2. CASE LockHolderStep
  <2>1. CASE OpenWrite
    BY <2>1 DEF BooksStep
  <2>2. CASE OpenRefused \/ OpenFails \/ SettleFails \/ Seed \/ SeedFails
    BY <2>2, StepOutside DEF BooksStep
  <2> QED
    BY <1>2, <2>1, <2>2, StepOfSettling DEF LockHolderStep
<1>3. ASSUME NEW p \in Phases,
             \/ Admit(p)
             \/ \E b \in Buckets, amount \in Reservations : OpenRead(p, b, amount)
             \/ StartProvider(p)
             \/ CancelPaidPhase(p) \/ CancelFails(p)
             \/ SettleRead(p)
      PROVE  BooksStep
  BY <1>3, StepOfJob DEF BooksStep
<1>4. ASSUME NEW a \in Attempts, CallBeginIntoOpenCircuit(a)
      PROVE  BooksStep
  BY <1>4 DEF BooksStep
<1>5. ASSUME NEW a \in Attempts,
             \/ CallBegin(a) \/ CallHeartbeat(a)
             \/ CallArm(a) \/ CallRefused(a) \/ CallCancelled(a)
             \/ CallSend(a)
             \/ CallObserve(a) \/ CallObserveFails(a)
      PROVE  BooksStep
  BY <1>5, StepOfCall DEF BooksStep
<1>6. CASE UNCHANGED runtimeVars
  BY <1>6, QuietIsStep DEF runtimeVars, BooksStep
<1> QED
  BY <1>1, <1>2, <1>3, <1>4, <1>5, <1>6 DEF RuntimeNext

-----------------------------------------------------------------------------
(* The rows those three transactions write.                                *)

(* A settling of what was found: what may have reached the provider is     *)
(* owed in full, what was only planned is free.                            *)
LEMMA CloseOutRows ==
  ASSUME IInv, NEW p \in Phases, CloseOut(p)
  PROVE  /\ phase[p].state = "ACTIVE" /\ phase[p].lease > 0
         /\ lock.planned \cup lock.intended \subseteq AttemptsOf(p)
         /\ \A a \in Attempts \ (lock.planned \cup lock.intended) : attempt'[a] = attempt[a]
         /\ \A a \in lock.planned \cup lock.intended :
              /\ Unsettled(a) /\ attempt'[a].estimate = attempt[a].estimate
              /\ attempt'[a].legacy = attempt[a].legacy
              /\ attempt'[a].reservation = 0 /\ attempt'[a].known = 0
         /\ \A a \in lock.intended :
              /\ attempt[a].transport = "DISPATCH_INTENT_RECORDED"
              /\ attempt'[a].transport = "TRANSPORT_AMBIGUOUS"
              /\ attempt'[a].billing = "CONSERVATIVE_LIABILITY"
              /\ attempt'[a].liability = attempt[a].estimate
         /\ \A a \in lock.planned :
              /\ attempt[a].transport = "PLANNED"
              /\ attempt'[a].transport = "LOCAL_FAILURE"
              /\ attempt'[a].billing = "KNOWN_ZERO" /\ attempt'[a].liability = 0
         /\ phase' = [phase EXCEPT ![p] = PhaseAfter(attempt', p, Owing(lock.intended))]
<1> DEFINE S == lock.planned \cup lock.intended
<1>1. /\ phase[p].state = "ACTIVE" /\ phase[p].lease > 0
      /\ lock.planned \subseteq InTransport(p, "PLANNED")
      /\ lock.intended \subseteq InTransport(p, "DISPATCH_INTENT_RECORDED")
      /\ attempt' = [a \in Attempts |-> IF a \in S THEN ClosedOut(a) ELSE attempt[a]]
      /\ phase' = [phase EXCEPT ![p] = PhaseAfter(attempt', p, Owing(lock.intended))]
  BY DEF CloseOut, OwnedAndLive
<1>2. /\ S \subseteq AttemptsOf(p) /\ \A a \in S : a \in Attempts /\ Unsettled(a)
      /\ \A a \in lock.planned : attempt[a].transport = "PLANNED"
      /\ \A a \in lock.intended : attempt[a].transport = "DISPATCH_INTENT_RECORDED"
  BY <1>1 DEF InTransport, ActiveAttempts, PendingIn, AttemptsOf, Unsettled
<1>3. \A a \in S : attempt'[a] = ClosedOut(a) /\ attempt[a] \in AttemptRow
  BY <1>1, <1>2 DEF IInv, TypeOK
<1>4. \A a \in Attempts \ S : attempt'[a] = attempt[a]
  BY <1>1
<1>5. ASSUME NEW a \in lock.planned
      PROVE  /\ attempt'[a].estimate = attempt[a].estimate
             /\ attempt'[a].legacy = attempt[a].legacy
             /\ attempt'[a].reservation = 0 /\ attempt'[a].known = 0
             /\ attempt'[a].transport = "LOCAL_FAILURE"
             /\ attempt'[a].billing = "KNOWN_ZERO" /\ attempt'[a].liability = 0
  <2>1. a \in S
    OBVIOUS
  <2>2. /\ attempt'[a] = Settled(a, "LOCAL_FAILURE", "KNOWN_ZERO", 0, 0, "FAILED")
        /\ attempt[a] \in AttemptRow
    BY <1>3, <2>1 DEF ClosedOut
  <2> QED
    BY <2>2 DEF Settled, AttemptRow
<1>6. \A a \in lock.intended : a \notin lock.planned
  BY <1>2
<1>7. ASSUME NEW a \in lock.intended
      PROVE  /\ attempt'[a].estimate = attempt[a].estimate
             /\ attempt'[a].legacy = attempt[a].legacy
             /\ attempt'[a].reservation = 0 /\ attempt'[a].known = 0
             /\ attempt'[a].transport = "TRANSPORT_AMBIGUOUS"
             /\ attempt'[a].billing = "CONSERVATIVE_LIABILITY"
             /\ attempt'[a].liability = attempt[a].estimate
  <2>1. a \in S /\ a \notin lock.planned
    BY <1>6
  <2>2. /\ attempt'[a] = Settled(a, "TRANSPORT_AMBIGUOUS", "CONSERVATIVE_LIABILITY", 0,
                                 attempt[a].estimate, "FAILED")
        /\ attempt[a] \in AttemptRow
    BY <1>3, <2>1 DEF ClosedOut
  <2> QED
    BY <2>2 DEF Settled, AttemptRow
<1> QED
  BY <1>1, <1>2, <1>4, <1>5, <1>7

(* A call begun into an open circuit is free.                              *)
LEMMA CircuitRow ==
  ASSUME IInv, NEW a \in Attempts, CallBeginIntoOpenCircuit(a)
  PROVE  /\ PhaseOf[a] \in Phases
         /\ phase[PhaseOf[a]].state = "ACTIVE" /\ phase[PhaseOf[a]].lease > 0
         /\ attempt[a].transport = "ABSENT" /\ attempt[a].billing = "ABSENT"
         /\ phase' = [phase EXCEPT ![PhaseOf[a]] = PhaseAfter(attempt', PhaseOf[a], 0)]
         /\ \E row \in AttemptRow :
              /\ attempt' = [attempt EXCEPT ![a] = row]
              /\ row.transport = "LOCAL_FAILURE" /\ row.billing = "KNOWN_ZERO"
              /\ row.reservation = 0 /\ row.known = 0 /\ row.liability = 0
<1> USE LedgerAssumption
<1>1. PICK amount \in Estimates :
        /\ CanBeginAttempt(a, process, amount)
        /\ LET row == [PlannedAttempt(amount)
                         EXCEPT !.transport = "LOCAL_FAILURE",
                                !.billing = "KNOWN_ZERO", !.reservation = 0,
                                !.close = "FAILED"]
               after == [attempt EXCEPT ![a] = row]
           IN  /\ attempt' = after
               /\ phase' = [phase EXCEPT ![PhaseOf[a]] = PhaseAfter(after, PhaseOf[a], 0)]
  BY DEF CallBeginIntoOpenCircuit
<1> DEFINE row == [PlannedAttempt(amount)
                     EXCEPT !.transport = "LOCAL_FAILURE", !.billing = "KNOWN_ZERO",
                            !.reservation = 0, !.close = "FAILED"]
<1>2. /\ attempt' = [attempt EXCEPT ![a] = row]
      /\ phase' = [phase EXCEPT ![PhaseOf[a]] = PhaseAfter(attempt', PhaseOf[a], 0)]
  BY <1>1
<1>3. /\ row \in AttemptRow
      /\ row.transport = "LOCAL_FAILURE" /\ row.billing = "KNOWN_ZERO"
      /\ row.reservation = 0 /\ row.known = 0 /\ row.liability = 0
  BY DEF PlannedAttempt, NoAttempt, AttemptRow, TransportStates, BillingStates, CloseRequests
<1>4. /\ attempt[a].transport = "ABSENT"
      /\ phase[PhaseOf[a]].state = "ACTIVE" /\ phase[PhaseOf[a]].lease > 0
  BY <1>1 DEF CanBeginAttempt, OwnedAndLive
<1>5. attempt[a].billing = "ABSENT"
  BY <1>4 DEF IInv, AttemptShape
<1> HIDE DEF row
<1> QED
  BY <1>2, <1>3, <1>4, <1>5

(* Usage reported beyond the calls is a call of that cost, whose estimate  *)
(* is what of it the phase could still pay.                                *)
LEMMA ExtraRow ==
  ASSUME IInv, NEW p \in Phases, NEW extra \in Extras, CompleteWithExtra(p, extra)
  PROVE  /\ extra \in Nat /\ phase[p].state = "ACTIVE" /\ phase[p].lease > 0
         /\ ActiveAttempts(p) = {}
         /\ \E a \in AttemptsOf(p), row \in AttemptRow, state \in {"SUCCEEDED", "FAILED"} :
              /\ attempt[a].transport = "ABSENT" /\ attempt[a].billing = "ABSENT"
              /\ attempt' = [attempt EXCEPT ![a] = row]
              /\ row.transport = "RESPONSE_RECEIVED" /\ row.billing = "KNOWN_COST"
              /\ row.reservation = 0 /\ row.known = extra /\ row.liability = 0
              /\ row.estimate = Lesser(extra, phase[p].reservation)
              /\ phase' = [phase EXCEPT ![p] = ClosedPhase(p, state)]
<1>1. PICK a \in AttemptsOf(p), succeeded \in BOOLEAN :
        /\ attempt[a].transport = "ABSENT"
        /\ attempt' = [attempt EXCEPT ![a] = ExtraCall(p, extra)]
        /\ phase' = [phase EXCEPT ![p] =
                       ClosedPhase(p, IF succeeded THEN "SUCCEEDED" ELSE "FAILED")]
        /\ phase[p].state = "ACTIVE" /\ phase[p].lease > 0 /\ ActiveAttempts(p) = {}
  BY DEF CompleteWithExtra, RecordExtraAndComplete, OwnedAndLive
<1>2. phase[p] \in PhaseRow /\ extra \in Nat
  BY RuntimeAssumption DEF IInv, TypeOK
<1> DEFINE row == ExtraCall(p, extra)
           state == IF succeeded THEN "SUCCEEDED" ELSE "FAILED"
<1>3. /\ row \in AttemptRow
      /\ row.transport = "RESPONSE_RECEIVED" /\ row.billing = "KNOWN_COST"
      /\ row.reservation = 0 /\ row.known = extra /\ row.liability = 0
      /\ row.estimate = Lesser(extra, phase[p].reservation)
  BY <1>2 DEF ExtraCall, PlannedAttempt, NoAttempt, AttemptRow, TransportStates, BillingStates,
              CloseRequests, PhaseRow, Lesser
<1>4. attempt[a].billing = "ABSENT"
  BY <1>1 DEF IInv, AttemptShape, AttemptsOf
<1>5. /\ state \in {"SUCCEEDED", "FAILED"} /\ phase' = [phase EXCEPT ![p] = ClosedPhase(p, state)]
      /\ attempt' = [attempt EXCEPT ![a] = row]
  BY <1>1
<1> HIDE DEF row, state
<1> QED
  BY <1>1, <1>2, <1>3, <1>4, <1>5

(* Neither of the two books the row of a legacy call.                      *)
LEMMA BookedRowIsNew ==
  ASSUME IInv, NEW a \in Attempts,
         CallBeginIntoOpenCircuit(a)
           \/ (\E p \in Phases, extra \in Extras : CompleteWithExtra(p, extra)),
         attempt'[a] # attempt[a]
  PROVE  attempt'[a].legacy = FALSE
<1>1. CASE CallBeginIntoOpenCircuit(a)
  <2>1. PICK amount \in Estimates :
          LET row == [PlannedAttempt(amount)
                         EXCEPT !.transport = "LOCAL_FAILURE",
                                !.billing = "KNOWN_ZERO", !.reservation = 0,
                                !.close = "FAILED"]
          IN  attempt' = [attempt EXCEPT ![a] = row]
    BY <1>1, Zenon DEF CallBeginIntoOpenCircuit
  <2> QED
    BY <2>1 DEF PlannedAttempt, NoAttempt, IInv, TypeOK
<1>2. ASSUME NEW p \in Phases, NEW extra \in Extras, CompleteWithExtra(p, extra)
      PROVE  attempt'[a].legacy = FALSE
  <2>1. PICK c \in AttemptsOf(p) : attempt' = [attempt EXCEPT ![c] = ExtraCall(p, extra)]
    BY <1>2, Zenon DEF CompleteWithExtra, RecordExtraAndComplete
  <2>2. attempt'[a] = ExtraCall(p, extra)
    BY <2>1 DEF IInv, TypeOK
  <2> QED
    BY <2>2 DEF ExtraCall, PlannedAttempt, NoAttempt
<1> QED
  BY <1>1, <1>2

-----------------------------------------------------------------------------
(* In the running system, too, settled money moves only by a resolution.   *)
LEMMA RuntimeSettledStep ==
  ASSUME IInv, BooksStep, NEW c \in Attempts,
         attempt[c].transport # "ABSENT", attempt'[c] # attempt[c]
  PROVE  Unsettled(c) \/ Reconcilable(c)
<1>1. CASE LedgerStep
  <2>1. AttemptsStep
    BY <1>1, StepOfAttempts DEF LedgerStep
  <2> QED
    BY <2>1, SettledMoneyStep
<1>2. CASE OpenWrite
  BY <1>2 DEF OpenWrite, BeginPhase
<1>3. ASSUME NEW p \in Phases, CloseOut(p)
      PROVE  Unsettled(c)
  BY <1>3, CloseOutRows
<1>4. ASSUME NEW a \in Attempts, CallBeginIntoOpenCircuit(a)
      PROVE  FALSE
  BY <1>4, CircuitRow DEF IInv, TypeOK
<1>5. ASSUME NEW p \in Phases, NEW extra \in Extras, CompleteWithExtra(p, extra)
      PROVE  FALSE
  <2>1. PICK a \in AttemptsOf(p), row \in AttemptRow :
          /\ attempt[a].transport = "ABSENT"
          /\ attempt' = [attempt EXCEPT ![a] = row]
    BY <1>5, ExtraRow
  <2> QED
    BY <2>1 DEF IInv, TypeOK, AttemptsOf
<1> QED
  BY <1>1, <1>2, <1>3, <1>4, <1>5 DEF BooksStep

(* Whatever threads race, die or answer late, the outcome recorded for a   *)
(* call is never rewritten but by an operator resolving an open liability. *)
THEOREM RuntimeSettledMoneyIsFinal == RuntimeSpec => SettledMoneyIsFinal
<1>1. RuntimeInv /\ [RuntimeNext]_runtimeVars =>
        [\A a \in Attempts :
           /\ attempt[a].transport # "ABSENT"
           /\ attempt'[a] # attempt[a]
           => Unsettled(a) \/ Reconcilable(a)]_vars
  BY StepOfBooks, RuntimeSettledStep DEF RuntimeInv
<1> QED
  BY <1>1, RuntimeInvariant, PTL DEF RuntimeSpec, SettledMoneyIsFinal

(* A phase whose lease has run out is touched by the reaping alone: a      *)
(* settling and a call of a job that still runs demand a live lease.       *)
LEMMA RuntimeLapsedStep ==
  ASSUME IInv, BooksStep, NEW p \in Phases,
         phase[p].state = "ACTIVE", phase[p].lease = 0
  PROVE  Untouched(p) \/ LapsedStep(p)
<1> USE DEF IInv, TypeOK, Untouched, AttemptsOf
<1>1. CASE LedgerStep
  BY <1>1, LapsedPhaseStep DEF LedgerStep
<1>2. CASE OpenWrite
  BY <1>2 DEF OpenWrite, BeginPhase
<1>3. ASSUME NEW q \in Phases, CloseOut(q)
      PROVE  Untouched(p)
  <2>1. /\ q # p /\ phase'[p] = phase[p]
        /\ \A a \in Attempts \ AttemptsOf(q) : attempt'[a] = attempt[a]
    <3>1. phase[q].lease > 0 /\ phase' = [phase EXCEPT ![q] = phase'[q]]
      BY <1>3, CloseOutRows
    <3>2. \A a \in Attempts \ AttemptsOf(q) : attempt'[a] = attempt[a]
      BY <1>3, CloseOutRows
    <3> QED
      BY <3>1, <3>2
  <2> QED
    BY <2>1
<1>4. ASSUME NEW a \in Attempts, CallBeginIntoOpenCircuit(a)
      PROVE  Untouched(p)
  <2>1. PICK row \in AttemptRow : attempt' = [attempt EXCEPT ![a] = row]
    BY <1>4, CircuitRow
  <2>2. /\ PhaseOf[a] # p
        /\ phase' = [phase EXCEPT ![PhaseOf[a]] = PhaseAfter(attempt', PhaseOf[a], 0)]
    BY <1>4, CircuitRow
  <2> QED
    BY <2>1, <2>2
<1>5. ASSUME NEW q \in Phases, NEW extra \in Extras, CompleteWithExtra(q, extra)
      PROVE  Untouched(p)
  <2>1. q # p
    BY <1>5, ExtraRow
  <2>2. PICK a \in AttemptsOf(q), row \in AttemptRow, state \in {"SUCCEEDED", "FAILED"} :
          /\ attempt' = [attempt EXCEPT ![a] = row]
          /\ phase' = [phase EXCEPT ![q] = ClosedPhase(q, state)]
    BY <1>5, ExtraRow
  <2> QED
    BY <2>1, <2>2
<1> QED
  BY <1>1, <1>2, <1>3, <1>4, <1>5 DEF BooksStep

(* Neither a job that settles at its deadline nor a call that outlived it  *)
(* writes into a phase whose lease has run out: it can only fail, with     *)
(* what was sent owed in full and what was not sent free.                  *)
THEOREM RuntimeLapsedPhaseOnlyFails == RuntimeSpec => LapsedPhaseOnlyFails
<1>1. RuntimeInv /\ [RuntimeNext]_runtimeVars =>
        [\A p \in Phases :
           /\ phase[p].state = "ACTIVE" /\ phase[p].lease = 0
           /\ \/ phase'[p] # phase[p]
              \/ \E a \in AttemptsOf(p) : attempt'[a] # attempt[a]
           => /\ phase'[p].state = "FAILED"
              /\ \A a \in ActiveAttempts(p) :
                   IF attempt[a].transport = "PLANNED"
                   THEN attempt'[a].billing = "KNOWN_ZERO"
                   ELSE /\ attempt'[a].billing = "CONSERVATIVE_LIABILITY"
                        /\ attempt'[a].liability = attempt[a].estimate]_vars
  BY StepOfBooks, RuntimeLapsedStep DEF RuntimeInv, Untouched, LapsedStep
<1> QED
  BY <1>1, RuntimeInvariant, PTL DEF RuntimeSpec, LapsedPhaseOnlyFails
-----------------------------------------------------------------------------
(* The money of those three transactions: none makes a phase heavier.      *)

(* What a phase is after a settling in it.                                 *)
LEMMA PhaseAfterRow ==
  ASSUME IInv, NEW p \in Phases, NEW consumed \in Nat, phase[p].state = "ACTIVE",
         phase' = [phase EXCEPT ![p] = PhaseAfter(attempt', p, consumed)]
  PROVE  /\ \A q \in Phases \ {p} : phase'[q] = phase[q]
         /\ phase'[p].bucket = phase[p].bucket /\ phase'[p].day = phase[p].day
         /\ phase'[p].state # "ABSENT"
         /\ \/ phase'[p].state # "ACTIVE" /\ phase'[p].reservation = 0
            \/ phase'[p].reservation = AtLeastZero(phase[p].reservation - consumed)
<1>1. phase[p] \in PhaseRow /\ phase \in [Phases -> PhaseRow]
  BY DEF IInv, TypeOK
<1>2. CASE CloseRequest(attempt', p) # "none" /\ PendingIn(attempt', p) = {}
  <2> DEFINE state == CloseRequest(attempt', p)
  <2>1. /\ state \in {"SUCCEEDED", "FAILED"}
        /\ phase' = [phase EXCEPT ![p] = ClosedPhase(p, state)]
    BY <1>2, CloseRequestType DEF CloseRequests, PhaseAfter
  <2> HIDE DEF state
  <2>2. /\ ClosedPhase(p, state).state = state
        /\ ClosedPhase(p, state).reservation = 0
        /\ ClosedPhase(p, state).bucket = phase[p].bucket
        /\ ClosedPhase(p, state).day = phase[p].day
    BY <1>1 DEF ClosedPhase, PhaseRow
  <2> QED
    BY <1>1, <2>1, <2>2
<1>3. CASE ~(CloseRequest(attempt', p) # "none" /\ PendingIn(attempt', p) = {})
  <2>1. phase' = [phase EXCEPT ![p].reservation
                    = AtLeastZero(phase[p].reservation - consumed)]
    BY <1>1, <1>3 DEF PhaseAfter
  <2> QED
    BY <1>1, <2>1 DEF PhaseRow
<1> QED
  BY <1>2, <1>3

(* What its calls count more, the phase has less, and they hold that much  *)
(* less of it.                                                             *)
LEMMA ShiftedEases ==
  ASSUME TypeOK, TypeOK', NEW p \in Phases, PhaseCovers(p), phase[p].state = "ACTIVE",
         NEW consumed \in Nat,
         \/ phase'[p].state # "ACTIVE" /\ phase'[p].reservation = 0
         \/ phase'[p].reservation = AtLeastZero(phase[p].reservation - consumed),
         CountedBy(p)' = CountedBy(p) + consumed, OverrunBy(p)' = OverrunBy(p),
         ReservedIn(p)' + consumed <= ReservedIn(p)
  PROVE  Eases(p)
<1>1. MoneyTyped /\ MoneyTyped'
  BY SumTypes, SumTypesNext
<1>2. ReservedIn(p) <= phase[p].reservation + OverrunBy(p)
  BY DEF PhaseCovers
<1>3. Weights'[p] <= Weights[p]
  BY <1>1 DEF MoneyTyped, AtLeastZero
<1>4. PhaseCovers(p)'
  BY <1>1, <1>2 DEF MoneyTyped, AtLeastZero, PhaseCovers
<1> QED
  BY <1>3, <1>4 DEF Eases

(* One phase and some of its calls change: all others are as they were.    *)
LEMMA OtherPhasesEase ==
  ASSUME TypeOK, TypeOK', NEW p \in Phases, \A q \in Phases : PhaseCovers(q),
         \A q \in Phases \ {p} : phase'[q] = phase[q],
         \A a \in Attempts \ AttemptsOf(p) : attempt'[a] = attempt[a],
         Eases(p)
  PROVE  \A q \in Phases : Eases(q)
<1> SUFFICES ASSUME NEW q \in Phases \ {p} PROVE Eases(q)
  OBVIOUS
<1>1. \A a \in AttemptsOf(q) : attempt'[a] = attempt[a]
  BY DEF AttemptsOf
<1> QED
  BY <1>1, SamePhaseEases

(* A call begun into an open circuit costs nothing.                        *)
LEMMA CircuitMoney ==
  ASSUME IInv, IInv', MoneyInv, NEW a \in Attempts, CallBeginIntoOpenCircuit(a)
  PROVE  AllEase
<1> DEFINE p == PhaseOf[a]
<1>1. TypeOK /\ TypeOK'
  BY DEF IInv
<1>2. /\ p \in Phases /\ phase[p].state = "ACTIVE"
      /\ attempt[a].transport = "ABSENT" /\ attempt[a].billing = "ABSENT"
      /\ phase' = [phase EXCEPT ![p] = PhaseAfter(attempt', p, 0)]
  BY CircuitRow
<1>3. PICK row \in AttemptRow :
        /\ attempt' = [attempt EXCEPT ![a] = row]
        /\ row.transport = "LOCAL_FAILURE" /\ row.billing = "KNOWN_ZERO"
        /\ row.reservation = 0 /\ row.known = 0 /\ row.liability = 0
  BY CircuitRow
<1> HIDE DEF p
<1>4. /\ \A q \in Phases \ {p} : phase'[q] = phase[q]
      /\ phase'[p].bucket = phase[p].bucket /\ phase'[p].day = phase[p].day
      /\ phase'[p].state # "ABSENT"
      /\ \/ phase'[p].state # "ACTIVE" /\ phase'[p].reservation = 0
         \/ phase'[p].reservation = AtLeastZero(phase[p].reservation - 0)
  BY <1>2, PhaseAfterRow
<1>5. attempt'[a] = row /\ \A c \in Attempts \ {a} : attempt'[c] = attempt[c]
  BY <1>1, <1>3 DEF TypeOK
<1>6. MoneyShape'
  <2>1. \A q \in Phases : phase'[q].state = "ABSENT" => phase'[q].bucket = None
    BY <1>4 DEF MoneyInv, MoneyShape
  <2>2. row.legacy = FALSE
    BY <1>2, <1>3, <1>5, BookedRowIsNew
  <2> QED
    BY <1>3, <1>5, <2>1, <2>2 DEF MoneyInv, MoneyShape
<1>7. RowsKept
  <2>1. attempt[a].legacy = FALSE
    BY <1>1, <1>2 DEF MoneyInv, MoneyShape, TypeOK, AttemptRow
  <2>2. row.legacy = FALSE
    BY <1>2, <1>3, <1>5, BookedRowIsNew
  <2> QED
    BY <1>2, <1>3, <1>4, <1>5, <2>1, <2>2 DEF RowsKept
<1>8. Eases(p)
  <2>1. /\ CountedBy(p)' = CountedBy(p) - Counts[a] + Counts'[a]
        /\ OverrunBy(p)' = OverrunBy(p) - Overruns[a] + Overruns'[a]
        /\ ReservedIn(p)' = ReservedIn(p) - Reserves[a] + Reserves'[a]
    BY <1>1, <1>3, SumsChange DEF p
  <2>2. /\ attempt[a].known = 0 /\ attempt[a].liability = 0 /\ attempt[a].estimate = 0
        /\ attempt[a].reservation = 0
    BY <1>2 DEF MoneyInv, MoneyShape, IInv, AttemptShape, Unsettled, IsUnsettled
  <2>3. Counts[a] = 0 /\ Overruns[a] = 0 /\ Reserves[a] = 0
    BY <2>2 DEF Counts, Overruns, Reserves, Lesser, AtLeastZero
  <2>4. Counts'[a] = 0 /\ Overruns'[a] = 0 /\ Reserves'[a] = 0
    BY <1>3, <1>5 DEF AttemptRow, Counts, Overruns, Reserves, Lesser, AtLeastZero
  <2>5. MoneyTyped /\ PhaseCovers(p)
    BY <1>1, <1>2, SumTypes DEF MoneyInv
  <2>6. /\ CountedBy(p)' = CountedBy(p) + 0 /\ OverrunBy(p)' = OverrunBy(p)
        /\ ReservedIn(p)' + 0 <= ReservedIn(p)
    BY <1>2, <2>1, <2>3, <2>4, <2>5 DEF MoneyTyped
  <2> QED
    BY <1>1, <1>2, <1>4, <2>5, <2>6, ShiftedEases
<1>9. \A q \in Phases : Eases(q)
  <2>1. \A c \in Attempts \ AttemptsOf(p) : attempt'[c] = attempt[c]
    BY <1>5 DEF AttemptsOf, p
  <2> QED
    BY <1>1, <1>2, <1>4, <1>8, <2>1, OtherPhasesEase DEF MoneyInv
<1> QED
  BY <1>6, <1>7, <1>9 DEF AllEase

(* Usage reported beyond the calls counts for no more than the phase held, *)
(* and the phase closes.                                                   *)
LEMMA ExtraMoney ==
  ASSUME IInv, IInv', MoneyInv, NEW p \in Phases, NEW extra \in Extras,
         CompleteWithExtra(p, extra)
  PROVE  AllEase
<1>1. TypeOK /\ TypeOK' /\ extra \in Nat /\ phase[p] \in PhaseRow
  BY RuntimeAssumption DEF IInv, TypeOK
<1>2. phase[p].state = "ACTIVE" /\ ActiveAttempts(p) = {}
  BY ExtraRow
<1>3. PICK a \in AttemptsOf(p), row \in AttemptRow, state \in {"SUCCEEDED", "FAILED"} :
        /\ attempt[a].transport = "ABSENT" /\ attempt[a].billing = "ABSENT"
        /\ attempt' = [attempt EXCEPT ![a] = row]
        /\ row.transport = "RESPONSE_RECEIVED" /\ row.billing = "KNOWN_COST"
        /\ row.reservation = 0 /\ row.known = extra /\ row.liability = 0
        /\ row.estimate = Lesser(extra, phase[p].reservation)
        /\ phase' = [phase EXCEPT ![p] = ClosedPhase(p, state)]
  BY ExtraRow
<1>4. a \in Attempts /\ PhaseOf[a] = p
  BY DEF AttemptsOf
<1>5. /\ \A q \in Phases \ {p} : phase'[q] = phase[q]
      /\ phase'[p].bucket = phase[p].bucket /\ phase'[p].day = phase[p].day
      /\ phase'[p].state \notin {"ABSENT", "ACTIVE"} /\ phase'[p].reservation = 0
  <2>1. /\ ClosedPhase(p, state).state = state
        /\ ClosedPhase(p, state).reservation = 0
        /\ ClosedPhase(p, state).bucket = phase[p].bucket
        /\ ClosedPhase(p, state).day = phase[p].day
    BY <1>1 DEF ClosedPhase, PhaseRow
  <2> QED
    BY <1>1, <1>3, <2>1 DEF TypeOK
<1>6. attempt'[a] = row /\ \A c \in Attempts \ {a} : attempt'[c] = attempt[c]
  BY <1>1, <1>3, <1>4 DEF TypeOK
<1>7. MoneyShape'
  <2>1. \A q \in Phases : phase'[q].state = "ABSENT" => phase'[q].bucket = None
    BY <1>5 DEF MoneyInv, MoneyShape
  <2>2. row.legacy = FALSE
    BY <1>3, <1>4, <1>6, BookedRowIsNew
  <2> QED
    BY <1>3, <1>6, <2>1, <2>2 DEF MoneyInv, MoneyShape
<1>8. RowsKept
  <2>1. attempt[a].legacy = FALSE
    BY <1>1, <1>3, <1>4 DEF MoneyInv, MoneyShape, TypeOK, AttemptRow
  <2>2. row.legacy = FALSE
    BY <1>3, <1>4, <1>6, BookedRowIsNew
  <2> QED
    BY <1>2, <1>3, <1>5, <1>6, <2>1, <2>2 DEF RowsKept
<1>9. Eases(p)
  <2>1. /\ CountedBy(p)' = CountedBy(p) - Counts[a] + Counts'[a]
        /\ ReservedIn(p)' = ReservedIn(p) - Reserves[a] + Reserves'[a]
    BY <1>1, <1>3, <1>4, SumsChange
  <2>2. /\ attempt[a].known = 0 /\ attempt[a].liability = 0 /\ attempt[a].estimate = 0
        /\ attempt[a].reservation = 0
    BY <1>3, <1>4 DEF MoneyInv, MoneyShape, IInv, AttemptShape, Unsettled, IsUnsettled
  <2>3. Counts[a] = 0 /\ Reserves[a] = 0
    BY <1>4, <2>2 DEF Counts, Reserves, Lesser
  <2>4. Counts'[a] = Lesser(extra, phase[p].reservation) /\ Reserves'[a] = 0
    <3>1. phase[p].reservation \in Nat
      BY <1>1 DEF PhaseRow
    <3>2. /\ attempt'[a].known + attempt'[a].liability = extra
          /\ attempt'[a].estimate = Lesser(extra, phase[p].reservation)
          /\ attempt'[a].reservation = 0
      BY <1>1, <1>3, <1>6
    <3>3. Counts'[a] = Lesser(extra, Lesser(extra, phase[p].reservation)) /\ Reserves'[a] = 0
      BY <1>4, <3>2 DEF Counts, Reserves
    <3> QED
      BY <1>1, <3>1, <3>3 DEF Lesser
  <2>5. MoneyTyped /\ MoneyTyped'
    BY <1>1, SumTypes, SumTypesNext
  <2>6. ReservedIn(p) = 0
    <3>1. ReservedBy({}) = 0
      BY SumOfNone DEF ReservedBy
    <3> QED
      BY <1>2, <3>1, OnlyPendingReserve
  <2>7. CountedBy(p)' = CountedBy(p) + Lesser(extra, phase[p].reservation)
        /\ ReservedIn(p)' = 0
    BY <1>1, <2>1, <2>3, <2>4, <2>5, <2>6 DEF MoneyTyped, Lesser
  <2>8. Weights'[p] <= Weights[p]
    BY <1>1, <1>5, <2>5, <2>6, <2>7 DEF MoneyTyped, Lesser
  <2> QED
    BY <1>5, <2>8 DEF Eases, PhaseCovers
<1>10. \A q \in Phases : Eases(q)
  <2>1. \A c \in Attempts \ AttemptsOf(p) : attempt'[c] = attempt[c]
    BY <1>6
  <2> QED
    BY <1>1, <1>5, <1>9, <2>1, OtherPhasesEase DEF MoneyInv
<1> QED
  BY <1>7, <1>8, <1>10 DEF AllEase

(* A settling of what was found owes what the calls sent were holding, and *)
(* frees the rest.                                                         *)
LEMMA CloseOutMoney ==
  ASSUME IInv, IInv', MoneyInv, NEW p \in Phases, CloseOut(p)
  PROVE  AllEase
<1> DEFINE S == lock.planned \cup lock.intended
           consumed == Owing(lock.intended)
<1>1. TypeOK /\ TypeOK'
  BY DEF IInv
<1>2. /\ phase[p].state = "ACTIVE"
      /\ S \subseteq AttemptsOf(p)
      /\ \A a \in Attempts \ S : attempt'[a] = attempt[a]
      /\ \A a \in S :
           /\ Unsettled(a) /\ attempt'[a].estimate = attempt[a].estimate
           /\ attempt'[a].legacy = attempt[a].legacy
           /\ attempt'[a].reservation = 0 /\ attempt'[a].known = 0
      /\ \A a \in lock.intended :
           /\ attempt[a].transport = "DISPATCH_INTENT_RECORDED"
           /\ attempt'[a].transport = "TRANSPORT_AMBIGUOUS"
           /\ attempt'[a].billing = "CONSERVATIVE_LIABILITY"
           /\ attempt'[a].liability = attempt[a].estimate
      /\ \A a \in lock.planned :
           /\ attempt[a].transport = "PLANNED"
           /\ attempt'[a].transport = "LOCAL_FAILURE"
           /\ attempt'[a].billing = "KNOWN_ZERO" /\ attempt'[a].liability = 0
      /\ phase' = [phase EXCEPT ![p] = PhaseAfter(attempt', p, consumed)]
  BY CloseOutRows
<1>3. AttemptsOf(p) \subseteq Attempts /\ IsFiniteSet(AttemptsOf(p))
  BY FiniteRows DEF AttemptsOf
<1>4. consumed \in Nat
  BY <1>1, <1>2, <1>3, OwingType
<1>5. /\ \A q \in Phases \ {p} : phase'[q] = phase[q]
      /\ phase'[p].bucket = phase[p].bucket /\ phase'[p].day = phase[p].day
      /\ phase'[p].state # "ABSENT"
      /\ \/ phase'[p].state # "ACTIVE" /\ phase'[p].reservation = 0
         \/ phase'[p].reservation = AtLeastZero(phase[p].reservation - consumed)
  <2> HIDE DEF consumed
  <2> QED
    BY <1>2, <1>4, PhaseAfterRow
<1>6. \A a \in S : /\ attempt[a].billing = "RESERVED"
                   /\ attempt[a].known = 0 /\ attempt[a].liability = 0
                   /\ attempt[a].reservation = attempt[a].estimate
                   /\ attempt[a].estimate \in Nat
  <2>1. \A a \in S : a \in Attempts /\ Unsettled(a)
    BY <1>2, <1>3
  <2> HIDE DEF S
  <2> QED
    BY <1>1, <2>1 DEF Unsettled, IsUnsettled, MoneyInv, MoneyShape, TypeOK, AttemptRow
<1>7. MoneyShape'
  <2>1. \A q \in Phases : phase'[q].state = "ABSENT" => phase'[q].bucket = None
    BY <1>5 DEF MoneyInv, MoneyShape
  <2>2. ASSUME NEW a \in Attempts
        PROVE  /\ attempt'[a].billing = "RESERVED" =>
                    /\ attempt'[a].known = 0 /\ attempt'[a].liability = 0
                    /\ attempt'[a].reservation = attempt'[a].estimate
               /\ attempt'[a].billing = "ABSENT" =>
                    /\ attempt'[a].known = 0 /\ attempt'[a].liability = 0
                    /\ attempt'[a].estimate = 0 /\ ~attempt'[a].legacy
               /\ attempt'[a].billing \in {"CONSERVATIVE_LIABILITY", "UNKNOWN_LEGACY"} =>
                    attempt'[a].liability = attempt'[a].estimate
    <3>1. CASE a \in S
      BY <1>2, <3>1
    <3>2. CASE a \notin S
      BY <1>2, <3>2 DEF MoneyInv, MoneyShape
    <3> QED
      BY <3>1, <3>2
  <2> QED
    BY <2>1, <2>2 DEF MoneyShape
<1>8. RowsKept
  <2>1. ASSUME NEW a \in Attempts
        PROVE  /\ attempt'[a].legacy = attempt[a].legacy
               /\ attempt[a].legacy => attempt'[a].estimate = attempt[a].estimate
    <3>1. CASE a \in S
      BY <1>2, <3>1
    <3>2. CASE a \notin S
      BY <1>2, <3>2
    <3> QED
      BY <3>1, <3>2
  <2> QED
    BY <1>2, <1>5, <2>1 DEF RowsKept
<1>9. Eases(p)
  <2> DEFINE T == AttemptsOf(p)
             owed == [a \in Attempts |-> IF a \in lock.intended THEN attempt[a].estimate ELSE 0]
             left == [a \in Attempts |-> Reserves'[a] + owed[a]]
             estimates == [a \in Attempts |-> attempt[a].estimate]
  <2>1. lock.intended \in SUBSET T
    BY <1>2
  <2>2. ASSUME NEW a \in T
        PROVE  /\ Counts[a] \in Nat /\ Counts'[a] = Counts[a] + owed[a]
               /\ Overruns[a] \in Nat /\ Overruns'[a] = Overruns[a]
               /\ Reserves[a] \in Nat /\ Reserves'[a] \in Nat
               /\ owed[a] \in Nat /\ left[a] = Reserves'[a] + owed[a]
               /\ left[a] <= Reserves[a]
    <3>1. /\ a \in Attempts /\ attempt[a] \in AttemptRow
          /\ Counts[a] \in Nat /\ Overruns[a] \in Nat /\ Reserves[a] \in Nat
      BY <1>1, <1>3, AmountTypes DEF TypeOK
    <3>2. CASE a \in lock.intended
      <4>1. owed[a] = attempt[a].estimate /\ left[a] = Reserves'[a] + attempt[a].estimate
        BY <3>1, <3>2
      <4>2. /\ attempt'[a].known = 0 /\ attempt'[a].liability = attempt[a].estimate
            /\ attempt'[a].estimate = attempt[a].estimate /\ attempt'[a].reservation = 0
        BY <1>2, <3>2
      <4>3. /\ attempt[a].known = 0 /\ attempt[a].liability = 0
            /\ attempt[a].reservation = attempt[a].estimate /\ attempt[a].estimate \in Nat
        BY <1>6, <3>2
      <4>4. Counts[a] = 0 /\ Overruns[a] = 0 /\ Reserves[a] = attempt[a].estimate
        BY <3>1, <4>3 DEF Counts, Overruns, Reserves, Lesser, AtLeastZero
      <4>5. Counts'[a] = attempt[a].estimate /\ Overruns'[a] = 0 /\ Reserves'[a] = 0
        BY <3>1, <4>2, <4>3 DEF Counts, Overruns, Reserves, Lesser, AtLeastZero
      <4> HIDE DEF owed, left, T
      <4> QED
        BY <3>1, <4>1, <4>3, <4>4, <4>5
    <3>3. CASE a \in lock.planned /\ a \notin lock.intended
      <4>1. owed[a] = 0 /\ left[a] = Reserves'[a] + 0
        BY <3>1, <3>3
      <4>2. /\ attempt'[a].known = 0 /\ attempt'[a].liability = 0
            /\ attempt'[a].estimate = attempt[a].estimate /\ attempt'[a].reservation = 0
        BY <1>2, <3>3
      <4>3. /\ attempt[a].known = 0 /\ attempt[a].liability = 0
            /\ attempt[a].reservation = attempt[a].estimate /\ attempt[a].estimate \in Nat
        BY <1>6, <3>3
      <4>4. Counts[a] = 0 /\ Overruns[a] = 0 /\ Reserves[a] = attempt[a].estimate
        BY <3>1, <4>3 DEF Counts, Overruns, Reserves, Lesser, AtLeastZero
      <4>5. Counts'[a] = 0 /\ Overruns'[a] = 0 /\ Reserves'[a] = 0
        BY <3>1, <4>2, <4>3 DEF Counts, Overruns, Reserves, Lesser, AtLeastZero
      <4> HIDE DEF owed, left, T
      <4> QED
        BY <3>1, <4>1, <4>3, <4>4, <4>5
    <3>4. CASE a \notin S
      <4>1. owed[a] = 0 /\ left[a] = Reserves'[a] + 0
        BY <3>1, <3>4
      <4>2. attempt'[a] = attempt[a]
        BY <1>2, <3>1, <3>4
      <4>3. Counts'[a] = Counts[a] /\ Overruns'[a] = Overruns[a] /\ Reserves'[a] = Reserves[a]
        BY <3>1, <4>2 DEF Counts, Overruns, Reserves
      <4> HIDE DEF owed, left, T
      <4> QED
        BY <3>1, <4>1, <4>3
    <3> QED
      BY <3>2, <3>3, <3>4
  <2>3. consumed = SumFunctionOnSet(owed, lock.intended)
    <3>1. consumed = SumFunctionOnSet(estimates, lock.intended)
      BY DEF Owing
    <3>2. IsFiniteSet(lock.intended)
      BY <1>3, <2>1, FS_Subset
    <3>3. \A a \in lock.intended : estimates[a] \in Int /\ owed[a] = estimates[a]
      BY <1>3, <1>6, <2>1
    <3> HIDE DEF owed, estimates, consumed
    <3>4. SumFunctionOnSet(owed, lock.intended) = SumFunctionOnSet(estimates, lock.intended)
      BY <3>2, <3>3, SumSame
    <3> QED
      BY <3>1, <3>4
  <2>4. \A a \in T \ lock.intended : owed[a] = 0
    BY <1>3
  <2>5. IsFiniteSet(T)
    BY <1>3
  <2>6. CountedBy(p)' = SumFunctionOnSet(Counts', T) /\ CountedBy(p) = SumFunctionOnSet(Counts, T)
        /\ OverrunBy(p)' = SumFunctionOnSet(Overruns', T)
        /\ OverrunBy(p) = SumFunctionOnSet(Overruns, T)
        /\ ReservedIn(p)' = SumFunctionOnSet(Reserves', T)
        /\ ReservedIn(p) = SumFunctionOnSet(Reserves, T)
    BY DEF CountedBy, OverrunBy, ReservedIn, AttemptsOf
  <2> HIDE DEF T, owed, left, consumed, estimates
  <2>7. SumFunctionOnSet(owed, T) = consumed
    BY <2>1, <2>2, <2>3, <2>4, <2>5, SumSupport
  <2>8. SumFunctionOnSet(Counts', T) = SumFunctionOnSet(Counts, T) + SumFunctionOnSet(owed, T)
    BY <2>2, <2>5, SumPlus
  <2>9. SumFunctionOnSet(Overruns', T) = SumFunctionOnSet(Overruns, T)
    BY <2>2, <2>5, SumSame
  <2>10. SumFunctionOnSet(left, T) = SumFunctionOnSet(Reserves', T) + SumFunctionOnSet(owed, T)
    BY <2>2, <2>5, SumPlus
  <2>11. SumFunctionOnSet(left, T) <= SumFunctionOnSet(Reserves, T)
    BY <2>2, <2>5, SumMonotone
  <2>12. /\ CountedBy(p)' = CountedBy(p) + consumed /\ OverrunBy(p)' = OverrunBy(p)
         /\ ReservedIn(p)' + consumed <= ReservedIn(p)
    BY <2>6, <2>7, <2>8, <2>9, <2>10, <2>11
  <2> QED
    BY <1>1, <1>2, <1>4, <1>5, <2>12, ShiftedEases DEF MoneyInv
<1>10. \A q \in Phases : Eases(q)
  <2>1. \A a \in Attempts \ AttemptsOf(p) : attempt'[a] = attempt[a]
    BY <1>2
  <2> QED
    BY <1>1, <1>5, <1>9, <2>1, OtherPhasesEase DEF MoneyInv
<1> QED
  BY <1>7, <1>8, <1>10 DEF AllEase

-----------------------------------------------------------------------------
(* The money of the running system.                                        *)

(* A ledger step of a thread, or one of the three transactions, makes no   *)
(* phase heavier: only OpenWrite adds a weight, and it is admitted first.  *)
LEMMA BooksEase ==
  ASSUME IInv, IInv', MoneyInv, BooksStep
  PROVE  OpenWrite \/ AllEase
<1>1. CASE LedgerStep
  <2>1. ~AnyBeginPhase
    <3> SUFFICES ASSUME NEW p \in Phases, NEW b \in Buckets, NEW amount \in Reservations,
                        NEW o \in Owners,
                        BeginPhase(p, b, amount, o, SpentBy(PhasesOfBucket(b)))
                 PROVE  FALSE
      BY DEF AnyBeginPhase
    <3>1. phase[p].state = "ABSENT" /\ phase'[p].state = "ACTIVE"
      BY DEF BeginPhase, IInv, TypeOK
    <3> QED
      BY <1>1, <3>1 DEF LedgerStep, NoneOpened
  <2> QED
    BY <1>1, <2>1, StepEases DEF LedgerStep
<1> QED
  BY <1>1, CloseOutMoney, CircuitMoney, ExtraMoney DEF BooksStep

(* The lock holder opens a phase of the ledger for a process that runs.    *)
LEMMA ReadingType ==
  ASSUME RuntimeInv, OpenWrite
  PROVE  /\ lock.phase \in Phases /\ lock.bucket \in Buckets /\ lock.amount \in Reservations
         /\ lock.prior \in Nat /\ process \in Owners
<1>1. lock \in LockStates /\ lock.kind = "opening"
  BY DEF RuntimeInv, RuntimeTypes, OpenWrite
<1>2. lock # Free /\ up
  BY <1>1 DEF Free, RuntimeInv, Alive
<1>3. process \in Owners
  BY <1>2 DEF RuntimeInv, Alive
<1>4. lock \in [kind : {"opening"}, phase : Phases, bucket : Buckets,
                amount : Reservations, prior : Nat]
  BY <1>1 DEF LockStates, Free
<1> QED
  BY <1>3, <1>4

(* The three transactions included, every step keeps the money right.      *)
LEMMA RuntimeMoneyStep ==
  RuntimeInv /\ RuntimeInv' /\ MoneyInv /\ [RuntimeNext]_runtimeVars => MoneyInv'
<1> SUFFICES ASSUME RuntimeInv, RuntimeInv', MoneyInv, [RuntimeNext]_runtimeVars
             PROVE  MoneyInv'
  OBVIOUS
<1>1. IInv /\ IInv' /\ BooksStep
  BY StepOfBooks DEF RuntimeInv
<1>2. CASE OpenWrite
  <2>1. BeginPhase(lock.phase, lock.bucket, lock.amount, process, lock.prior)
    BY <1>2 DEF OpenWrite
  <2> QED
    BY <1>1, <1>2, <2>1, ReadingType, BeginPhaseMoney
<1>3. CASE AllEase
  BY <1>1, <1>3, EasedMoney
<1> QED
  BY <1>1, <1>2, <1>3, BooksEase

(* The old spend the runtime starts with is weighed from the start.        *)
LEMMA RuntimeInitMoney == RuntimeInit => MoneyInv
  BY InitMoney DEF RuntimeInit

(* So the money of the running system is right in every reachable state.   *)
LEMMA RuntimeMoney == RuntimeSpec => []MoneyInv
  BY RuntimeInitMoney, RuntimeMoneyStep, RuntimeInvariant, PTL DEF RuntimeSpec

(* Whatever a settling finds, whoever reaps and however late an answer is, *)
(* the calls in flight hold no more than is left of their phase, but for   *)
(* what earlier calls of it overran.                                       *)
THEOREM RuntimePendingWithinReservation == RuntimeSpec => []PendingWithinReservation
<1>1. RuntimeInv /\ MoneyInv => PendingWithinReservation
  BY MoneyIsRight DEF RuntimeInv
<1> QED
  BY <1>1, RuntimeInvariant, RuntimeMoney, PTL

(* The limits of a day and of a request hold in the running system: they   *)
(* are checked in the transaction that reserves, and nothing a thread does *)
(* afterwards makes a phase heavier.                                       *)
THEOREM RuntimeSpendWithinCaps == RuntimeSpec => []SpendWithinCaps
<1>1. RuntimeInv /\ MoneyInv => SpendWithinCaps
  BY MoneyIsRight DEF RuntimeInv
<1> QED
  BY <1>1, RuntimeInvariant, RuntimeMoney, PTL

-----------------------------------------------------------------------------
(* The lifetime limit of a link. begin_phase compares it with a cost that  *)
(* was read before its transaction began; calls of the link that end in    *)
(* between are in neither figure.                                          *)

(* What the link has cost is no more than what was read of it.             *)
ReadingHolds == SpentBy(PhasesOfBucket(lock.bucket)) <= lock.prior

(* A step that opens no phase, or opens one on a reading that still holds, *)
(* keeps every lifetime limit.                                             *)
LEMMA RuntimeLifetimeStep ==
  /\ RuntimeInv /\ RuntimeInv' /\ MoneyInv /\ LifetimeCaps
  /\ [RuntimeNext]_runtimeVars /\ [OpenWrite => ReadingHolds]_runtimeVars
  => LifetimeCaps'
<1> SUFFICES ASSUME RuntimeInv, RuntimeInv', MoneyInv, LifetimeCaps,
                    [RuntimeNext]_runtimeVars, [OpenWrite => ReadingHolds]_runtimeVars
             PROVE  LifetimeCaps'
  OBVIOUS
<1>1. IInv /\ IInv' /\ BooksStep
  BY StepOfBooks DEF RuntimeInv
<1>2. CASE OpenWrite
  <2>1. /\ BeginPhase(lock.phase, lock.bucket, lock.amount, process, lock.prior)
        /\ lock.kind = "opening" /\ lock'.kind = "seeding"
    BY <1>2 DEF OpenWrite, Seeding
  <2>2. ReadingHolds
    BY <1>2, <2>1 DEF runtimeVars, threads
  <2> QED
    BY <1>1, <1>2, <2>1, <2>2, ReadingType, BeginLifetime DEF ReadingHolds
<1>3. CASE AllEase
  BY <1>1, <1>3, EasedLifetime
<1> QED
  BY <1>1, <1>2, <1>3, BooksEase

(* The stale reading is the only way past a lifetime limit: in every       *)
(* behaviour in which no phase is opened on a reading the link has         *)
(* outspent, what its calls cost and owe (those of the cutover too) and    *)
(* its open phases reserve stays within the limit, but for what single     *)
(* calls overran.                                                          *)
THEOREM RuntimeLifetimeSpendWithinCap ==
  RuntimeSpec /\ [][OpenWrite => ReadingHolds]_runtimeVars => []LifetimeSpendWithinCap
<1> USE LedgerAssumption
<1>1. \A b \in Buckets : PhasesOfBucket(b) \in SUBSET Phases
  BY DEF PhasesOfBucket
<1>2. RuntimeInit => LifetimeCaps
  <2>1. RuntimeInit => Init
    BY DEF RuntimeInit
  <2> QED
    BY <1>1, <2>1, InitWeighs DEF LifetimeCaps
<1>3. RuntimeInv /\ LifetimeCaps => LifetimeSpendWithinCap
  BY <1>1, WeighedIsCapped DEF LifetimeCaps, LifetimeSpendWithinCap, RuntimeInv, IInv
<1> QED
  BY <1>2, <1>3, RuntimeLifetimeStep, RuntimeInvariant, RuntimeMoney, PTL DEF RuntimeSpec

-----------------------------------------------------------------------------
(* The promise made of each call. Two transactions of the runtime book a   *)
(* call as over in the step that begins it: they write all its events.     *)

BookedAtOnce(c) ==
  /\ ChargeNow[c] = "idle"
  /\ \E charge \in {"free", "charged"} : ChargeNow' = [ChargeNow EXCEPT ![c] = charge]

(* A row that is not there yet is idle; one new row is booked at once.     *)
LEMMA NewRowBooked ==
  ASSUME IInv, NEW a \in Attempts, NEW row, attempt[a].billing = "ABSENT",
         attempt' = [attempt EXCEPT ![a] = row],
         row.billing \in {"KNOWN_ZERO", "KNOWN_COST"}
  PROVE  BookedAtOnce(a)
<1>1. ChargeNow[a] = "idle"
  BY DEF ChargeNow, ChargeOf
<1>2. ChargeOf(row) \in {"free", "charged"}
  BY DEF ChargeOf
<1>3. ChargeNow' = [ChargeNow EXCEPT ![a] = ChargeOf(row)]
  BY OneCharge DEF IInv, TypeOK
<1> QED
  BY <1>1, <1>2, <1>3 DEF BookedAtOnce

(* A settling of what was found lapses the calls it found.                 *)
LEMMA CloseOutLapses ==
  ASSUME IInv, NEW p \in Phases, CloseOut(p)
  PROVE  Charges!Next
<1> DEFINE S == lock.planned \cup lock.intended
<1>1. /\ S \subseteq Attempts
      /\ \A a \in Attempts \ S : attempt'[a] = attempt[a]
      /\ \A a \in S : attempt[a].billing = "RESERVED"
      /\ \A a \in lock.intended :
           /\ attempt[a].transport = "DISPATCH_INTENT_RECORDED"
           /\ attempt'[a].billing = "CONSERVATIVE_LIABILITY"
      /\ \A a \in lock.planned :
           attempt[a].transport = "PLANNED" /\ attempt'[a].billing = "KNOWN_ZERO"
  BY CloseOutRows DEF AttemptsOf, Unsettled, IsUnsettled
<1>2. ASSUME NEW a \in lock.intended
      PROVE  a \in Attempts /\ ChargeNow[a] = "sent" /\ ChargeNow'[a] = "owed"
  BY <1>1 DEF ChargeNow, ChargeOf
<1>3. ASSUME NEW a \in lock.planned
      PROVE  a \in Attempts /\ ChargeNow[a] = "planned" /\ ChargeNow'[a] = "free"
  BY <1>1 DEF ChargeNow, ChargeOf
<1>4. \A a \in Attempts \ S : ChargeNow'[a] = ChargeNow[a]
  BY <1>1 DEF ChargeNow
<1>5. ChargeNow' = [a \in Attempts |-> ChargeNow'[a]]
  BY DEF ChargeNow
<1>6. ChargeNow' = [a \in Attempts |-> IF a \notin S THEN ChargeNow[a]
                      ELSE IF ChargeNow[a] = "sent" THEN "owed" ELSE "free"]
  BY <1>1, <1>2, <1>3, <1>4, <1>5
<1>7. S \in SUBSET Attempts /\ \A a \in S : ChargeNow[a] \in {"planned", "sent"}
  BY <1>1, <1>2, <1>3
<1> HIDE DEF S
<1> QED
  BY <1>6, <1>7 DEF Charges!Next, Charges!Lapse, ChargeNow

(* Every step of the runtime is one of CallCharges, or books a call at     *)
(* once.                                                                   *)
LEMMA RuntimeChargesStep ==
  ASSUME IInv, BooksStep
  PROVE  [Charges!Next \/ \E c \in Attempts : BookedAtOnce(c)]_ChargeNow
<1>1. CASE LedgerStep
  BY <1>1, StepOfAttempts, ChargesStep DEF LedgerStep
<1>2. CASE OpenWrite
  BY <1>2 DEF OpenWrite, BeginPhase, ChargeNow
<1>3. ASSUME NEW p \in Phases, CloseOut(p)
      PROVE  Charges!Next
  BY <1>3, CloseOutLapses
<1>4. ASSUME NEW a \in Attempts, CallBeginIntoOpenCircuit(a)
      PROVE  BookedAtOnce(a)
  BY <1>4, CircuitRow, NewRowBooked
<1>5. ASSUME NEW p \in Phases, NEW extra \in Extras, CompleteWithExtra(p, extra)
      PROVE  \E c \in Attempts : BookedAtOnce(c)
  BY <1>5, ExtraRow, NewRowBooked DEF AttemptsOf
<1> QED
  BY <1>1, <1>2, <1>3, <1>4, <1>5 DEF BooksStep

(* In the running system each call keeps the promise of CallCharges: sent  *)
(* once at most, owed or answered if it was sent, free or charged for      *)
(* good. Besides its steps there are only calls that are booked as over in *)
(* the transaction that begins them: one that meets an open circuit, and   *)
(* one recorded for usage reported afterwards.                             *)
THEOREM RuntimeImplementsCallCharges ==
  RuntimeSpec =>
    /\ Charges!Init
    /\ [][Charges!Next \/ \E c \in Attempts : BookedAtOnce(c)]_ChargeNow
<1>1. RuntimeInit => Charges!Init
  <2>1. RuntimeInit => Init
    BY DEF RuntimeInit
  <2> QED
    BY <2>1, ChargesInit
<1>2. RuntimeInv /\ [RuntimeNext]_runtimeVars =>
        [Charges!Next \/ \E c \in Attempts : BookedAtOnce(c)]_ChargeNow
  BY StepOfBooks, RuntimeChargesStep DEF RuntimeInv
<1> QED
  BY <1>1, <1>2, RuntimeInvariant, PTL DEF RuntimeSpec

-----------------------------------------------------------------------------
(* Why no phase can hold its money for ever. Its lease is renewed by the    *)
(* calls of the phase only, by each of them once, and by nothing else;      *)
(* PhaseComesToAnEnd needs beyond this that time passes and that the lock   *)
(* is not held for ever, so that what is due is reaped.                     *)

\* The calls that may yet renew the lease of p.
CanRenew(p) == {a \in AttemptsOf(p) : caller[a] \in {"idle", "begun"}}

(* Only time and a heartbeat move the lease of a phase that stays open.     *)
LEMMA OpenLeaseStays ==
  ASSUME RuntimeInv, RuntimeNext, ~RuntimeTick, \A a \in Attempts : ~CallHeartbeat(a),
         NEW p \in Phases, phase[p].state = "ACTIVE", phase'[p].state = "ACTIVE"
  PROVE  phase'[p].lease = phase[p].lease
<1> DEFINE Stays == phase'[p].lease = phase[p].lease
<1>0. /\ phase \in [Phases -> PhaseRow]
      /\ \A a \in Attempts : PhaseOf[a] \in Phases
  BY LedgerAssumption DEF RuntimeInv, IInv, TypeOK
<1>1. CASE phase' = phase
  BY <1>1
<1>2. CASE ExpireDuePhaseLeases
  BY <1>0, <1>2 DEF ExpireDuePhaseLeases, ClosedPhase, PhaseRow
<1>3. ASSUME NEW q \in Phases, NEW state \in {"SUCCEEDED", "FAILED"},
             phase' = [phase EXCEPT ![q] = ClosedPhase(q, state)]
      PROVE  Stays
  <2>1. CASE q = p
    BY <1>0, <1>3, <2>1 DEF ClosedPhase, PhaseRow
  <2> QED
    BY <1>0, <1>3, <2>1
<1>4. ASSUME NEW q \in Phases, NEW att, NEW n,
             phase' = [phase EXCEPT ![q] = PhaseAfter(att, q, n)]
      PROVE  Stays
  <2>1. CASE q = p
    <3>1. phase'[p] = PhaseAfter(att, p, n)
      BY <1>0, <1>4, <2>1
    <3>2. PhaseAfter(att, p, n).lease = phase[p].lease
          \/ PhaseAfter(att, p, n).state \in {"SUCCEEDED", "FAILED"}
      BY <1>0 DEF PhaseAfter, ClosedPhase, CloseRequest, PhaseRow
    <3> QED
      BY <3>1, <3>2
  <2> QED
    BY <1>0, <1>4, <2>1
<1> HIDE DEF Stays
<1>5. CASE \/ Crash \/ ResolveBudgetLiability \/ ReapFails \/ OpenRefused \/ OpenFails
           \/ SettleFails \/ SeedFails
  BY <1>1, <1>5
  DEF Crash, ResolveBudgetLiability, AnyResolveLiability, ResolveLiability, ReapFails,
      OpenRefused, OpenFails, SettleFails, SeedFails, ledger, Stays
<1>6. CASE Start \/ RecheckBudgetStore \/ ReapExpiredPaidPhases \/ Seed
  BY <1>2, <1>6
  DEF Start, RecheckBudgetStore, VerifyHistory, ReapExpiredPaidPhases, ReapDue, Seed, Stays
<1>7. CASE OpenWrite
  <2>1. /\ lock.phase \in Phases /\ phase[lock.phase].state = "ABSENT"
        /\ \A q \in Phases \ {lock.phase} : phase'[q] = phase[q]
    BY <1>0, <1>7, LockNamesPhase DEF OpenWrite, BeginPhase, RuntimeInv, RuntimeTypes
  <2> QED
    BY <2>1 DEF Stays
<1>8. ASSUME NEW q \in Phases, NEW o, NEW succeeded, CompletePhase(q, o, succeeded)
      PROVE  Stays
  BY <1>3, <1>8 DEF CompletePhase
<1>9. CASE SettleWrite
  <2>0. lock.phase \in Phases
    BY <1>9, LockNamesPhase DEF RuntimeInv, RuntimeTypes, SettleWrite
  <2>1. \/ phase' = phase
        \/ CloseOut(lock.phase)
        \/ \E succeeded \in BOOLEAN : CompletePhase(lock.phase, process, succeeded)
        \/ \E extra \in Extras : CompleteWithExtra(lock.phase, extra)
    BY <1>9 DEF SettleWrite, ledger
  <2>2. CASE CloseOut(lock.phase)
    <3>1. PICK att : phase' = [phase EXCEPT ![lock.phase] =
                                 PhaseAfter(att, lock.phase, Owing(lock.intended))]
      BY <2>2, Zenon DEF CloseOut
    <3> QED
      BY <1>4, <2>0, <3>1 DEF Stays
  <2>3. ASSUME NEW extra \in Extras, CompleteWithExtra(lock.phase, extra) PROVE Stays
    <3>1. PICK succeeded \in BOOLEAN :
            phase' = [phase EXCEPT ![lock.phase] =
                        ClosedPhase(lock.phase, IF succeeded THEN "SUCCEEDED" ELSE "FAILED")]
      BY <2>3 DEF CompleteWithExtra, RecordExtraAndComplete
    <3> QED
      BY <1>3, <2>0, <3>1
  <2> QED
    BY <1>1, <1>8, <2>0, <2>1, <2>2, <2>3 DEF Stays
<1>10. ASSUME NEW q \in Phases,
              \/ Admit(q)
              \/ \E b \in Buckets, amount \in Reservations : OpenRead(q, b, amount)
              \/ StartProvider(q) \/ CancelPaidPhase(q) \/ CancelFails(q) \/ SettleRead(q)
       PROVE  Stays
  <2>1. \/ phase' = phase
        \/ ExpireDuePhaseLeases
        \/ CompletePhase(q, process, FALSE)
    BY <1>10
    DEF Admit, OpenRead, ReapDue, StartProvider, CancelPaidPhase, CancelFails, SettleRead, ledger
  <2> QED
    BY <1>1, <1>2, <1>8, <2>1 DEF Stays
<1>11. ASSUME NEW a \in Attempts, NEW transport, NEW billing, NEW known,
              NEW liability, NEW close,
              SettleAttempt(a, transport, billing, known, liability, close)
       PROVE  Stays
  <2>1. PICK att : phase' = [phase EXCEPT ![PhaseOf[a]] =
                               PhaseAfter(att, PhaseOf[a], known + liability)]
    BY <1>11, Zenon DEF SettleAttempt
  <2> QED
    BY <1>0, <1>4, <2>1
<1>12. ASSUME NEW a \in Attempts,
              \/ CallBegin(a) \/ CallArm(a) \/ CallSend(a) \/ CallObserveFails(a)
       PROVE  Stays
  BY <1>12
  DEF CallBegin, BeginAttempt, CallArm, MarkDispatchIntent, CallSend, CallObserveFails, ledger,
      Stays
<1>13. ASSUME NEW a \in Attempts, CallBeginIntoOpenCircuit(a) PROVE Stays
  <2>1. PICK att : phase' = [phase EXCEPT ![PhaseOf[a]] = PhaseAfter(att, PhaseOf[a], 0)]
    BY <1>13, Zenon DEF CallBeginIntoOpenCircuit
  <2> QED
    BY <1>0, <1>4, <2>1
<1>14. ASSUME NEW a \in Attempts, CallRefused(a) \/ CallCancelled(a) PROVE Stays
  <2>1. phase' = phase
        \/ \E close \in {"none", "FAILED"} :
             SettleAttempt(a, "LOCAL_FAILURE", "KNOWN_ZERO", 0, 0, close)
    BY <1>14 DEF CallRefused, CallCancelled, RecordPreDispatchFailure, ledger
  <2> QED
    BY <1>11, <2>1 DEF Stays
<1>15. ASSUME NEW a \in Attempts, CallObserve(a) PROVE Stays
  <2>1. PICK outcome \in Observations, transport \in Transports \ {"LOCAL_FAILURE"} :
          RecordAttemptOutcome(a, process, transport, outcome)
    BY <1>15 DEF CallObserve
  <2> QED
    BY <1>11, <2>1 DEF RecordAttemptOutcome
<1>16. Stays
  BY <1>5, <1>6, <1>7, <1>9, <1>10, <1>12, <1>13, <1>14, <1>15
  DEF RuntimeNext, LockHolderStep, Stays
<1> QED
  BY <1>16 DEF Stays

(* A call that has renewed its lease, or can no longer, never will again.   *)
LEMMA RenewalsOnlyEnd ==
  ASSUME RuntimeInv, RuntimeNext, NEW p \in Phases
  PROVE  CanRenew(p)' \subseteq CanRenew(p)
<1> SUFFICES ASSUME NEW a \in AttemptsOf(p), caller'[a] \in {"idle", "begun"}
             PROVE  caller[a] \in {"idle", "begun"}
  BY DEF CanRenew, AttemptsOf
<1>0. a \in Attempts /\ caller \in [Attempts -> CallerStates]
  BY DEF AttemptsOf, RuntimeInv, RuntimeTypes
<1>1. CASE caller' = caller
  BY <1>1
<1>2. CASE Crash
  BY <1>0, <1>2 DEF Crash
<1>3. CASE SettleWrite
  <2>1. caller' = caller \/ \E c \in Attempts : caller' = [caller EXCEPT ![c] = "done"]
    BY <1>3 DEF SettleWrite, CompleteWithExtra, RecordExtraAndComplete, AttemptsOf
  <2> QED
    BY <1>0, <1>1, <2>1
<1>4. CASE \/ Start \/ RecheckBudgetStore \/ ResolveBudgetLiability \/ ReapExpiredPaidPhases
           \/ ReapFails \/ RuntimeTick \/ OpenWrite \/ OpenRefused \/ OpenFails \/ SettleFails
           \/ Seed \/ SeedFails
  BY <1>1, <1>4
  DEF Start, RecheckBudgetStore, ResolveBudgetLiability, ReapExpiredPaidPhases, ReapFails,
      RuntimeTick, OpenWrite, OpenRefused, OpenFails, SettleFails, Seed, SeedFails, threads
<1>5. ASSUME NEW q \in Phases,
             \/ Admit(q)
             \/ \E b \in Buckets, amount \in Reservations : OpenRead(q, b, amount)
             \/ StartProvider(q) \/ CancelPaidPhase(q) \/ CancelFails(q) \/ SettleRead(q)
      PROVE  caller' = caller
  BY <1>5 DEF Admit, OpenRead, StartProvider, CancelPaidPhase, CancelFails, SettleRead
<1>6. ASSUME NEW c \in Attempts,
             \/ CallBegin(c) \/ CallBeginIntoOpenCircuit(c) \/ CallHeartbeat(c)
             \/ CallArm(c) \/ CallRefused(c) \/ CallCancelled(c)
             \/ CallSend(c) \/ CallObserve(c) \/ CallObserveFails(c)
      PROVE  \E to \in CallerStates \ {"idle"} :
               /\ caller' = [caller EXCEPT ![c] = to]
               /\ to = "begun" => caller[c] = "idle"
  <2>1. CASE CallBegin(c)
    <3>1. Move(c, {"idle"}, "begun")
      BY <2>1 DEF CallBegin
    <3> QED
      BY <3>1 DEF Move, CallerStates
  <2>2. CASE ~CallBegin(c)
    <3>1. \E from \in SUBSET CallerStates, to \in CallerStates \ {"idle", "begun"} :
            Move(c, from, to)
      BY <1>6, <2>2, Zenon
      DEF CallBeginIntoOpenCircuit, CallHeartbeat, CallArm, CallRefused, CallCancelled, CallSend,
          CallObserve, CallObserveFails, CallerStates
    <3> QED
      BY <3>1 DEF Move
  <2> QED
    BY <2>1, <2>2
<1>7. ASSUME NEW c \in Attempts, NEW to \in CallerStates \ {"idle"},
             caller' = [caller EXCEPT ![c] = to], to = "begun" => caller[c] = "idle"
      PROVE  caller[a] \in {"idle", "begun"}
  BY <1>0, <1>7 DEF CallerStates
<1> QED
  BY <1>1, <1>2, <1>3, <1>4, <1>5, <1>6, <1>7 DEF RuntimeNext, LockHolderStep

(* The lease of an open phase gets longer only at the cost of a renewal,    *)
(* of which there are as many as calls, and every tick shortens it: a lost  *)
(* ticket, a failed settling or a dead process cannot keep a phase open.    *)
THEOREM RuntimeLeaseRunsOut ==
  RuntimeSpec =>
    [][\A p \in Phases :
         /\ CanRenew(p)' \subseteq CanRenew(p)
         /\ (phase[p].state = "ACTIVE" /\ phase'[p].state = "ACTIVE") =>
              /\ phase'[p].lease <= phase[p].lease \/ CanRenew(p)' # CanRenew(p)
              /\ RuntimeTick => phase'[p].lease = AtLeastZero(phase[p].lease - 1)]_runtimeVars
<1> DEFINE RunsOut(p) ==
      (phase[p].state = "ACTIVE" /\ phase'[p].state = "ACTIVE") =>
              /\ phase'[p].lease <= phase[p].lease \/ CanRenew(p)' # CanRenew(p)
              /\ RuntimeTick => phase'[p].lease = AtLeastZero(phase[p].lease - 1)
<1>1. ASSUME RuntimeInv, RuntimeNext, NEW p \in Phases PROVE RunsOut(p)
  <2> SUFFICES ASSUME phase[p].state = "ACTIVE", phase'[p].state = "ACTIVE"
               PROVE  /\ phase'[p].lease <= phase[p].lease \/ CanRenew(p)' # CanRenew(p)
                      /\ RuntimeTick => phase'[p].lease = AtLeastZero(phase[p].lease - 1)
    OBVIOUS
  <2>0. phase[p].lease \in Nat
    BY <1>1, LedgerAssumption DEF RuntimeInv, IInv, TypeOK, PhaseRow
  <2>1. CASE RuntimeTick
    <3>1. phase'[p].lease = AtLeastZero(phase[p].lease - 1)
      BY <1>1, <2>1 DEF RuntimeTick, Tick, RuntimeInv, IInv, TypeOK, PhaseRow
    <3> QED
      BY <2>0, <3>1 DEF AtLeastZero
  <2>2. ASSUME ~RuntimeTick, NEW a \in Attempts, CallHeartbeat(a)
        PROVE  phase'[p].lease <= phase[p].lease \/ CanRenew(p)' # CanRenew(p)
    <3>1. CASE PhaseOf[a] = p
      <4>1. caller[a] = "begun" /\ caller'[a] = "beaten"
        BY <1>1, <2>2 DEF CallHeartbeat, Move, RuntimeInv, RuntimeTypes
      <4>2. a \in CanRenew(p) /\ a \notin CanRenew(p)'
        BY <3>1, <4>1 DEF CanRenew, AttemptsOf
      <4> QED
        BY <4>2
    <3>2. CASE PhaseOf[a] # p
      BY <1>1, <2>0, <2>2, <3>2 DEF CallHeartbeat, RuntimeInv, IInv, TypeOK
    <3> QED
      BY <3>1, <3>2
  <2>3. CASE ~RuntimeTick /\ \A a \in Attempts : ~CallHeartbeat(a)
    BY <1>1, <2>0, <2>3, OpenLeaseStays
  <2> QED
    BY <2>1, <2>2, <2>3
<1> DEFINE A ==
      \A p \in Phases :
         /\ CanRenew(p)' \subseteq CanRenew(p)
         /\ (phase[p].state = "ACTIVE" /\ phase'[p].state = "ACTIVE") =>
              /\ phase'[p].lease <= phase[p].lease \/ CanRenew(p)' # CanRenew(p)
              /\ RuntimeTick => phase'[p].lease = AtLeastZero(phase[p].lease - 1)
<1>2. RuntimeInv /\ RuntimeNext => A
  BY <1>1, RenewalsOnlyEnd
<1> HIDE DEF A
<1>3. RuntimeInv /\ [RuntimeNext]_runtimeVars => [A]_runtimeVars
  BY <1>2
<1>4. RuntimeSpec => [][A]_runtimeVars
  BY <1>3, RuntimeInvariant, PTL DEF RuntimeSpec
<1> QED
  BY <1>4 DEF A
=============================================================================
