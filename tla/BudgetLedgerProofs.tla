------------------------- MODULE BudgetLedgerProofs -------------------------
(***************************************************************************)
(* Proofs about BudgetLedger for any phases, attempts, amounts and limits, *)
(* in three parts: the rows of phases and attempts (IInv); the life of one *)
(* call (CallCharges); the sums of money (MoneyInv). The first two hold    *)
(* whatever is admitted; the third rests on what BeginPhase and            *)
(* BeginAttempt compare with the limits.                                   *)
(***************************************************************************)
EXTENDS BudgetLedger, SumProofs, TLAPS

(* What the rows of one attempt say together, and that no attempt exists   *)
(* of a phase that was never begun.                                        *)
AttemptShape ==
  \A a \in Attempts :
    /\ attempt[a].billing = "RESERVED"
         <=> attempt[a].transport \in {"PLANNED", "DISPATCH_INTENT_RECORDED"}
    /\ attempt[a].billing = "ABSENT" <=> attempt[a].transport = "ABSENT"
    /\ attempt[a].billing # "RESERVED" => attempt[a].reservation = 0
    /\ attempt[a].transport = "ABSENT" => attempt[a].close = "none"
    /\ phase[PhaseOf[a]].state = "ABSENT" => attempt[a].transport = "ABSENT"

IInv ==
  /\ TypeOK
  /\ AttemptShape
  /\ ClosedPhaseSettled
  /\ CloseRequestAwaitsSibling

(* Changing an attempt of one phase changes nothing that is read of the    *)
(* attempts of another (AttemptsOf filters by run_id and phase).           *)
LEMMA OtherPhaseUnread ==
  ASSUME NEW a \in Attempts, NEW row, NEW q \in Phases, q # PhaseOf[a],
         attempt \in [Attempts -> AttemptRow]
  PROVE  /\ PendingIn([attempt EXCEPT ![a] = row], q) = PendingIn(attempt, q)
         /\ CloseRequest([attempt EXCEPT ![a] = row], q) = CloseRequest(attempt, q)
  BY DEF PendingIn, CloseRequest, AttemptsOf

(* CloseRequest is one of its three values (_phase_close_request returns   *)
(* FAILED, SUCCEEDED or None).                                             *)
LEMMA CloseRequestType ==
  ASSUME NEW att, NEW p
  PROVE  CloseRequest(att, p) \in CloseRequests
  BY DEF CloseRequest, CloseRequests

(* A closed phase keeps its day and bucket and gives back everything else. *)
LEMMA ClosedPhaseRow ==
  ASSUME NEW p, phase[p] \in PhaseRow, NEW state \in {"SUCCEEDED", "FAILED"}
  PROVE  /\ ClosedPhase(p, state) \in PhaseRow
         /\ ClosedPhase(p, state).state = state
         /\ ClosedPhase(p, state).reservation = 0
         /\ ClosedPhase(p, state).owner = None
         /\ ClosedPhase(p, state).lease = 0
<1>1. 0 \in 0..MaxLease
  BY LedgerAssumption
<1>2. ClosedPhase(p, state) \in PhaseRow
  BY <1>1 DEF ClosedPhase, PhaseRow, PhaseStates
<1>3. /\ ClosedPhase(p, state).state = state
      /\ ClosedPhase(p, state).reservation = 0
      /\ ClosedPhase(p, state).owner = None
      /\ ClosedPhase(p, state).lease = 0
  BY DEF ClosedPhase, PhaseRow
<1> QED
  BY <1>2, <1>3

(* What the cutover writes of a call (prepare_cutover): it is settled, and *)
(* all it was estimated at is either known or owed.                        *)
LEMMA LegacyRowShape ==
  ASSUME NEW row \in {NoAttempt} \cup LegacyRows
  PROVE  /\ row \in AttemptRow
         /\ row.reservation = 0 /\ row.close = "none"
         /\ row.known + row.liability = row.estimate
         /\ \/ /\ row.billing = "ABSENT" /\ row.transport = "ABSENT" /\ ~row.legacy
               /\ row.known = 0 /\ row.liability = 0
            \/ /\ row.billing = "KNOWN_COST" /\ row.transport = "RESPONSE_RECEIVED"
               /\ row.legacy
            \/ /\ row.billing = "UNKNOWN_LEGACY" /\ row.transport = "UNKNOWN_LEGACY"
               /\ row.legacy /\ row.known = 0
<1>1. CASE row = NoAttempt
  BY <1>1 DEF NoAttempt, AttemptRow, TransportStates, BillingStates, CloseRequests
<1>2. ASSUME NEW amount \in LegacyAmounts, row = KnownLegacy(amount)
      PROVE  /\ row \in AttemptRow
             /\ row.reservation = 0 /\ row.close = "none"
             /\ row.known + row.liability = row.estimate
             /\ row.billing = "KNOWN_COST" /\ row.transport = "RESPONSE_RECEIVED"
             /\ row.legacy
  <2>1. amount \in Nat
    BY LedgerAssumption
  <2>2. row = [transport |-> "RESPONSE_RECEIVED", billing |-> "KNOWN_COST",
               estimate |-> amount, reservation |-> 0, known |-> amount, liability |-> 0,
               close |-> "none", legacy |-> TRUE]
    BY <1>2 DEF KnownLegacy, NoAttempt
  <2> QED
    BY <2>1, <2>2 DEF AttemptRow, TransportStates, BillingStates, CloseRequests
<1>3. ASSUME NEW amount \in LegacyAmounts, row = UnknownLegacy(amount)
      PROVE  /\ row \in AttemptRow
             /\ row.reservation = 0 /\ row.close = "none"
             /\ row.known + row.liability = row.estimate
             /\ row.billing = "UNKNOWN_LEGACY" /\ row.transport = "UNKNOWN_LEGACY"
             /\ row.legacy /\ row.known = 0
  <2>1. amount \in Nat
    BY LedgerAssumption
  <2>2. row = [transport |-> "UNKNOWN_LEGACY", billing |-> "UNKNOWN_LEGACY",
               estimate |-> amount, reservation |-> 0, known |-> 0, liability |-> amount,
               close |-> "none", legacy |-> TRUE]
    BY <1>3 DEF UnknownLegacy, NoAttempt
  <2> QED
    BY <2>1, <2>2 DEF AttemptRow, TransportStates, BillingStates, CloseRequests
<1>4. \/ row = NoAttempt
      \/ \E amount \in LegacyAmounts : row = KnownLegacy(amount)
      \/ \E amount \in LegacyAmounts : row = UnknownLegacy(amount)
  BY Zenon DEF LegacyRows
<1> QED
  BY <1>1, <1>2, <1>3, <1>4, Zenon

(* What the cutover writes of a phase: it is over and holds nothing.       *)
LEMMA LegacyPhaseShape ==
  ASSUME today \in 0..MaxDay, NEW row \in {NoPhase} \cup LegacyPhases
  PROVE  /\ row \in PhaseRow
         /\ row.state \in {"ABSENT", "SUCCEEDED", "UNKNOWN_LEGACY"}
         /\ row.reservation = 0 /\ row.owner = None /\ row.lease = 0
         /\ row.state = "ABSENT" => row.bucket = None
<1> USE LedgerAssumption
<1>1. 0 \in 0..MaxDay /\ 0 \in 0..MaxLease /\ 0..today \subseteq 0..MaxDay
  OBVIOUS
<1>2. CASE row = NoPhase
  BY <1>1, <1>2 DEF NoPhase, PhaseRow, PhaseStates
<1>3. CASE row \in LegacyPhases
  <2>1. /\ row.state \in {"SUCCEEDED", "UNKNOWN_LEGACY"}
        /\ row.reservation = 0 /\ row.owner = None /\ row.lease = 0
    BY <1>3 DEF LegacyPhases
  <2>2. row \in PhaseRow
    BY <1>1, <1>3 DEF LegacyPhases, PhaseRow, PhaseStates
  <2> QED
    BY <2>1, <2>2
<1> QED
  BY <1>2, <1>3

(* The empty ledger, and the one the cutover leaves, satisfy IInv.         *)
LEMMA InitInv == Init => IInv
<1> SUFFICES ASSUME Init PROVE IInv
  OBVIOUS
<1>1. /\ \A a \in Attempts : attempt[a] \in {NoAttempt} \cup LegacyRows
      /\ \A p \in Phases : phase[p] \in {NoPhase} \cup LegacyPhases
      /\ today \in 0..MaxDay
      /\ \A p \in Phases : phase[p].state = LegacyState(p)
      /\ phase = [p \in Phases |-> phase[p]] /\ attempt = [a \in Attempts |-> attempt[a]]
  BY DEF Init
<1>2. \A p \in Phases :
        /\ phase[p] \in PhaseRow
        /\ phase[p].state # "ACTIVE"
        /\ phase[p].reservation = 0 /\ phase[p].owner = None /\ phase[p].lease = 0
  BY <1>1, LegacyPhaseShape
<1>3. \A a \in Attempts :
        /\ attempt[a] \in AttemptRow
        /\ attempt[a].reservation = 0 /\ attempt[a].close = "none"
        /\ attempt[a].billing = "ABSENT" <=> attempt[a].transport = "ABSENT"
        /\ attempt[a].billing # "RESERVED"
        /\ attempt[a].transport \notin {"PLANNED", "DISPATCH_INTENT_RECORDED"}
        /\ attempt[a].billing # "ABSENT" =>
             /\ attempt[a].legacy
             /\ attempt[a].billing \in {"KNOWN_COST", "UNKNOWN_LEGACY"}
  BY <1>1, LegacyRowShape
<1>4. TypeOK
  BY <1>1, <1>2, <1>3 DEF TypeOK
<1>5. AttemptShape
  <2>1. ASSUME NEW a \in Attempts, phase[PhaseOf[a]].state = "ABSENT"
        PROVE  attempt[a].transport = "ABSENT"
    <3>1. PhaseOf[a] \in Phases /\ a \in AttemptsOf(PhaseOf[a])
      BY LedgerAssumption DEF AttemptsOf
    <3>2. LegacyState(PhaseOf[a]) = "ABSENT"
      BY <1>1, <2>1, <3>1
    <3>3. /\ LegacyIn(PhaseOf[a], "UNKNOWN_LEGACY") = {}
          /\ LegacyIn(PhaseOf[a], "KNOWN_COST") = {}
      BY <3>2 DEF LegacyState
    <3> QED
      BY <1>3, <3>1, <3>3 DEF LegacyIn
  <2> QED
    BY <1>3, <2>1 DEF AttemptShape
<1>6. ClosedPhaseSettled
  BY <1>2, <1>3 DEF ClosedPhaseSettled, AttemptsOf, Unsettled, IsUnsettled
<1>7. CloseRequestAwaitsSibling
  BY <1>2 DEF CloseRequestAwaitsSibling
<1> QED
  BY <1>4, <1>5, <1>6, <1>7 DEF IInv

(* A new phase starts with no attempt, so it owes no close and holds only  *)
(* what was reserved for it (begin_phase).                                 *)
LEMMA BeginPhaseInv ==
  ASSUME IInv, NEW p \in Phases, NEW b \in Buckets, NEW amount \in Reservations,
         NEW o \in Owners, NEW prior, BeginPhase(p, b, amount, o, prior)
  PROVE  IInv'
<1> USE LedgerAssumption
<1> DEFINE row == [state |-> "ACTIVE", day |-> today, bucket |-> b,
                   reservation |-> amount, owner |-> o, lease |-> MaxLease]
<1>1. /\ phase' = [phase EXCEPT ![p] = row]
      /\ phase[p].state = "ABSENT" /\ attempt' = attempt /\ today' = today
  BY DEF BeginPhase
<1>2. TypeOK'
  <2>1. row \in PhaseRow
    BY DEF IInv, TypeOK, PhaseRow, PhaseStates
  <2> QED
    BY <1>1, <2>1 DEF IInv, TypeOK
<1>3. AttemptShape'
  BY <1>1 DEF IInv, TypeOK, AttemptShape
<1>4. \A a \in AttemptsOf(p) : attempt[a].transport = "ABSENT" /\ attempt[a].close = "none"
  BY <1>1 DEF IInv, AttemptShape, AttemptsOf
<1>5. ClosedPhaseSettled'
  BY <1>1 DEF IInv, TypeOK, ClosedPhaseSettled, AttemptsOf, Unsettled, IsUnsettled
<1>6. CloseRequestAwaitsSibling'
  <2>1. CloseRequest(attempt, p) = "none"
    BY <1>4 DEF CloseRequest
  <2> QED
    BY <1>1, <2>1 DEF IInv, TypeOK, CloseRequestAwaitsSibling, ActiveAttempts
<1> QED
  BY <1>2, <1>3, <1>5, <1>6 DEF IInv

(* Steps that only move leases or the day: a heartbeat, a tick, midnight.  *)
LEMMA LeaseInv ==
  ASSUME IInv, attempt' = attempt, today' \in 0..MaxDay,
         NEW leases \in [Phases -> 0..MaxLease],
         phase' = [p \in Phases |-> [phase[p] EXCEPT !.lease = leases[p]]],
         \A p \in Phases : phase[p].lease = 0 => leases[p] = 0
  PROVE  IInv'
<1>1. phase' \in [Phases -> PhaseRow]
  BY DEF IInv, TypeOK, PhaseRow
<1>2. \A p \in Phases :
        /\ phase'[p].state = phase[p].state
        /\ phase'[p].reservation = phase[p].reservation
        /\ phase'[p].owner = phase[p].owner
        /\ phase'[p].lease = leases[p]
  BY DEF IInv, TypeOK, PhaseRow
<1>3. TypeOK'
  BY <1>1 DEF IInv, TypeOK
<1>4. AttemptShape'
  BY <1>2, LedgerAssumption DEF IInv, AttemptShape
<1>5. ClosedPhaseSettled'
  BY <1>2 DEF IInv, ClosedPhaseSettled, AttemptsOf, Unsettled
<1>6. CloseRequestAwaitsSibling'
  BY <1>2 DEF IInv, CloseRequestAwaitsSibling, ActiveAttempts
<1> QED
  BY <1>3, <1>4, <1>5, <1>6 DEF IInv

(* An attempt that is planned or sent keeps its phase open; only its own   *)
(* row changes (begin_attempt, mark_dispatch_intent).                      *)
LEMMA PendingAttemptInv ==
  ASSUME IInv, NEW a \in Attempts, NEW row \in AttemptRow, IsUnsettled(row),
         phase[PhaseOf[a]].state = "ACTIVE",
         attempt' = [attempt EXCEPT ![a] = row], phase' = phase, today' = today
  PROVE  IInv'
<1> USE LedgerAssumption
<1>1. TypeOK'
  BY DEF IInv, TypeOK
<1>2. AttemptShape'
  BY DEF IInv, TypeOK, AttemptShape, IsUnsettled, AttemptRow, TransportStates
<1>3. ClosedPhaseSettled'
  BY DEF IInv, TypeOK, ClosedPhaseSettled, AttemptsOf, Unsettled
<1>4. CloseRequestAwaitsSibling'
  <2> SUFFICES ASSUME NEW q \in Phases, phase'[q].state = "ACTIVE",
                      CloseRequest(attempt', q) # "none"
               PROVE  PendingIn(attempt', q) # {}
    BY DEF CloseRequestAwaitsSibling, ActiveAttempts
  <2>1. CASE q = PhaseOf[a]
    BY <2>1 DEF IInv, TypeOK, PendingIn, AttemptsOf
  <2>2. CASE q # PhaseOf[a]
    BY <2>2, OtherPhaseUnread DEF IInv, TypeOK, CloseRequestAwaitsSibling, ActiveAttempts
  <2> QED
    BY <2>1, <2>2
<1> QED
  BY <1>1, <1>2, <1>3, <1>4 DEF IInv

(* Settling an attempt closes its phase exactly when a close was requested *)
(* and no sibling is pending (_update_phase_after_attempt).                *)
LEMMA SettleInv ==
  ASSUME IInv, NEW a \in Attempts, phase[PhaseOf[a]].state = "ACTIVE",
         attempt[a].transport # "ABSENT",
         NEW transport \in TransportStates, NEW billing \in BillingStates,
         NEW known \in Nat, NEW liability \in Nat, NEW close \in CloseRequests,
         transport \notin {"ABSENT", "PLANNED", "DISPATCH_INTENT_RECORDED"},
         billing \notin {"ABSENT", "RESERVED"},
         SettleAttempt(a, transport, billing, known, liability, close)
  PROVE  IInv'
<1> USE LedgerAssumption
<1> DEFINE row == Settled(a, transport, billing, known, liability, close)
           p   == PhaseOf[a]
           new == PhaseAfter([attempt EXCEPT ![a] = row], p, known + liability)
<1>1. /\ attempt' = [attempt EXCEPT ![a] = row]
      /\ phase' = [phase EXCEPT ![p] = new]
      /\ today' = today
  BY DEF SettleAttempt
<1>2. /\ row \in AttemptRow
      /\ row.transport = transport /\ row.billing = billing /\ row.reservation = 0
  <2>1. attempt[a] \in AttemptRow
    BY DEF IInv, TypeOK
  <2>2. CASE close = "none"
    BY <2>1, <2>2 DEF Settled, AttemptRow
  <2>3. CASE close # "none"
    BY <2>1, <2>3 DEF Settled, AttemptRow
  <2> QED
    BY <2>2, <2>3
<1>3. new = PhaseAfter(attempt', p, known + liability)
  BY <1>1
<1>4. /\ new \in PhaseRow
      /\ \/ /\ new.state \in {"SUCCEEDED", "FAILED"}
            /\ new.reservation = 0 /\ new.owner = None /\ new.lease = 0
            /\ PendingIn(attempt', p) = {}
         \/ /\ new.state = "ACTIVE"
            /\ CloseRequest(attempt', p) # "none" => PendingIn(attempt', p) # {}
  <2>1. phase[p] \in PhaseRow
    BY DEF IInv, TypeOK
  <2>2. CASE CloseRequest(attempt', p) # "none" /\ PendingIn(attempt', p) = {}
    <3>1. CloseRequest(attempt', p) \in {"SUCCEEDED", "FAILED"}
      BY <2>2, CloseRequestType DEF CloseRequests
    <3>2. new = ClosedPhase(p, CloseRequest(attempt', p))
      BY <1>3, <2>2 DEF PhaseAfter
    <3> QED
      BY <2>1, <2>2, <3>1, <3>2, ClosedPhaseRow
  <2>3. CASE ~(CloseRequest(attempt', p) # "none" /\ PendingIn(attempt', p) = {})
    <3>1. AtLeastZero(phase[p].reservation - (known + liability)) \in Nat
      BY <2>1 DEF AtLeastZero, PhaseRow
    <3> QED
      BY <1>3, <2>1, <2>3, <3>1 DEF PhaseAfter, PhaseRow, PhaseStates
  <2> QED
    BY <2>2, <2>3
<1>5. TypeOK'
  BY <1>1, <1>2, <1>4 DEF IInv, TypeOK
<1>6. AttemptShape'
  BY <1>1, <1>2, <1>4 DEF IInv, TypeOK, AttemptShape
<1>7. ClosedPhaseSettled'
  <2> SUFFICES ASSUME NEW q \in Phases, phase'[q].state # "ACTIVE"
               PROVE  /\ phase'[q].reservation = 0 /\ phase'[q].owner = None
                      /\ phase'[q].lease = 0
                      /\ \A c \in AttemptsOf(q) :
                           ~IsUnsettled(attempt'[c]) /\ attempt'[c].reservation = 0
    BY DEF ClosedPhaseSettled, AttemptsOf, Unsettled
  <2>1. CASE q = p
    <3>1. PendingIn(attempt', p) = {} /\ phase'[p] = new
      BY <1>1, <1>4, <2>1 DEF IInv, TypeOK
    <3>2. \A c \in AttemptsOf(p) : ~IsUnsettled(attempt'[c])
      BY <3>1 DEF PendingIn
    <3>3. \A c \in AttemptsOf(p) : attempt'[c].reservation = 0
      BY <1>6, <3>2 DEF AttemptShape, IsUnsettled, AttemptsOf
    <3> QED
      BY <1>1, <1>4, <2>1, <3>1, <3>2, <3>3
  <2>2. CASE q # p
    BY <1>1, <2>2 DEF IInv, TypeOK, ClosedPhaseSettled, AttemptsOf, Unsettled
  <2> QED
    BY <2>1, <2>2
<1>8. CloseRequestAwaitsSibling'
  <2> SUFFICES ASSUME NEW q \in Phases, phase'[q].state = "ACTIVE",
                      CloseRequest(attempt', q) # "none"
               PROVE  PendingIn(attempt', q) # {}
    BY DEF CloseRequestAwaitsSibling, ActiveAttempts
  <2>1. CASE q = p
    BY <1>1, <1>4, <2>1 DEF IInv, TypeOK
  <2>2. CASE q # p
    <3>1. /\ PendingIn(attempt', q) = PendingIn(attempt, q)
          /\ CloseRequest(attempt', q) = CloseRequest(attempt, q)
      BY <1>1, <2>2, OtherPhaseUnread DEF IInv, TypeOK
    <3>2. phase[q].state = "ACTIVE"
      BY <1>1, <2>2 DEF IInv, TypeOK
    <3> QED
      BY <3>1, <3>2 DEF IInv, CloseRequestAwaitsSibling, ActiveAttempts
  <2> QED
    BY <2>1, <2>2
<1> QED
  BY <1>5, <1>6, <1>7, <1>8 DEF IInv

(* complete_phase closes only a phase without pending attempts.            *)
LEMMA CompletePhaseInv ==
  ASSUME IInv, NEW p \in Phases, NEW o \in Owners, NEW succeeded \in BOOLEAN,
         CompletePhase(p, o, succeeded)
  PROVE  IInv'
<1> USE LedgerAssumption
<1> DEFINE state == IF succeeded THEN "SUCCEEDED" ELSE "FAILED"
<1>1. /\ phase' = [phase EXCEPT ![p] = ClosedPhase(p, state)]
      /\ attempt' = attempt /\ today' = today
      /\ phase[p].state = "ACTIVE"
      /\ ActiveAttempts(p) = {}
  BY DEF CompletePhase, OwnedAndLive
<1>2. /\ ClosedPhase(p, state) \in PhaseRow
      /\ ClosedPhase(p, state).state \in {"SUCCEEDED", "FAILED"}
      /\ ClosedPhase(p, state).reservation = 0
      /\ ClosedPhase(p, state).owner = None
      /\ ClosedPhase(p, state).lease = 0
  <2>1. state \in {"SUCCEEDED", "FAILED"} /\ phase[p] \in PhaseRow
    BY DEF IInv, TypeOK
  <2> QED
    BY <2>1, ClosedPhaseRow
<1>3. TypeOK'
  BY <1>1, <1>2 DEF IInv, TypeOK
<1>4. AttemptShape'
  BY <1>1, <1>2 DEF IInv, TypeOK, AttemptShape
<1>5. ClosedPhaseSettled'
  <2>1. \A a \in AttemptsOf(p) : ~Unsettled(a) /\ attempt[a].reservation = 0
    BY <1>1 DEF IInv, AttemptShape, ActiveAttempts, PendingIn, Unsettled, IsUnsettled, AttemptsOf
  <2> QED
    BY <1>1, <1>2, <2>1 DEF IInv, TypeOK, ClosedPhaseSettled, AttemptsOf, Unsettled
<1>6. CloseRequestAwaitsSibling'
  BY <1>1, <1>2 DEF IInv, TypeOK, CloseRequestAwaitsSibling, ActiveAttempts
<1> QED
  BY <1>3, <1>4, <1>5, <1>6 DEF IInv

(* What an expired attempt becomes: owed if it was sent, free if not.      *)
LEMMA ExpiredAttemptRow ==
  ASSUME IInv, NEW a \in Attempts, Unsettled(a)
  PROVE  /\ ExpiredAttempt(a) \in AttemptRow
         /\ ExpiredAttempt(a).reservation = 0
         /\ IF attempt[a].transport = "DISPATCH_INTENT_RECORDED"
            THEN /\ ExpiredAttempt(a).transport = "TRANSPORT_AMBIGUOUS"
                 /\ ExpiredAttempt(a).billing = "CONSERVATIVE_LIABILITY"
                 /\ ExpiredAttempt(a).liability = attempt[a].estimate
            ELSE /\ ExpiredAttempt(a).transport = "LOCAL_FAILURE"
                 /\ ExpiredAttempt(a).billing = "KNOWN_ZERO"
  BY DEF IInv, TypeOK, ExpiredAttempt, Settled, AttemptRow, TransportStates, BillingStates

(* Lease expiry settles the attempts and closes the phases in one step.    *)
LEMMA ExpireInv ==
  ASSUME IInv, ExpireDuePhaseLeases
  PROVE  IInv'
<1> USE LedgerAssumption
<1>1. /\ attempt' = [a \in Attempts |->
                       IF PhaseOf[a] \in DuePhases /\ Unsettled(a)
                       THEN ExpiredAttempt(a) ELSE attempt[a]]
      /\ phase' = [p \in Phases |->
                     IF p \in DuePhases THEN ClosedPhase(p, "FAILED") ELSE phase[p]]
      /\ today' = today
  BY DEF ExpireDuePhaseLeases
<1>2. \A p \in Phases :
        /\ phase[p] \in PhaseRow
        /\ ClosedPhase(p, "FAILED") \in PhaseRow
        /\ ClosedPhase(p, "FAILED").state = "FAILED"
        /\ ClosedPhase(p, "FAILED").reservation = 0
        /\ ClosedPhase(p, "FAILED").owner = None
        /\ ClosedPhase(p, "FAILED").lease = 0
  BY ClosedPhaseRow DEF IInv, TypeOK
<1>3. TypeOK'
  <2>1. \A a \in Attempts : attempt'[a] \in AttemptRow
    BY <1>1, ExpiredAttemptRow DEF IInv, TypeOK
  <2> QED
    BY <1>1, <1>2, <2>1 DEF IInv, TypeOK
<1>4. AttemptShape'
  <2> SUFFICES ASSUME NEW a \in Attempts
               PROVE  /\ attempt'[a].billing = "RESERVED"
                           <=> attempt'[a].transport \in {"PLANNED", "DISPATCH_INTENT_RECORDED"}
                      /\ attempt'[a].billing = "ABSENT" <=> attempt'[a].transport = "ABSENT"
                      /\ attempt'[a].billing # "RESERVED" => attempt'[a].reservation = 0
                      /\ attempt'[a].transport = "ABSENT" => attempt'[a].close = "none"
                      /\ phase'[PhaseOf[a]].state = "ABSENT" => attempt'[a].transport = "ABSENT"
    BY DEF AttemptShape
  <2>1. phase'[PhaseOf[a]].state = "ABSENT" => phase[PhaseOf[a]].state = "ABSENT"
    BY <1>1, <1>2
  <2>2. CASE PhaseOf[a] \in DuePhases /\ Unsettled(a)
    BY <1>1, <2>1, <2>2, ExpiredAttemptRow DEF DuePhases
  <2>3. CASE ~(PhaseOf[a] \in DuePhases /\ Unsettled(a))
    BY <1>1, <2>1, <2>3 DEF IInv, AttemptShape
  <2> QED
    BY <2>2, <2>3
<1>5. ClosedPhaseSettled'
  <2> SUFFICES ASSUME NEW p \in Phases, phase'[p].state # "ACTIVE"
               PROVE  /\ phase'[p].reservation = 0 /\ phase'[p].owner = None
                      /\ phase'[p].lease = 0
                      /\ \A a \in AttemptsOf(p) :
                           ~IsUnsettled(attempt'[a]) /\ attempt'[a].reservation = 0
    BY DEF ClosedPhaseSettled, AttemptsOf, Unsettled
  <2>1. CASE p \in DuePhases
    <3>1. \A a \in AttemptsOf(p) : ~IsUnsettled(attempt'[a])
      BY <1>1, <2>1, ExpiredAttemptRow DEF AttemptsOf, IsUnsettled, Unsettled
    <3>2. \A a \in AttemptsOf(p) : attempt'[a].reservation = 0
      BY <1>4, <3>1 DEF AttemptShape, IsUnsettled, AttemptsOf
    <3> QED
      BY <1>1, <1>2, <2>1, <3>1, <3>2
  <2>2. CASE p \notin DuePhases
    BY <1>1, <2>2 DEF IInv, ClosedPhaseSettled, AttemptsOf, Unsettled
  <2> QED
    BY <2>1, <2>2
<1>6. CloseRequestAwaitsSibling'
  <2> SUFFICES ASSUME NEW p \in Phases, phase'[p].state = "ACTIVE",
                      CloseRequest(attempt', p) # "none"
               PROVE  PendingIn(attempt', p) # {}
    BY DEF CloseRequestAwaitsSibling, ActiveAttempts
  <2>1. p \notin DuePhases
    BY <1>1, <1>2
  <2>2. \A a \in AttemptsOf(p) : attempt'[a] = attempt[a]
    BY <1>1, <2>1 DEF AttemptsOf
  <2>3. /\ CloseRequest(attempt', p) = CloseRequest(attempt, p)
        /\ PendingIn(attempt', p) = PendingIn(attempt, p)
    BY <2>2 DEF CloseRequest, PendingIn
  <2> QED
    BY <1>1, <2>1, <2>3 DEF IInv, CloseRequestAwaitsSibling, ActiveAttempts
<1> QED
  BY <1>3, <1>4, <1>5, <1>6 DEF IInv

(* A resolution touches only attempts of phases that are over.             *)
LEMMA ResolveInv ==
  ASSUME IInv, NEW a \in Attempts, NEW action, NEW cost \in Costs,
         ResolveLiability(a, action, cost)
  PROVE  IInv'
<1> USE LedgerAssumption
<1>1. PICK row \in AttemptRow :
        /\ attempt' = [attempt EXCEPT ![a] = row]
        /\ row.billing \in {"KNOWN_COST", "LIABILITY_CONFIRMED", "KNOWN_ZERO"}
        /\ row.transport = attempt[a].transport
        /\ row.reservation = attempt[a].reservation
        /\ row.close = attempt[a].close
  <2>1. attempt[a] \in AttemptRow /\ cost \in Nat
    BY DEF IInv, TypeOK
  <2> DEFINE actual == [attempt[a] EXCEPT !.billing = "KNOWN_COST", !.known = cost,
                                          !.liability = 0]
             owed   == [attempt[a] EXCEPT !.billing = "LIABILITY_CONFIRMED"]
             zero   == [attempt[a] EXCEPT !.billing = "KNOWN_ZERO", !.liability = 0]
             Resolved(row) ==
               /\ row \in AttemptRow
               /\ row.billing \in {"KNOWN_COST", "LIABILITY_CONFIRMED", "KNOWN_ZERO"}
               /\ row.transport = attempt[a].transport
               /\ row.reservation = attempt[a].reservation
               /\ row.close = attempt[a].close
  <2>2. Resolved(actual)
    BY <2>1 DEF AttemptRow, BillingStates
  <2>3. Resolved(owed)
    BY <2>1 DEF AttemptRow, BillingStates
  <2>4. Resolved(zero)
    BY <2>1 DEF AttemptRow, BillingStates
  <2>5. \E row \in {actual, owed, zero} : attempt' = [attempt EXCEPT ![a] = row]
    BY DEF ResolveLiability, IInv, TypeOK
  <2> HIDE DEF actual, owed, zero
  <2> QED
    BY <2>2, <2>3, <2>4, <2>5
<1>2. /\ phase' = phase /\ today' = today
      /\ phase[PhaseOf[a]].state # "ACTIVE"
      /\ attempt[a].billing \in {"CONSERVATIVE_LIABILITY", "UNKNOWN_LEGACY"}
  BY DEF ResolveLiability, Reconcilable
<1>3. TypeOK'
  BY <1>1, <1>2 DEF IInv, TypeOK
<1>4. AttemptShape'
  BY <1>1, <1>2 DEF IInv, TypeOK, AttemptShape
<1>5. ClosedPhaseSettled'
  BY <1>1, <1>2 DEF IInv, TypeOK, AttemptShape, ClosedPhaseSettled, AttemptsOf, Unsettled,
                    IsUnsettled
<1>6. CloseRequestAwaitsSibling'
  <2> SUFFICES ASSUME NEW q \in Phases, phase'[q].state = "ACTIVE",
                      CloseRequest(attempt', q) # "none"
               PROVE  PendingIn(attempt', q) # {}
    BY DEF CloseRequestAwaitsSibling, ActiveAttempts
  <2>1. q # PhaseOf[a]
    BY <1>2
  <2>2. attempt' = [attempt EXCEPT ![a] = row]
    BY <1>1
  <2>3. attempt \in [Attempts -> AttemptRow]
    BY DEF IInv, TypeOK
  <2>4. /\ PendingIn(attempt', q) = PendingIn(attempt, q)
        /\ CloseRequest(attempt', q) = CloseRequest(attempt, q)
    BY <2>1, <2>2, <2>3, OtherPhaseUnread
  <2> QED
    BY <1>2, <2>4 DEF IInv, CloseRequestAwaitsSibling, ActiveAttempts
<1> QED
  BY <1>3, <1>4, <1>5, <1>6 DEF IInv

(* Every step keeps IInv: one case per action of the ledger.               *)
LEMMA StepInv == IInv /\ [Next]_vars => IInv'
<1> SUFFICES ASSUME IInv, [Next]_vars PROVE IInv'
  OBVIOUS
<1> USE LedgerAssumption
<1>1. CASE AnyBeginPhase
  BY <1>1, BeginPhaseInv DEF AnyBeginPhase
<1>2. CASE AnyHeartbeatPhase
  <2>1. PICK p \in Phases, o \in Owners : HeartbeatPhase(p, o, MaxLease)
    BY <1>2 DEF AnyHeartbeatPhase
  <2> DEFINE leases == [q \in Phases |-> IF q = p THEN MaxLease ELSE phase[q].lease]
  <2>2. /\ attempt' = attempt /\ today' = today
        /\ phase' = [phase EXCEPT ![p].lease = MaxLease]
        /\ phase[p].lease > 0
    BY <2>1 DEF HeartbeatPhase, OwnedAndLive
  <2>3. leases \in [Phases -> 0..MaxLease]
    BY DEF IInv, TypeOK, PhaseRow
  <2>4. phase' = [q \in Phases |-> [phase[q] EXCEPT !.lease = leases[q]]]
    BY <2>2 DEF IInv, TypeOK, PhaseRow
  <2>5. \A q \in Phases : phase[q].lease = 0 => leases[q] = 0
    BY <2>2
  <2>6. today' \in 0..MaxDay
    BY <2>2 DEF IInv, TypeOK
  <2> HIDE DEF leases
  <2> QED
    BY <2>2, <2>3, <2>4, <2>5, <2>6, LeaseInv
<1>3. CASE AnyBeginAttempt
  <2>1. PICK a \in Attempts, o \in Owners, amount \in Estimates : BeginAttempt(a, o, amount)
    BY <1>3 DEF AnyBeginAttempt
  <2>2. PlannedAttempt(amount) \in AttemptRow /\ IsUnsettled(PlannedAttempt(amount))
    BY DEF PlannedAttempt, NoAttempt, AttemptRow, TransportStates, BillingStates,
           CloseRequests, IsUnsettled
  <2> QED
    BY <2>1, <2>2, PendingAttemptInv DEF BeginAttempt, CanBeginAttempt, OwnedAndLive
<1>4. CASE AnyMarkDispatchIntent
  <2>1. PICK a \in Attempts, o \in Owners : MarkDispatchIntent(a, o)
    BY <1>4 DEF AnyMarkDispatchIntent
  <2> DEFINE row == [attempt[a] EXCEPT !.transport = "DISPATCH_INTENT_RECORDED",
                                       !.billing = "RESERVED"]
  <2>2. row \in AttemptRow /\ IsUnsettled(row)
    <3>1. attempt[a] \in AttemptRow
      BY DEF IInv, TypeOK
    <3> QED
      BY <3>1 DEF AttemptRow, TransportStates, BillingStates, IsUnsettled
  <2>3. attempt' = [attempt EXCEPT ![a] = row] /\ phase' = phase /\ today' = today
    BY <2>1 DEF MarkDispatchIntent, IInv, TypeOK
  <2>4. phase[PhaseOf[a]].state = "ACTIVE"
    BY <2>1 DEF MarkDispatchIntent, CanDispatch, OwnedAndLive
  <2> QED
    BY <2>2, <2>3, <2>4, PendingAttemptInv
<1>5. CASE AnyPreDispatchFailure
  <2>1. PICK a \in Attempts, o \in Owners, close \in {"none", "FAILED"} :
          RecordPreDispatchFailure(a, o, close)
    BY <1>5 DEF AnyPreDispatchFailure
  <2>2. /\ SettleAttempt(a, "LOCAL_FAILURE", "KNOWN_ZERO", 0, 0, close)
        /\ phase[PhaseOf[a]].state = "ACTIVE"
        /\ attempt[a].transport = "PLANNED"
        /\ close \in CloseRequests
    BY <2>1 DEF RecordPreDispatchFailure, OwnedAndLive, CloseRequests
  <2> QED
    BY <2>2, SettleInv DEF TransportStates, BillingStates
<1>6. CASE AnyAttemptOutcome
  <2>1. PICK a \in Attempts, o \in Owners, transport \in Transports, outcome \in Outcomes :
          RecordAttemptOutcome(a, o, transport, outcome)
    BY <1>6 DEF AnyAttemptOutcome
  <2> DEFINE liability == IF outcome.billing = "CONSERVATIVE_LIABILITY"
                          THEN attempt[a].estimate ELSE 0
  <2>2. /\ SettleAttempt(a, transport, outcome.billing, outcome.cost, liability,
                         outcome.close)
        /\ phase[PhaseOf[a]].state = "ACTIVE"
        /\ attempt[a].transport = "DISPATCH_INTENT_RECORDED"
    BY <2>1 DEF RecordAttemptOutcome, CanRecordOutcome, OwnedAndLive
  <2>3. /\ outcome.billing \in {"KNOWN_COST", "KNOWN_ZERO", "CONSERVATIVE_LIABILITY"}
        /\ outcome.cost \in Nat
        /\ outcome.close \in CloseRequests
    <3>1. CASE outcome \in [billing : {"KNOWN_COST"}, cost : Costs, close : CloseRequests]
      BY <3>1
    <3>2. CASE outcome \in [billing : {"KNOWN_ZERO"}, cost : {0}, close : CloseRequests]
      BY <3>2
    <3>3. CASE outcome \in [billing : {"CONSERVATIVE_LIABILITY"}, cost : {0},
                            close : CloseRequests \ {"none"}]
      BY <3>3
    <3> QED
      BY <3>1, <3>2, <3>3 DEF Outcomes
  <2>4. liability \in Nat
    BY DEF IInv, TypeOK, AttemptRow
  <2>5. transport \in {"RESPONSE_RECEIVED", "TRANSPORT_AMBIGUOUS", "LOCAL_FAILURE"}
    OBVIOUS
  <2> HIDE DEF liability
  <2> QED
    BY <2>2, <2>3, <2>4, <2>5, SettleInv DEF TransportStates, BillingStates
<1>7. CASE AnyCompletePhase
  BY <1>7, CompletePhaseInv DEF AnyCompletePhase
<1>8. CASE ExpireSome
  BY <1>8, ExpireInv DEF ExpireSome
<1>9. CASE AnyResolveLiability
  BY <1>9, ResolveInv DEF AnyResolveLiability
<1>10. CASE Tick
  <2> DEFINE leases == [q \in Phases |-> AtLeastZero(phase[q].lease - 1)]
  <2>1. /\ leases \in [Phases -> 0..MaxLease]
        /\ \A q \in Phases : phase[q].lease = 0 => leases[q] = 0
    BY DEF IInv, TypeOK, PhaseRow, AtLeastZero
  <2>2. phase' = [q \in Phases |-> [phase[q] EXCEPT !.lease = leases[q]]]
    BY <1>10 DEF Tick
  <2>3. attempt' = attempt /\ today' \in 0..MaxDay
    BY <1>10 DEF Tick, IInv, TypeOK
  <2> HIDE DEF leases
  <2> QED
    BY <2>1, <2>2, <2>3, LeaseInv
<1>11. CASE NextDay
  <2> DEFINE leases == [q \in Phases |-> phase[q].lease]
  <2>1. /\ leases \in [Phases -> 0..MaxLease]
        /\ \A q \in Phases : phase[q].lease = 0 => leases[q] = 0
    BY DEF IInv, TypeOK, PhaseRow
  <2>2. attempt' = attempt /\ phase' = phase /\ today' \in 0..MaxDay
    BY <1>11 DEF NextDay, ledger, IInv, TypeOK
  <2>3. phase' = [q \in Phases |-> [phase[q] EXCEPT !.lease = leases[q]]]
    BY <2>2 DEF IInv, TypeOK, PhaseRow
  <2> HIDE DEF leases
  <2> QED
    BY <2>1, <2>2, <2>3, LeaseInv
<1>12. CASE UNCHANGED vars
  BY <1>12 DEF vars, IInv, TypeOK, AttemptShape, ClosedPhaseSettled,
               CloseRequestAwaitsSibling, AttemptsOf, Unsettled, ActiveAttempts
<1> QED
  BY <1>1, <1>2, <1>3, <1>4, <1>5, <1>6, <1>7, <1>8, <1>9, <1>10, <1>11, <1>12 DEF Next

(* The inductive invariant holds in every reachable ledger.                 *)
THEOREM LedgerInvariant == Spec => []IInv
<1>1. Init => IInv
  BY InitInv
<1>2. IInv /\ [Next]_vars => IInv'
  BY StepInv
<1> QED
  BY <1>1, <1>2, PTL DEF Spec

(* The rows of the ledger only hold values of their columns.               *)
THEOREM LedgerTypeOK == Spec => []TypeOK
<1>1. IInv => TypeOK
  BY DEF IInv
<1> QED
  BY <1>1, LedgerInvariant, PTL

(* A closed phase has no pending attempt and holds no unspent reservation. *)
THEOREM LedgerClosedPhaseSettled == Spec => []ClosedPhaseSettled
<1>1. IInv => ClosedPhaseSettled
  BY DEF IInv
<1> QED
  BY <1>1, LedgerInvariant, PTL

(* A close that was asked for waits only for pending siblings: the last    *)
(* attempt to settle carries it out (_update_phase_after_attempt).         *)
THEOREM LedgerCloseRequestAwaitsSibling == Spec => []CloseRequestAwaitsSibling
<1>1. IInv => CloseRequestAwaitsSibling
  BY DEF IInv
<1> QED
  BY <1>1, LedgerInvariant, PTL

(* What one step does to the attempts: it plans, sends, drops, answers or  *)
(* resolves one of them, lapses those of the due phases, or leaves them.   *)
SettlesOne(a, transport, billing, known, liability, close) ==
  attempt' = [attempt EXCEPT ![a] = Settled(a, transport, billing, known, liability, close)]

AttemptsStep ==
  \/ attempt' = attempt
  \/ \E a \in Attempts, amount \in Estimates :
       /\ attempt[a].transport = "ABSENT"
       /\ attempt' = [attempt EXCEPT ![a] = PlannedAttempt(amount)]
  \/ \E a \in Attempts :
       /\ attempt[a].transport = "PLANNED" /\ attempt[a].billing = "RESERVED"
       /\ attempt' = [attempt EXCEPT ![a].transport = "DISPATCH_INTENT_RECORDED",
                                     ![a].billing = "RESERVED"]
  \/ \E a \in Attempts, close \in CloseRequests :
       /\ attempt[a].transport = "PLANNED" /\ attempt[a].billing = "RESERVED"
       /\ SettlesOne(a, "LOCAL_FAILURE", "KNOWN_ZERO", 0, 0, close)
  \/ \E a \in Attempts, transport \in Transports, close \in CloseRequests,
        billing \in {"KNOWN_COST", "KNOWN_ZERO", "CONSERVATIVE_LIABILITY"},
        known \in Nat, liability \in Nat :
       /\ attempt[a].transport = "DISPATCH_INTENT_RECORDED"
       /\ attempt[a].billing = "RESERVED"
       /\ SettlesOne(a, transport, billing, known, liability, close)
  \/ \E a \in Attempts, action \in ResolutionActions, cost \in Costs :
       ResolveLiability(a, action, cost)
  \/ ExpireDuePhaseLeases

(* Every step that touches an attempt is one of the forms of AttemptsStep. *)
LEMMA StepOfAttempts == IInv /\ [Next]_vars => AttemptsStep
<1> SUFFICES ASSUME IInv, [Next]_vars PROVE AttemptsStep
  OBVIOUS
<1> USE LedgerAssumption
<1>1. CASE \/ AnyBeginPhase \/ AnyHeartbeatPhase \/ AnyCompletePhase \/ Tick \/ NextDay
           \/ UNCHANGED vars
  BY <1>1 DEF AttemptsStep, AnyBeginPhase, BeginPhase, AnyHeartbeatPhase, HeartbeatPhase,
              AnyCompletePhase, CompletePhase, Tick, NextDay, ledger, vars
<1>2. CASE AnyBeginAttempt
  BY <1>2 DEF AttemptsStep, AnyBeginAttempt, BeginAttempt, CanBeginAttempt
<1>3. CASE AnyMarkDispatchIntent
  BY <1>3 DEF AttemptsStep, AnyMarkDispatchIntent, MarkDispatchIntent, CanDispatch
<1>4. CASE AnyPreDispatchFailure
  BY <1>4 DEF AttemptsStep, AnyPreDispatchFailure, RecordPreDispatchFailure, SettleAttempt,
              SettlesOne, CloseRequests
<1>5. CASE AnyAttemptOutcome
  <2>1. PICK a \in Attempts, o \in Owners, transport \in Transports, outcome \in Outcomes :
          RecordAttemptOutcome(a, o, transport, outcome)
    BY <1>5 DEF AnyAttemptOutcome
  <2> DEFINE liability == IF outcome.billing = "CONSERVATIVE_LIABILITY"
                          THEN attempt[a].estimate ELSE 0
  <2>2. /\ SettlesOne(a, transport, outcome.billing, outcome.cost, liability, outcome.close)
        /\ attempt[a].transport = "DISPATCH_INTENT_RECORDED"
        /\ attempt[a].billing = "RESERVED"
    BY <2>1 DEF RecordAttemptOutcome, CanRecordOutcome, SettleAttempt, SettlesOne
  <2>3. /\ outcome.billing \in {"KNOWN_COST", "KNOWN_ZERO", "CONSERVATIVE_LIABILITY"}
        /\ outcome.cost \in Nat
        /\ outcome.close \in CloseRequests
    <3>1. CASE outcome \in [billing : {"KNOWN_COST"}, cost : Costs, close : CloseRequests]
      BY <3>1
    <3>2. CASE outcome \in [billing : {"KNOWN_ZERO"}, cost : {0}, close : CloseRequests]
      BY <3>2
    <3>3. CASE outcome \in [billing : {"CONSERVATIVE_LIABILITY"}, cost : {0},
                            close : CloseRequests \ {"none"}]
      BY <3>3
    <3> QED
      BY <3>1, <3>2, <3>3 DEF Outcomes
  <2>4. liability \in Nat
    BY DEF IInv, TypeOK, AttemptRow
  <2> HIDE DEF liability
  <2> QED
    BY <2>2, <2>3, <2>4 DEF AttemptsStep
<1>6. CASE AnyResolveLiability
  BY <1>6 DEF AttemptsStep, AnyResolveLiability
<1>7. CASE ExpireSome
  BY <1>7 DEF AttemptsStep, ExpireSome
<1> QED
  BY <1>1, <1>2, <1>3, <1>4, <1>5, <1>6, <1>7 DEF Next

(* Settled money moves only by the resolution of an open liability.        *)
LEMMA SettledMoneyStep ==
  ASSUME IInv, AttemptsStep, NEW c \in Attempts,
         attempt[c].transport # "ABSENT", attempt'[c] # attempt[c]
  PROVE  Unsettled(c) \/ Reconcilable(c)
<1> USE DEF IInv, TypeOK, Unsettled, IsUnsettled
<1>1. CASE attempt' = attempt
  BY <1>1
<1>2. CASE \E a \in Attempts, amount \in Estimates :
             /\ attempt[a].transport = "ABSENT"
             /\ attempt' = [attempt EXCEPT ![a] = PlannedAttempt(amount)]
  BY <1>2
<1>3. CASE \E a \in Attempts :
             /\ attempt[a].transport = "PLANNED" /\ attempt[a].billing = "RESERVED"
             /\ attempt' = [attempt EXCEPT ![a].transport = "DISPATCH_INTENT_RECORDED",
                                           ![a].billing = "RESERVED"]
  BY <1>3
<1>4. CASE \E a \in Attempts, close \in CloseRequests :
             /\ attempt[a].transport = "PLANNED" /\ attempt[a].billing = "RESERVED"
             /\ SettlesOne(a, "LOCAL_FAILURE", "KNOWN_ZERO", 0, 0, close)
  BY <1>4 DEF SettlesOne
<1>5. CASE \E a \in Attempts, transport \in Transports, close \in CloseRequests,
              billing \in {"KNOWN_COST", "KNOWN_ZERO", "CONSERVATIVE_LIABILITY"},
              known \in Nat, liability \in Nat :
             /\ attempt[a].transport = "DISPATCH_INTENT_RECORDED"
             /\ attempt[a].billing = "RESERVED"
             /\ SettlesOne(a, transport, billing, known, liability, close)
  BY <1>5 DEF SettlesOne
<1>6. CASE \E a \in Attempts, action \in ResolutionActions, cost \in Costs :
             ResolveLiability(a, action, cost)
  BY <1>6 DEF ResolveLiability
<1>7. CASE ExpireDuePhaseLeases
  BY <1>7 DEF ExpireDuePhaseLeases
<1> QED
  BY <1>1, <1>2, <1>3, <1>4, <1>5, <1>6, <1>7 DEF AttemptsStep

(* The outcome recorded for an attempt is never rewritten but by an        *)
(* operator resolving an open liability.                                   *)
THEOREM LedgerSettledMoneyIsFinal == Spec => SettledMoneyIsFinal
<1>1. IInv /\ [Next]_vars =>
        [\A a \in Attempts :
           /\ attempt[a].transport # "ABSENT"
           /\ attempt'[a] # attempt[a]
           => Unsettled(a) \/ Reconcilable(a)]_vars
  BY StepOfAttempts, SettledMoneyStep
<1> QED
  BY <1>1, LedgerInvariant, PTL DEF Spec, SettledMoneyIsFinal

(* A phase whose lease has run out is touched by lease expiry alone: every *)
(* other operation demands a live lease or a phase that is not open.       *)
LapsedStep(p) ==
  /\ phase'[p].state = "FAILED"
  /\ \A a \in ActiveAttempts(p) :
       IF attempt[a].transport = "PLANNED"
       THEN attempt'[a].billing = "KNOWN_ZERO"
       ELSE /\ attempt'[a].billing = "CONSERVATIVE_LIABILITY"
            /\ attempt'[a].liability = attempt[a].estimate

Untouched(p) ==
  /\ phase'[p] = phase[p]
  /\ \A a \in AttemptsOf(p) : attempt'[a] = attempt[a]

(* After its lease lapsed a phase is only ever closed as FAILED: one case  *)
(* per action.                                                             *)
LEMMA LapsedPhaseStep ==
  ASSUME IInv, [Next]_vars, NEW p \in Phases,
         phase[p].state = "ACTIVE", phase[p].lease = 0
  PROVE  Untouched(p) \/ LapsedStep(p)
<1> USE LedgerAssumption DEF IInv, TypeOK, Untouched, AttemptsOf
<1>1. CASE AnyBeginPhase
  BY <1>1 DEF AnyBeginPhase, BeginPhase
<1>2. CASE AnyHeartbeatPhase
  BY <1>2 DEF AnyHeartbeatPhase, HeartbeatPhase, OwnedAndLive
<1>3. CASE AnyBeginAttempt
  BY <1>3 DEF AnyBeginAttempt, BeginAttempt, CanBeginAttempt, OwnedAndLive
<1>4. CASE AnyMarkDispatchIntent
  BY <1>4 DEF AnyMarkDispatchIntent, MarkDispatchIntent, CanDispatch, OwnedAndLive
<1>5. CASE AnyPreDispatchFailure
  BY <1>5 DEF AnyPreDispatchFailure, RecordPreDispatchFailure, SettleAttempt, OwnedAndLive
<1>6. CASE AnyAttemptOutcome
  BY <1>6 DEF AnyAttemptOutcome, RecordAttemptOutcome, CanRecordOutcome, SettleAttempt,
              OwnedAndLive
<1>7. CASE AnyCompletePhase
  BY <1>7 DEF AnyCompletePhase, CompletePhase, OwnedAndLive
<1>8. CASE ExpireSome
  <2>1. p \in DuePhases
    BY DEF DuePhases
  <2>2. phase'[p].state = "FAILED"
    BY <1>8, <2>1, ClosedPhaseRow DEF ExpireSome, ExpireDuePhaseLeases
  <2>3. ASSUME NEW a \in ActiveAttempts(p)
        PROVE  /\ attempt'[a] = ExpiredAttempt(a)
               /\ a \in Attempts /\ Unsettled(a)
    BY <1>8, <2>1
       DEF ExpireSome, ExpireDuePhaseLeases, ActiveAttempts, PendingIn, Unsettled
  <2> QED
    BY <2>2, <2>3, ExpiredAttemptRow DEF LapsedStep, Unsettled, IsUnsettled
<1>9. CASE AnyResolveLiability
  BY <1>9 DEF AnyResolveLiability, ResolveLiability, Reconcilable
<1>10. CASE Tick
  BY <1>10 DEF Tick, PhaseRow, AtLeastZero
<1>11. CASE NextDay \/ UNCHANGED vars
  BY <1>11 DEF NextDay, ledger, vars
<1> QED
  BY <1>1, <1>2, <1>3, <1>4, <1>5, <1>6, <1>7, <1>8, <1>9, <1>10, <1>11 DEF Next

(* An owner that lost its lease can neither call, record nor complete.     *)
THEOREM LedgerLapsedPhaseOnlyFails == Spec => LapsedPhaseOnlyFails
<1>1. IInv /\ [Next]_vars =>
        [\A p \in Phases :
           /\ phase[p].state = "ACTIVE" /\ phase[p].lease = 0
           /\ \/ phase'[p] # phase[p]
              \/ \E a \in AttemptsOf(p) : attempt'[a] # attempt[a]
           => /\ phase'[p].state = "FAILED"
              /\ \A a \in ActiveAttempts(p) :
                   IF attempt[a].transport = "PLANNED"
                   THEN attempt'[a].billing = "KNOWN_ZERO"
                   ELSE /\ attempt'[a].billing = "CONSERVATIVE_LIABILITY"
                        /\ attempt'[a].liability = attempt[a].estimate]_vars
  BY LapsedPhaseStep DEF Untouched, LapsedStep
<1> QED
  BY <1>1, LedgerInvariant, PTL DEF Spec, LapsedPhaseOnlyFails
-----------------------------------------------------------------------------
(* The attempts of the ledger implement CallCharges.                       *)

ChargeNow == [a \in Attempts |-> ChargeOf(attempt[a])]

\* A change of one attempt is a change of one charge.
LEMMA OneCharge ==
  ASSUME NEW a \in Attempts, NEW row, attempt \in [Attempts -> AttemptRow],
         attempt' = [attempt EXCEPT ![a] = row]
  PROVE  ChargeNow' = [ChargeNow EXCEPT ![a] = ChargeOf(row)]
  BY DEF ChargeNow

(* The ledger the cutover leaves is an initial state of CallCharges.       *)
LEMMA ChargesInit == Init => Charges!Init
<1> SUFFICES ASSUME Init PROVE Charges!Init
  OBVIOUS
<1>1. ChargeOf(NoAttempt) = "idle"
  BY DEF ChargeOf, NoAttempt
<1>2. \A amount : ChargeOf(KnownLegacy(amount)) = "charged"
  BY DEF ChargeOf, KnownLegacy, NoAttempt
<1>3. \A amount : ChargeOf(UnknownLegacy(amount)) = "owed"
  BY DEF ChargeOf, UnknownLegacy, NoAttempt
<1>4. \A a \in Attempts : ChargeOf(attempt[a]) \in {"idle", "owed", "charged"}
  BY <1>1, <1>2, <1>3 DEF Init, LegacyRows
<1> QED
  BY <1>4 DEF Charges!Init

(* Every step of the ledger is a step of CallCharges or leaves it alone.   *)
LEMMA ChargesStep ==
  ASSUME IInv, AttemptsStep
  PROVE  [Charges!Next]_ChargeNow
<1> USE DEF IInv, TypeOK
<1>1. CASE attempt' = attempt
  BY <1>1 DEF ChargeNow
<1>2. ASSUME NEW a \in Attempts, NEW amount \in Estimates,
             attempt[a].transport = "ABSENT",
             attempt' = [attempt EXCEPT ![a] = PlannedAttempt(amount)]
      PROVE  Charges!Next
  <2>1. ChargeNow[a] = "idle"
    BY <1>2 DEF ChargeNow, ChargeOf, AttemptShape
  <2>2. ChargeOf(PlannedAttempt(amount)) = "planned"
    BY DEF ChargeOf, PlannedAttempt, NoAttempt
  <2>3. ChargeNow' = [ChargeNow EXCEPT ![a] = "planned"]
    BY <1>2, <2>2, OneCharge
  <2> QED
    BY <2>1, <2>3 DEF Charges!Next, Charges!Plan, ChargeNow
<1>3. ASSUME NEW a \in Attempts,
             attempt[a].transport = "PLANNED", attempt[a].billing = "RESERVED",
             attempt' = [attempt EXCEPT ![a].transport = "DISPATCH_INTENT_RECORDED",
                                        ![a].billing = "RESERVED"]
      PROVE  Charges!Next
  <2> DEFINE row == [attempt[a] EXCEPT !.transport = "DISPATCH_INTENT_RECORDED",
                                       !.billing = "RESERVED"]
  <2>1. ChargeNow[a] = "planned"
    BY <1>3 DEF ChargeNow, ChargeOf
  <2>2. attempt' = [attempt EXCEPT ![a] = row]
    BY <1>3
  <2>3. ChargeOf(row) = "sent"
    BY DEF ChargeOf, AttemptRow
  <2>4. ChargeNow' = [ChargeNow EXCEPT ![a] = "sent"]
    BY <2>2, <2>3, OneCharge
  <2> QED
    BY <2>1, <2>4 DEF Charges!Next, Charges!Send, ChargeNow
<1>4. ASSUME NEW a \in Attempts, NEW close \in CloseRequests,
             attempt[a].transport = "PLANNED", attempt[a].billing = "RESERVED",
             SettlesOne(a, "LOCAL_FAILURE", "KNOWN_ZERO", 0, 0, close)
      PROVE  Charges!Next
  <2>1. ChargeNow[a] = "planned"
    BY <1>4 DEF ChargeNow, ChargeOf
  <2>2. ChargeOf(Settled(a, "LOCAL_FAILURE", "KNOWN_ZERO", 0, 0, close)) = "free"
    BY DEF ChargeOf, Settled, AttemptRow
  <2>3. ChargeNow' = [ChargeNow EXCEPT ![a] = "free"]
    BY <1>4, <2>2, OneCharge DEF SettlesOne
  <2> QED
    BY <2>1, <2>3 DEF Charges!Next, Charges!Drop, ChargeNow
<1>5. ASSUME NEW a \in Attempts, NEW transport \in Transports, NEW close \in CloseRequests,
             NEW billing \in {"KNOWN_COST", "KNOWN_ZERO", "CONSERVATIVE_LIABILITY"},
             NEW known \in Nat, NEW liability \in Nat,
             attempt[a].transport = "DISPATCH_INTENT_RECORDED",
             attempt[a].billing = "RESERVED",
             SettlesOne(a, transport, billing, known, liability, close)
      PROVE  Charges!Next
  <2> DEFINE answer == ChargeOf(Settled(a, transport, billing, known, liability, close))
  <2>1. ChargeNow[a] = "sent"
    BY <1>5 DEF ChargeNow, ChargeOf
  <2>2. answer \in {"owed", "charged", "free"}
    <3>1. Settled(a, transport, billing, known, liability, close).billing = billing
      BY DEF Settled, AttemptRow
    <3> QED
      BY <3>1 DEF ChargeOf
  <2>3. ChargeNow' = [ChargeNow EXCEPT ![a] = answer]
    BY <1>5, OneCharge DEF SettlesOne
  <2> HIDE DEF answer
  <2> QED
    BY <2>1, <2>2, <2>3 DEF Charges!Next, Charges!Answer, ChargeNow
<1>6. ASSUME NEW a \in Attempts, NEW action \in ResolutionActions, NEW cost \in Costs,
             ResolveLiability(a, action, cost)
      PROVE  Charges!Next
  <2> DEFINE actual == [attempt[a] EXCEPT !.billing = "KNOWN_COST", !.known = cost,
                                          !.liability = 0]
             owed   == [attempt[a] EXCEPT !.billing = "LIABILITY_CONFIRMED"]
             zero   == [attempt[a] EXCEPT !.billing = "KNOWN_ZERO", !.liability = 0]
  <2>1. ChargeNow[a] = "owed"
    BY <1>6 DEF ResolveLiability, Reconcilable, ChargeNow, ChargeOf
  <2>2. \E row \in {actual, owed, zero} : attempt' = [attempt EXCEPT ![a] = row]
    BY <1>6 DEF ResolveLiability
  <2>3. /\ ChargeOf(actual) = "charged" /\ ChargeOf(owed) = "charged"
        /\ ChargeOf(zero) = "free"
    BY DEF ChargeOf, AttemptRow
  <2> HIDE DEF actual, owed, zero
  <2>4. \E decision \in {"charged", "free"} :
          ChargeNow' = [ChargeNow EXCEPT ![a] = decision]
    BY <2>2, <2>3, OneCharge
  <2> QED
    BY <2>1, <2>4 DEF Charges!Next, Charges!Resolve, ChargeNow
<1>7. CASE ExpireDuePhaseLeases
  <2> DEFINE S == {a \in Attempts : PhaseOf[a] \in DuePhases /\ Unsettled(a)}
  <2>1. \A a \in S : ChargeNow[a] = IF attempt[a].transport = "DISPATCH_INTENT_RECORDED"
                                    THEN "sent" ELSE "planned"
    BY DEF ChargeNow, ChargeOf, Unsettled, IsUnsettled
  <2>2. ASSUME NEW a \in Attempts
        PROVE  ChargeNow'[a] = IF a \notin S THEN ChargeNow[a]
                               ELSE IF ChargeNow[a] = "sent" THEN "owed" ELSE "free"
    <3>1. CASE a \in S
      <4>1. attempt'[a] = ExpiredAttempt(a)
        BY <1>7, <3>1 DEF ExpireDuePhaseLeases
      <4>2. ChargeOf(ExpiredAttempt(a)) =
              IF attempt[a].transport = "DISPATCH_INTENT_RECORDED" THEN "owed" ELSE "free"
        BY <3>1, ExpiredAttemptRow DEF ChargeOf
      <4> QED
        BY <2>1, <3>1, <4>1, <4>2 DEF ChargeNow
    <3>2. CASE a \notin S
      BY <1>7, <3>2 DEF ExpireDuePhaseLeases, ChargeNow
    <3> QED
      BY <3>1, <3>2
  <2>3. ChargeNow' = [a \in Attempts |-> IF a \notin S THEN ChargeNow[a]
                        ELSE IF ChargeNow[a] = "sent" THEN "owed" ELSE "free"]
    BY <2>2 DEF ChargeNow
  <2>4. S \in SUBSET Attempts
    OBVIOUS
  <2> HIDE DEF S
  <2> QED
    BY <2>1, <2>3, <2>4 DEF Charges!Next, Charges!Lapse, ChargeNow
<1> QED
  BY <1>1, <1>2, <1>3, <1>4, <1>5, <1>6, <1>7 DEF AttemptsStep

(* The ledger implements the promise CallCharges makes of each call.       *)
THEOREM LedgerImplementsCallCharges == Spec => ImplementsCallCharges
<1>1. Init => Charges!Init
  BY ChargesInit
<1>2. IInv /\ [Next]_vars => [Charges!Next]_ChargeNow
  BY StepOfAttempts, ChargesStep
<1> QED
  BY <1>1, <1>2, LedgerInvariant, PTL
     DEF Spec, ImplementsCallCharges, Charges!Spec, ChargeNow

-----------------------------------------------------------------------------
(* The money. What a call has cost counts up to its estimate; the rest is  *)
(* its overrun. A phase weighs what its calls count and what it reserves.  *)

(* The smaller of two amounts.                                             *)
Lesser(m, n) == IF m < n THEN m ELSE n

(* What each call in flight holds of its phase (reserved_micro_usd).       *)
Reserves == [a \in Attempts |-> attempt[a].reservation]

(* What each call has cost or may owe, up to the estimate it was let out   *)
(* with.                                                                   *)
Counts ==
  [a \in Attempts |-> Lesser(attempt[a].known + attempt[a].liability, attempt[a].estimate)]

(* What it has cost or may owe beyond that estimate.                       *)
Overruns ==
  [a \in Attempts |-> AtLeastZero(attempt[a].known + attempt[a].liability - attempt[a].estimate)]

(* The same three amounts, added over the calls of a phase.                *)
CountedBy(p) == SumFunctionOnSet(Counts, AttemptsOf(p))

OverrunBy(p) == SumFunctionOnSet(Overruns, AttemptsOf(p))

ReservedIn(p) == SumFunctionOnSet(Reserves, AttemptsOf(p))

(* What a phase weighs against a cap: its counted spend and the larger of  *)
(* its own reservation and what its calls hold (_exposure).                *)
Weight(p) == CountedBy(p) + ReservationExposure(p)

(* The weights, and the old spend of a set of phases, as functions.        *)
Weights == [p \in Phases |-> Weight(p)]

Legacies == [P \in SUBSET Phases |-> LegacyOf(P)]

(* The larger of a cap and the old spend the cutover brought in.           *)
CapOf(legacy, limit) == IF legacy > limit THEN legacy ELSE limit

(* A set of phases is within its cap, or under an old spend beyond it.     *)
WeighedBy(P, limit) ==
  limit = None \/ SumFunctionOnSet(Weights, P) <= CapOf(Legacies[P], limit)

(* What the columns of one attempt say about its money.                    *)
MoneyShape ==
  /\ \A a \in Attempts :
       /\ attempt[a].billing = "RESERVED" =>
            /\ attempt[a].known = 0 /\ attempt[a].liability = 0
            /\ attempt[a].reservation = attempt[a].estimate
       /\ attempt[a].billing = "ABSENT" =>
            /\ attempt[a].known = 0 /\ attempt[a].liability = 0
            /\ attempt[a].estimate = 0 /\ ~attempt[a].legacy
       /\ attempt[a].billing \in {"CONSERVATIVE_LIABILITY", "UNKNOWN_LEGACY"} =>
            attempt[a].liability = attempt[a].estimate
  /\ \A p \in Phases : phase[p].state = "ABSENT" => phase[p].bucket = None

(* An open phase keeps what its calls in flight hold, but for overruns.    *)
PhaseCovers(p) ==
  phase[p].state = "ACTIVE" => ReservedIn(p) <= phase[p].reservation + OverrunBy(p)

(* Every bucket of a day and every run is.                                 *)
CapsHold ==
  /\ \A b \in Buckets, d \in 0..MaxDay : WeighedBy(PhasesOfDay(b, d), BucketLimit[b])
  /\ \A r \in Runs : WeighedBy(PhasesOfRun(r), RunLimit)

(* The inductive invariant of the money, beside IInv.                      *)
MoneyInv ==
  /\ MoneyShape
  /\ \A p \in Phases : PhaseCovers(p)
  /\ CapsHold

-----------------------------------------------------------------------------
(* Amounts are naturals, and so are their sums.                            *)
LEMMA AmountTypes ==
  ASSUME TypeOK
  PROVE  \A a \in Attempts : /\ Reserves[a] \in Nat /\ Counts[a] \in Nat /\ Overruns[a] \in Nat
                             /\ attempt[a].known + attempt[a].liability
                                  = Counts[a] + Overruns[a]
  BY DEF TypeOK, AttemptRow, Reserves, Counts, Overruns, Lesser, AtLeastZero

(* Every set of rows that is added up is finite.                           *)
LEMMA FiniteRows ==
  /\ \A p \in Phases : IsFiniteSet(AttemptsOf(p))
  /\ \A P : IsFiniteSet(AttemptsIn(P))
  /\ \A P \in SUBSET Phases : IsFiniteSet(P)
<1> USE LedgerAssumption
<1>1. \A T \in SUBSET Attempts : IsFiniteSet(T)
  BY FS_Subset
<1>2. \A T \in SUBSET Phases : IsFiniteSet(T)
  BY FS_Subset
<1> QED
  BY <1>1, <1>2 DEF AttemptsOf, AttemptsIn

(* The sums of a phase are naturals; its exposure is the larger of two.    *)
MoneyTyped ==
  \A p \in Phases :
    /\ CountedBy(p) \in Nat /\ OverrunBy(p) \in Nat /\ ReservedIn(p) \in Nat
    /\ phase[p].reservation \in Nat
    /\ ReservationExposure(p) \in Nat
    /\ ReservationExposure(p) = IF phase[p].reservation > ReservedIn(p)
                                THEN phase[p].reservation ELSE ReservedIn(p)
    /\ Weights[p] = CountedBy(p) + ReservationExposure(p)
    /\ Weights[p] \in Nat

(* Well-typed rows have such sums.                                         *)
LEMMA SumTypes == TypeOK => MoneyTyped
<1> SUFFICES ASSUME TypeOK, NEW p \in Phases
             PROVE  /\ CountedBy(p) \in Nat /\ OverrunBy(p) \in Nat /\ ReservedIn(p) \in Nat
                    /\ phase[p].reservation \in Nat
                    /\ ReservationExposure(p) \in Nat
                    /\ ReservationExposure(p) = IF phase[p].reservation > ReservedIn(p)
                                                THEN phase[p].reservation ELSE ReservedIn(p)
                    /\ Weights[p] = CountedBy(p) + ReservationExposure(p)
                    /\ Weights[p] \in Nat
  BY DEF MoneyTyped
<1>1. IsFiniteSet(AttemptsOf(p)) /\ \A a \in AttemptsOf(p) : a \in Attempts
  BY FiniteRows DEF AttemptsOf
<1>2. CountedBy(p) \in Nat
  BY <1>1, AmountTypes, SumNat DEF CountedBy
<1>3. OverrunBy(p) \in Nat
  BY <1>1, AmountTypes, SumNat DEF OverrunBy
<1>4. ReservedIn(p) \in Nat
  BY <1>1, AmountTypes, SumNat DEF ReservedIn
<1>5. ReservedBy(AttemptsOf(p)) = ReservedIn(p)
  BY DEF ReservedBy, ReservedIn, Reserves
<1>6. phase[p].reservation \in Nat
  BY DEF TypeOK, PhaseRow
<1> QED
  BY <1>2, <1>3, <1>4, <1>5, <1>6 DEF ReservationExposure, Weights, Weight

(* The same of the next state.                                             *)
LEMMA SumTypesNext == TypeOK' => MoneyTyped'
  BY SumTypes, PTL

(* Summing over the phases what their calls have summed up.                *)
LEMMA SumByPhases ==
  ASSUME NEW f, \A a \in Attempts : f[a] \in Int, NEW P \in SUBSET Phases,
         NEW g, \A p \in P : g[p] = SumFunctionOnSet(f, AttemptsOf(p))
  PROVE  SumFunctionOnSet(g, P) = SumFunctionOnSet(f, AttemptsIn(P))
<1>1. IsFiniteSet(Attempts) /\ IsFiniteSet(P)
  BY FiniteRows, LedgerAssumption
<1>2. \A p \in P : g[p] = SumFunctionOnSet(f, {a \in Attempts : PhaseOf[a] = p})
  BY Zenon DEF AttemptsOf
<1>3. SumFunctionOnSet(g, P) = SumFunctionOnSet(f, {a \in Attempts : PhaseOf[a] \in P})
  BY <1>1, <1>2, SumByGroups, SMTT(60)
<1> QED
  BY <1>3, Zenon DEF AttemptsIn

(* The old spend of some phases is a natural amount.                       *)
LEMMA LegacyType ==
  ASSUME TypeOK, NEW P
  PROVE  LegacyOf(P) \in Nat
<1> DEFINE estimates == [a \in Attempts |-> attempt[a].estimate]
           S == {a \in AttemptsIn(P) : attempt[a].legacy}
<1>1. IsFiniteSet(S)
  BY FiniteRows, FS_Subset
<1>2. \A a \in S : estimates[a] \in Nat
  BY DEF TypeOK, AttemptRow, AttemptsIn
<1> HIDE DEF estimates, S
<1>3. SumFunctionOnSet(estimates, S) \in Nat
  BY <1>1, <1>2, SumNat
<1> QED
  BY <1>3 DEF LegacyOf, estimates, S

(* Only calls in flight reserve anything.                                  *)
LEMMA OnlyPendingReserve ==
  ASSUME IInv, NEW p \in Phases
  PROVE  ReservedBy(ActiveAttempts(p)) = ReservedIn(p)
<1>1. ActiveAttempts(p) \in SUBSET AttemptsOf(p)
  BY DEF ActiveAttempts, PendingIn
<1>2. \A a \in AttemptsOf(p) \ ActiveAttempts(p) : Reserves[a] = 0
  BY DEF IInv, AttemptShape, ActiveAttempts, PendingIn, IsUnsettled, AttemptsOf, Reserves
<1>3. \A a \in AttemptsOf(p) : Reserves[a] \in Int
  BY AmountTypes DEF IInv, AttemptsOf
<1>4. SumFunctionOnSet(Reserves, AttemptsOf(p)) = SumFunctionOnSet(Reserves, ActiveAttempts(p))
  BY <1>1, <1>2, <1>3, FiniteRows, SumSupport
<1> QED
  BY <1>4 DEF ReservedBy, ReservedIn, Reserves

(* What phases weigh is what their calls count and what they reserve.      *)
LEMMA WeightOfMany ==
  ASSUME TypeOK, NEW P \in SUBSET Phases
  PROVE  /\ SumFunctionOnSet(Weights, P)
              = SumFunctionOnSet(Counts, AttemptsIn(P))
                + SumFunctionOnSet([p \in Phases |-> ReservationExposure(p)], P)
         /\ SumFunctionOnSet(Counts, AttemptsIn(P)) \in Nat
         /\ SumFunctionOnSet([p \in Phases |-> ReservationExposure(p)], P) \in Nat
<1> DEFINE counted == [p \in Phases |-> CountedBy(p)]
           exposed == [p \in Phases |-> ReservationExposure(p)]
<1>1. IsFiniteSet(P) /\ IsFiniteSet(AttemptsIn(P)) /\ IsFiniteSet(Attempts)
  BY FiniteRows, LedgerAssumption
<1>2. \A p \in P : /\ counted[p] \in Nat /\ exposed[p] \in Nat
                   /\ Weights[p] = counted[p] + exposed[p]
  BY SumTypes DEF MoneyTyped
<1>3. \A p \in P : counted[p] = SumFunctionOnSet(Counts, AttemptsOf(p))
  BY DEF CountedBy
<1>4. \A a \in Attempts : Counts[a] \in Nat
  BY AmountTypes
<1> HIDE DEF counted, exposed
<1>5. SumFunctionOnSet(counted, P) = SumFunctionOnSet(Counts, AttemptsIn(P))
  BY <1>3, <1>4, SumByPhases
<1>6. SumFunctionOnSet(Weights, P) = SumFunctionOnSet(counted, P) + SumFunctionOnSet(exposed, P)
  BY <1>1, <1>2, SumPlus
<1>7. SumFunctionOnSet(Counts, AttemptsIn(P)) \in Nat /\ SumFunctionOnSet(exposed, P) \in Nat
  BY <1>1, <1>2, <1>4, SumNat DEF AttemptsIn
<1> QED
  BY <1>5, <1>6, <1>7 DEF exposed

(* What the calls of some phases cost and owe and what the open ones of    *)
(* them still reserve is at most what they weigh and overran.              *)
LEMMA CommittedIsWeighed ==
  ASSUME TypeOK, NEW P \in SUBSET Phases
  PROVE  /\ Committed(P) <= Overrun(P) + SumFunctionOnSet(Weights, P)
         /\ Committed(P) \in Int /\ Overrun(P) \in Int
         /\ SumFunctionOnSet(Weights, P) \in Int
<1> DEFINE S == AttemptsIn(P)
           spent == [a \in Attempts |-> attempt[a].known + attempt[a].liability]
           exposed == [p \in Phases |-> ReservationExposure(p)]
           open == {p \in P : phase[p].state = "ACTIVE"}
<1>1. IsFiniteSet(P) /\ IsFiniteSet(S) /\ S \subseteq Attempts /\ open \in SUBSET P
  BY FiniteRows DEF AttemptsIn
<1>2. \A a \in S : /\ Counts[a] \in Nat /\ Overruns[a] \in Nat
                   /\ spent[a] = Overruns[a] + Counts[a]
  BY <1>1, AmountTypes
<1>3. \A p \in P : exposed[p] \in Nat
  BY SumTypes DEF MoneyTyped
<1>4. /\ Committed(P) = SumFunctionOnSet(spent, S) + SumFunctionOnSet(exposed, open)
      /\ Overrun(P) = SumFunctionOnSet(Overruns, S)
  BY DEF Committed, ActiveReservation, Overrun, Overruns
<1>5. SumFunctionOnSet(Weights, P) = SumFunctionOnSet(Counts, S) + SumFunctionOnSet(exposed, P)
      /\ SumFunctionOnSet(Counts, S) \in Nat /\ SumFunctionOnSet(exposed, P) \in Nat
  BY WeightOfMany
<1> HIDE DEF spent, exposed, S, open
<1>6. SumFunctionOnSet(spent, S) = SumFunctionOnSet(Overruns, S) + SumFunctionOnSet(Counts, S)
  BY <1>1, <1>2, SumPlus
<1>7. SumFunctionOnSet(exposed, open) <= SumFunctionOnSet(exposed, P)
  BY <1>1, <1>3, SumSubset
<1>8. SumFunctionOnSet(Overruns, S) \in Nat
  BY <1>1, <1>2, SumNat
<1>9. SumFunctionOnSet(exposed, open) \in Nat
  <2>1. IsFiniteSet(open) /\ \A p \in open : exposed[p] \in Nat
    BY <1>1, <1>3, FS_Subset
  <2> QED
    BY <2>1, SumNat
<1> QED
  BY <1>4, <1>5, <1>6, <1>7, <1>8, <1>9

(* What phases have committed is within the cap that their weight is in.   *)
LEMMA WeighedIsCapped ==
  ASSUME TypeOK, NEW P \in SUBSET Phases, NEW limit \in Nat \cup {None},
         WeighedBy(P, limit)
  PROVE  CappedBy(P, limit)
<1>1. CapOf(Legacies[P], limit) = (IF LegacyOf(P) > limit THEN LegacyOf(P) ELSE limit)
  BY DEF CapOf, Legacies
<1>2. LegacyOf(P) \in Nat
  BY LegacyType
<1>3. CASE limit # None
  BY <1>1, <1>2, <1>3, CommittedIsWeighed DEF WeighedBy, CappedBy
<1> QED
  BY <1>3 DEF CappedBy

(* The invariant says what the two properties say.                         *)
LEMMA MoneyIsRight ==
  ASSUME IInv, MoneyInv
  PROVE  PendingWithinReservation /\ SpendWithinCaps
<1> USE LedgerAssumption
<1>1. TypeOK
  BY DEF IInv
<1>2. ASSUME NEW P \in SUBSET Phases, NEW limit \in Nat \cup {None}, WeighedBy(P, limit)
      PROVE  CappedBy(P, limit)
  BY <1>1, <1>2, WeighedIsCapped
<1>3. SpendWithinCaps
  <2>1. \A b \in Buckets, d \in 0..MaxDay : PhasesOfDay(b, d) \in SUBSET Phases
    BY DEF PhasesOfDay, PhasesOfBucket
  <2>2. \A r \in Runs : PhasesOfRun(r) \in SUBSET Phases
    BY DEF PhasesOfRun
  <2> QED
    BY <1>2, <2>1, <2>2 DEF SpendWithinCaps, MoneyInv, CapsHold
<1>4. PendingWithinReservation
  <2> SUFFICES ASSUME NEW p \in Phases, phase[p].state = "ACTIVE"
               PROVE  ReservedBy(ActiveAttempts(p)) <= phase[p].reservation + Overrun({p})
    BY DEF PendingWithinReservation
  <2>1. AttemptsIn({p}) = AttemptsOf(p)
    BY DEF AttemptsIn, AttemptsOf
  <2>2. Overrun({p}) = OverrunBy(p)
    BY <2>1 DEF Overrun, OverrunBy, Overruns
  <2> QED
    BY <2>2, OnlyPendingReserve DEF MoneyInv, PhaseCovers
<1> QED
  BY <1>3, <1>4

-----------------------------------------------------------------------------
(* What a step does to the money of one phase.                             *)

(* A step that leaves the calls of a phase as they are leaves their sums.  *)
LEMMA SumsStay ==
  ASSUME NEW p \in Phases, TypeOK, \A a \in AttemptsOf(p) : attempt'[a] = attempt[a]
  PROVE  /\ CountedBy(p)' = CountedBy(p)
         /\ OverrunBy(p)' = OverrunBy(p)
         /\ ReservedIn(p)' = ReservedIn(p)
<1>1. /\ IsFiniteSet(AttemptsOf(p))
      /\ \A a \in AttemptsOf(p) : a \in Attempts
      /\ \A a \in AttemptsOf(p) :
           Counts[a] \in Int /\ Overruns[a] \in Int /\ Reserves[a] \in Int
  BY FiniteRows, AmountTypes DEF AttemptsOf
<1>2. \A a \in AttemptsOf(p) :
        Counts'[a] = Counts[a] /\ Overruns'[a] = Overruns[a] /\ Reserves'[a] = Reserves[a]
  BY <1>1 DEF Counts, Overruns, Reserves
<1>3. SumFunctionOnSet(Counts', AttemptsOf(p)) = SumFunctionOnSet(Counts, AttemptsOf(p))
  BY <1>1, <1>2, SumSame
<1>4. SumFunctionOnSet(Overruns', AttemptsOf(p)) = SumFunctionOnSet(Overruns, AttemptsOf(p))
  BY <1>1, <1>2, SumSame
<1>5. SumFunctionOnSet(Reserves', AttemptsOf(p)) = SumFunctionOnSet(Reserves, AttemptsOf(p))
  BY <1>1, <1>2, SumSame
<1> QED
  BY <1>3, <1>4, <1>5 DEF CountedBy, OverrunBy, ReservedIn, AttemptsOf

(* A step on one call changes the sums of its phase by what it changes of  *)
(* that call.                                                              *)
LEMMA SumsChange ==
  ASSUME TypeOK, NEW a \in Attempts, NEW row \in AttemptRow,
         attempt' = [attempt EXCEPT ![a] = row]
  PROVE  LET p == PhaseOf[a] IN
         /\ CountedBy(p)' = CountedBy(p) - Counts[a] + Counts'[a]
         /\ OverrunBy(p)' = OverrunBy(p) - Overruns[a] + Overruns'[a]
         /\ ReservedIn(p)' = ReservedIn(p) - Reserves[a] + Reserves'[a]
<1> DEFINE S == AttemptsOf(PhaseOf[a])
<1>1. IsFiniteSet(S) /\ a \in S /\ \A c \in S : c \in Attempts
  BY FiniteRows, LedgerAssumption DEF AttemptsOf
<1>2. attempt' \in [Attempts -> AttemptRow] /\ \A c \in S \ {a} : attempt'[c] = attempt[c]
  BY <1>1 DEF TypeOK
<1>3. \A c \in S : /\ Counts[c] \in Int /\ Overruns[c] \in Int /\ Reserves[c] \in Int
                   /\ Counts'[c] \in Int /\ Overruns'[c] \in Int /\ Reserves'[c] \in Int
  BY <1>1, <1>2 DEF TypeOK, AttemptRow, Reserves, Counts, Overruns, Lesser, AtLeastZero
<1>4. \A c \in S \ {a} : Counts'[c] = Counts[c] /\ Overruns'[c] = Overruns[c]
                         /\ Reserves'[c] = Reserves[c]
  BY <1>1, <1>2 DEF Counts, Overruns, Reserves
<1>5. SumFunctionOnSet(Counts', S) = SumFunctionOnSet(Counts, S) - Counts[a] + Counts'[a]
  BY <1>1, <1>3, <1>4, SumChange
<1>6. SumFunctionOnSet(Overruns', S) = SumFunctionOnSet(Overruns, S) - Overruns[a] + Overruns'[a]
  BY <1>1, <1>3, <1>4, SumChange
<1>7. SumFunctionOnSet(Reserves', S) = SumFunctionOnSet(Reserves, S) - Reserves[a] + Reserves'[a]
  BY <1>1, <1>3, <1>4, SumChange
<1> QED
  BY <1>5, <1>6, <1>7 DEF CountedBy, OverrunBy, ReservedIn, AttemptsOf

-----------------------------------------------------------------------------
(* A phase became no heavier, and still covers its calls in flight.        *)
Eases(p) == Weights'[p] <= Weights[p] /\ PhaseCovers(p)'

(* No phase appears, changes its bucket or its day, and no old spend does. *)
RowsKept ==
  /\ \A p \in Phases :
       /\ phase'[p].bucket = phase[p].bucket /\ phase'[p].day = phase[p].day
       /\ phase'[p].state = "ABSENT" <=> phase[p].state = "ABSENT"
  /\ \A a \in Attempts :
       /\ attempt'[a].legacy = attempt[a].legacy
       /\ attempt[a].legacy => attempt'[a].estimate = attempt[a].estimate

(* Old spend is a constant.                                                *)
LEMMA LegacyStays ==
  ASSUME TypeOK, RowsKept, NEW P
  PROVE  LegacyOf(P)' = LegacyOf(P)
<1> DEFINE S == {a \in AttemptsIn(P) : attempt[a].legacy}
           before == [a \in Attempts |-> attempt[a].estimate]
           after == [a \in Attempts |-> attempt'[a].estimate]
<1>1. {a \in AttemptsIn(P) : attempt'[a].legacy} = S
  BY DEF RowsKept, AttemptsIn
<1>2. IsFiniteSet(S)
  BY FiniteRows, FS_Subset
<1>3. \A a \in S : before[a] \in Int /\ after[a] = before[a]
  BY DEF TypeOK, AttemptRow, RowsKept, AttemptsIn
<1>4. LegacyOf(P)' = SumFunctionOnSet(after, S) /\ LegacyOf(P) = SumFunctionOnSet(before, S)
  BY <1>1 DEF LegacyOf, AttemptsIn
<1> HIDE DEF S, before, after
<1>5. SumFunctionOnSet(after, S) = SumFunctionOnSet(before, S)
  BY <1>2, <1>3, SumSame
<1> QED
  BY <1>4, <1>5

(* Phases that became no heavier stay within the cap they were within.     *)
LEMMA LighterStays ==
  ASSUME TypeOK, TypeOK', RowsKept, \A p \in Phases : Weights'[p] <= Weights[p],
         NEW P \in SUBSET Phases, NEW limit \in Nat \cup {None}, WeighedBy(P, limit)
  PROVE  limit = None \/ SumFunctionOnSet(Weights', P) <= CapOf(Legacies'[P], limit)
<1>1. SumFunctionOnSet(Weights', P) <= SumFunctionOnSet(Weights, P)
  <2>1. \A p \in P : Weights'[p] \in Int /\ Weights[p] \in Int /\ Weights'[p] <= Weights[p]
    BY SumTypes, SumTypesNext DEF MoneyTyped
  <2> QED
    BY <2>1, FiniteRows, SumMonotone
<1>2. /\ SumFunctionOnSet(Weights', P) \in Int /\ SumFunctionOnSet(Weights, P) \in Int
  <2>1. \A p \in P : Weights'[p] \in Int /\ Weights[p] \in Int
    BY SumTypes, SumTypesNext DEF MoneyTyped
  <2> QED
    BY <2>1, FiniteRows, SumInt
<1>3. Legacies'[P] = Legacies[P] /\ Legacies[P] \in Nat
  BY LegacyStays, LegacyType DEF Legacies
<1>4. CASE limit # None
  <2>1. CapOf(Legacies[P], limit) \in Nat
    BY <1>3, <1>4 DEF CapOf
  <2>2. SumFunctionOnSet(Weights, P) <= CapOf(Legacies[P], limit)
    BY <1>4 DEF WeighedBy
  <2> QED
    BY <1>1, <1>2, <1>3, <2>1, <2>2
<1> QED
  BY <1>4

(* A step that makes no phase heavier keeps every cap.                     *)
LEMMA CapsStay ==
  ASSUME TypeOK, TypeOK', RowsKept, CapsHold,
         \A p \in Phases : Weights'[p] <= Weights[p]
  PROVE  CapsHold'
<1> USE LedgerAssumption
<1>1. ASSUME NEW P \in SUBSET Phases, NEW limit \in Nat \cup {None}, WeighedBy(P, limit)
      PROVE  limit = None \/ SumFunctionOnSet(Weights', P) <= CapOf(Legacies'[P], limit)
  BY <1>1, LighterStays
<1>2. ASSUME NEW b \in Buckets, NEW d \in 0..MaxDay
      PROVE  WeighedBy(PhasesOfDay(b, d), BucketLimit[b])'
  <2>1. PhasesOfDay(b, d)' = PhasesOfDay(b, d) /\ PhasesOfDay(b, d) \in SUBSET Phases
    BY DEF PhasesOfDay, PhasesOfBucket, RowsKept
  <2>2. WeighedBy(PhasesOfDay(b, d), BucketLimit[b])
    BY DEF CapsHold
  <2> QED
    BY <1>1, <2>1, <2>2 DEF WeighedBy
<1>3. ASSUME NEW r \in Runs
      PROVE  WeighedBy(PhasesOfRun(r), RunLimit)'
  <2>1. PhasesOfRun(r)' = PhasesOfRun(r) /\ PhasesOfRun(r) \in SUBSET Phases
    BY DEF PhasesOfRun, RowsKept
  <2>2. WeighedBy(PhasesOfRun(r), RunLimit)
    BY DEF CapsHold
  <2> QED
    BY <1>1, <2>1, <2>2 DEF WeighedBy
<1> QED
  BY <1>2, <1>3 DEF CapsHold

(* A phase with the sums and the reservation it had is as it was.          *)
LEMMA SameSumsEase ==
  ASSUME TypeOK, TypeOK', NEW p \in Phases, PhaseCovers(p),
         phase'[p].state = phase[p].state, phase'[p].reservation = phase[p].reservation,
         CountedBy(p)' = CountedBy(p), OverrunBy(p)' = OverrunBy(p),
         ReservedIn(p)' = ReservedIn(p)
  PROVE  Eases(p)
  BY SumTypes, SumTypesNext DEF MoneyTyped, Eases, PhaseCovers

(* A step that changes no call and no reservation eases nothing and        *)
(* burdens nothing.                                                        *)
LEMMA SamePhaseEases ==
  ASSUME TypeOK, TypeOK', NEW p \in Phases, PhaseCovers(p),
         phase'[p].state = phase[p].state, phase'[p].reservation = phase[p].reservation,
         \A a \in AttemptsOf(p) : attempt'[a] = attempt[a]
  PROVE  Eases(p)
<1>1. /\ CountedBy(p)' = CountedBy(p)
      /\ OverrunBy(p)' = OverrunBy(p)
      /\ ReservedIn(p)' = ReservedIn(p)
  BY SumsStay
<1> QED
  BY <1>1, SameSumsEase

(* One call of a phase changes: its phase must make up for it.             *)
LEMMA OneCallEases ==
  ASSUME TypeOK, TypeOK', NEW a \in Attempts, NEW row \in AttemptRow,
         attempt' = [attempt EXCEPT ![a] = row],
         \A p \in Phases : PhaseCovers(p),
         \A p \in Phases \ {PhaseOf[a]} : phase'[p] = phase[p],
         Eases(PhaseOf[a])
  PROVE  \A p \in Phases : Eases(p)
<1> SUFFICES ASSUME NEW p \in Phases \ {PhaseOf[a]} PROVE Eases(p)
  OBVIOUS
<1>1. \A c \in AttemptsOf(p) : attempt'[c] = attempt[c]
  BY DEF AttemptsOf, TypeOK
<1>2. phase'[p] = phase[p]
  OBVIOUS
<1> QED
  BY <1>1, <1>2, SamePhaseEases

(* A new call holds what the phase can spare (begin_attempt).              *)
LEMMA BeginAttemptMoney ==
  ASSUME IInv, MoneyInv, IInv', NEW a \in Attempts, NEW o \in Owners,
         NEW amount \in Estimates, BeginAttempt(a, o, amount)
  PROVE  MoneyShape' /\ RowsKept /\ \A p \in Phases : Eases(p)
<1> USE LedgerAssumption
<1> DEFINE p == PhaseOf[a]
           row == PlannedAttempt(amount)
<1>1. /\ attempt' = [attempt EXCEPT ![a] = row] /\ phase' = phase
      /\ attempt[a].transport = "ABSENT"
      /\ amount + ReservedBy(ActiveAttempts(p)) <= phase[p].reservation
      /\ amount \in Nat
  BY DEF BeginAttempt, CanBeginAttempt
<1>2. TypeOK /\ TypeOK' /\ p \in Phases
  BY DEF IInv
<1>3. /\ row \in AttemptRow
      /\ row.billing = "RESERVED" /\ row.transport = "PLANNED"
      /\ row.known = 0 /\ row.liability = 0 /\ ~row.legacy
      /\ row.reservation = amount /\ row.estimate = amount
  BY <1>1 DEF PlannedAttempt, NoAttempt, AttemptRow, TransportStates, BillingStates, CloseRequests
<1>4. MoneyShape'
  BY <1>1, <1>2, <1>3 DEF MoneyInv, MoneyShape, TypeOK
<1>5. RowsKept
  <2>1. attempt[a].legacy = FALSE /\ row.legacy = FALSE
    <3>1. ~attempt[a].legacy /\ attempt[a].legacy \in BOOLEAN /\ row.legacy \in BOOLEAN
      BY <1>1, <1>2, <1>3
         DEF IInv, AttemptShape, MoneyInv, MoneyShape, TypeOK, AttemptRow
    <3> QED
      BY <1>3, <3>1
  <2> HIDE DEF row
  <2>2. attempt'[a] = row /\ \A c \in Attempts \ {a} : attempt'[c] = attempt[c]
    BY <1>1, <1>2 DEF TypeOK
  <2> QED
    BY <1>1, <2>1, <2>2 DEF RowsKept
<1>6. Eases(p)
  <2>1. /\ CountedBy(p)' = CountedBy(p) - Counts[a] + Counts'[a]
        /\ OverrunBy(p)' = OverrunBy(p) - Overruns[a] + Overruns'[a]
        /\ ReservedIn(p)' = ReservedIn(p) - Reserves[a] + Reserves'[a]
    BY <1>1, <1>2, <1>3, SumsChange
  <2>2. /\ attempt[a].billing = "ABSENT"
        /\ attempt[a].known = 0 /\ attempt[a].liability = 0 /\ attempt[a].estimate = 0
        /\ attempt[a].reservation = 0
    BY <1>1 DEF IInv, AttemptShape, MoneyInv, MoneyShape
  <2>3. Counts[a] = 0 /\ Overruns[a] = 0 /\ Reserves[a] = 0
    BY <2>2 DEF Counts, Overruns, Reserves, Lesser, AtLeastZero
  <2>4. attempt'[a] = row
    BY <1>1, <1>2 DEF TypeOK
  <2>5. Counts'[a] = 0 /\ Overruns'[a] = 0 /\ Reserves'[a] = amount
    BY <1>1, <1>3, <2>4 DEF Counts, Overruns, Reserves, Lesser, AtLeastZero
  <2>6. amount + ReservedIn(p) <= phase[p].reservation
    BY <1>1, <1>2, OnlyPendingReserve
  <2> HIDE DEF p
  <2> QED
    BY <1>1, <1>2, <2>1, <2>3, <2>5, <2>6, SumTypes, SumTypesNext
       DEF MoneyTyped, Eases, PhaseCovers
<1> QED
  BY <1>1, <1>2, <1>3, <1>4, <1>5, <1>6, OneCallEases DEF MoneyInv

(* Sending a call moves no money.                                          *)
LEMMA DispatchMoney ==
  ASSUME IInv, MoneyInv, IInv', NEW a \in Attempts, NEW o \in Owners, MarkDispatchIntent(a, o)
  PROVE  MoneyShape' /\ RowsKept /\ \A p \in Phases : Eases(p)
<1> DEFINE row == [attempt[a] EXCEPT !.transport = "DISPATCH_INTENT_RECORDED",
                                     !.billing = "RESERVED"]
<1>1. /\ attempt[a].transport = "PLANNED" /\ attempt[a].billing = "RESERVED"
      /\ phase' = phase
  BY DEF MarkDispatchIntent, CanDispatch
<1>2. TypeOK /\ TypeOK'
  BY DEF IInv
<1>3. attempt' = [attempt EXCEPT ![a] = row]
  BY <1>2 DEF MarkDispatchIntent, TypeOK
<1>4. /\ row.known = attempt[a].known /\ row.liability = attempt[a].liability
      /\ row.reservation = attempt[a].reservation /\ row.estimate = attempt[a].estimate
      /\ row.billing = "RESERVED" /\ row.transport = "DISPATCH_INTENT_RECORDED"
      /\ row.legacy = attempt[a].legacy /\ row \in AttemptRow
  BY <1>2 DEF TypeOK, AttemptRow, TransportStates, BillingStates
<1>5. MoneyShape'
  BY <1>1, <1>2, <1>3, <1>4 DEF MoneyInv, MoneyShape, TypeOK
<1>6. RowsKept
  BY <1>1, <1>2, <1>3, <1>4 DEF RowsKept, TypeOK
<1>7. ASSUME NEW p \in Phases, p = PhaseOf[a]
      PROVE  Eases(p)
  <2>1. /\ CountedBy(p)' = CountedBy(p) - Counts[a] + Counts'[a]
        /\ OverrunBy(p)' = OverrunBy(p) - Overruns[a] + Overruns'[a]
        /\ ReservedIn(p)' = ReservedIn(p) - Reserves[a] + Reserves'[a]
    BY <1>2, <1>3, <1>4, <1>7, SumsChange
  <2>2. attempt'[a] = row
    BY <1>2, <1>3 DEF TypeOK
  <2>3. Counts'[a] = Counts[a] /\ Overruns'[a] = Overruns[a] /\ Reserves'[a] = Reserves[a]
    BY <1>4, <2>2 DEF Counts, Overruns, Reserves
  <2>4. Counts[a] \in Nat /\ Overruns[a] \in Nat /\ Reserves[a] \in Nat
    BY <1>2, AmountTypes
  <2>5. PhaseCovers(p) /\ phase'[p] = phase[p]
    BY <1>1 DEF MoneyInv
  <2>6. MoneyTyped /\ MoneyTyped'
    BY <1>2, SumTypes, SumTypesNext
  <2>7. CountedBy(p)' = CountedBy(p) /\ OverrunBy(p)' = OverrunBy(p)
        /\ ReservedIn(p)' = ReservedIn(p)
    BY <2>1, <2>3, <2>4, <2>6 DEF MoneyTyped
  <2> QED
    BY <1>2, <2>5, <2>7, SameSumsEase
<1> QED
  BY <1>1, <1>2, <1>3, <1>4, <1>5, <1>6, <1>7, OneCallEases, LedgerAssumption DEF MoneyInv

(* A settled call gives back what it held; its phase pays what it cost,    *)
(* down to nothing (_update_phase_after_attempt).                          *)
LEMMA SettleMoney ==
  ASSUME IInv, MoneyInv, IInv', NEW a \in Attempts,
         phase[PhaseOf[a]].state = "ACTIVE", attempt[a].billing = "RESERVED",
         NEW transport \in TransportStates \ {"UNKNOWN_LEGACY"},
         NEW billing \in {"KNOWN_COST", "KNOWN_ZERO", "CONSERVATIVE_LIABILITY"},
         NEW known \in Nat, NEW liability \in Nat, NEW close \in CloseRequests,
         billing = "CONSERVATIVE_LIABILITY" => liability = attempt[a].estimate,
         SettleAttempt(a, transport, billing, known, liability, close)
  PROVE  MoneyShape' /\ RowsKept /\ \A p \in Phases : Eases(p)
<1> USE LedgerAssumption
<1> DEFINE row == Settled(a, transport, billing, known, liability, close)
<1>1. TypeOK /\ TypeOK' /\ transport \in TransportStates /\ billing \in BillingStates
  BY DEF IInv, BillingStates
<1>2. /\ row \in AttemptRow
      /\ row.transport = transport /\ row.billing = billing /\ row.reservation = 0
      /\ row.known = known /\ row.liability = liability
      /\ row.estimate = attempt[a].estimate /\ row.legacy = attempt[a].legacy
  <2>1. attempt[a] \in AttemptRow
    BY <1>1 DEF TypeOK
  <2>2. CASE close = "none"
    BY <1>1, <2>1, <2>2 DEF Settled, AttemptRow
  <2>3. CASE close # "none"
    BY <1>1, <2>1, <2>3 DEF Settled, AttemptRow
  <2> QED
    BY <2>2, <2>3
<1>3. attempt' = [attempt EXCEPT ![a] = row]
  BY DEF SettleAttempt
<1>4. ASSUME NEW p \in Phases, p = PhaseOf[a]
      PROVE  /\ \A q \in Phases \ {p} : phase'[q] = phase[q]
             /\ phase'[p].bucket = phase[p].bucket /\ phase'[p].day = phase[p].day
             /\ phase'[p].state # "ABSENT"
             /\ \/ phase'[p].state # "ACTIVE" /\ phase'[p].reservation = 0
                \/ phase'[p].reservation
                      = AtLeastZero(phase[p].reservation - (known + liability))
  <2>1. /\ phase[p] \in PhaseRow
        /\ phase' = [phase EXCEPT ![p] = PhaseAfter(attempt', p, known + liability)]
    BY <1>1, <1>3, <1>4 DEF SettleAttempt, TypeOK
  <2>2. CASE CloseRequest(attempt', p) # "none" /\ PendingIn(attempt', p) = {}
    <3>1. CloseRequest(attempt', p) \in {"SUCCEEDED", "FAILED"}
      BY <2>2, CloseRequestType DEF CloseRequests
    <3>2. phase' = [phase EXCEPT ![p] = ClosedPhase(p, CloseRequest(attempt', p))]
      BY <2>1, <2>2 DEF PhaseAfter
    <3> DEFINE state == CloseRequest(attempt', p)
    <3> HIDE DEF state
    <3>3. /\ state \in {"SUCCEEDED", "FAILED"}
          /\ phase' = [phase EXCEPT ![p] = ClosedPhase(p, state)]
      BY <3>1, <3>2 DEF state
    <3>4. /\ ClosedPhase(p, state).state = state
          /\ ClosedPhase(p, state).reservation = 0
          /\ ClosedPhase(p, state).bucket = phase[p].bucket
          /\ ClosedPhase(p, state).day = phase[p].day
      BY <2>1 DEF ClosedPhase, PhaseRow
    <3> QED
      BY <1>1, <3>3, <3>4 DEF TypeOK
  <2>3. CASE ~(CloseRequest(attempt', p) # "none" /\ PendingIn(attempt', p) = {})
    <3>1. phase' = [phase EXCEPT ![p].reservation
                      = AtLeastZero(phase[p].reservation - (known + liability))]
      BY <1>1, <2>1, <2>3 DEF PhaseAfter, TypeOK
    <3> QED
      BY <1>1, <1>4, <2>1, <3>1 DEF PhaseRow, TypeOK
  <2> QED
    BY <2>2, <2>3
<1>5. MoneyShape'
  <2>1. \A p \in Phases : phase'[p].state = "ABSENT" => phase'[p].bucket = None
    BY <1>4 DEF MoneyInv, MoneyShape
  <2> QED
    BY <1>1, <1>2, <1>3, <2>1 DEF MoneyInv, MoneyShape, TypeOK
<1>6. RowsKept
  <2>1. \A p \in Phases :
          /\ phase'[p].bucket = phase[p].bucket /\ phase'[p].day = phase[p].day
          /\ phase'[p].state = "ABSENT" <=> phase[p].state = "ABSENT"
    BY <1>4
  <2> HIDE DEF row
  <2>2. attempt'[a] = row /\ \A c \in Attempts \ {a} : attempt'[c] = attempt[c]
    BY <1>1, <1>3 DEF TypeOK
  <2> QED
    BY <1>2, <2>1, <2>2 DEF RowsKept
<1>7. ASSUME NEW p \in Phases, p = PhaseOf[a]
      PROVE  Eases(p)
  <2>1. /\ CountedBy(p)' = CountedBy(p) - Counts[a] + Counts'[a]
        /\ OverrunBy(p)' = OverrunBy(p) - Overruns[a] + Overruns'[a]
        /\ ReservedIn(p)' = ReservedIn(p) - Reserves[a] + Reserves'[a]
    BY <1>1, <1>2, <1>3, <1>7, SumsChange
  <2> DEFINE e == attempt[a].estimate
             c == known + liability
  <2>2. e \in Nat /\ c \in Nat
    BY <1>1 DEF TypeOK, AttemptRow
  <2>3. attempt'[a] = row
    BY <1>1, <1>3 DEF TypeOK
  <2>4. Counts[a] = 0 /\ Overruns[a] = 0 /\ Reserves[a] = e
    BY <2>2 DEF MoneyInv, MoneyShape, Counts, Overruns, Reserves, Lesser, AtLeastZero
  <2>5. Counts'[a] = Lesser(c, e) /\ Overruns'[a] = AtLeastZero(c - e) /\ Reserves'[a] = 0
    <3>1. /\ attempt'[a].known + attempt'[a].liability = c
          /\ attempt'[a].estimate = e /\ attempt'[a].reservation = 0
      BY <1>2, <2>3
    <3> HIDE DEF e, c
    <3>2. Counts'[a] = Lesser(attempt'[a].known + attempt'[a].liability, attempt'[a].estimate)
      BY DEF Counts
    <3>3. Overruns'[a] = AtLeastZero(attempt'[a].known + attempt'[a].liability
                                       - attempt'[a].estimate)
      BY DEF Overruns
    <3>4. Reserves'[a] = attempt'[a].reservation
      BY DEF Reserves
    <3>5. Counts'[a] = Lesser(c, e)
      BY <3>1, <3>2, Zenon
    <3>6. Overruns'[a] = AtLeastZero(c - e)
      <4>1. attempt'[a].known + attempt'[a].liability - attempt'[a].estimate = c - e
        BY <1>1, <1>2, <2>2, <2>3, <3>1 DEF AttemptRow
      <4> QED
        BY <3>3, <4>1, Zenon
    <3> QED
      BY <3>1, <3>4, <3>5, <3>6, Zenon
  <2> HIDE DEF e, c
  <2>6. /\ CountedBy(p)' = CountedBy(p) + Lesser(c, e)
        /\ OverrunBy(p)' = OverrunBy(p) + AtLeastZero(c - e)
        /\ ReservedIn(p)' = ReservedIn(p) - e
    BY <1>1, <2>1, <2>2, <2>4, <2>5, SumTypes DEF MoneyTyped, Lesser, AtLeastZero
  <2>7. \/ phase'[p].state # "ACTIVE" /\ phase'[p].reservation = 0
        \/ phase'[p].reservation = AtLeastZero(phase[p].reservation - c)
    BY <1>4, <1>7 DEF c
  <2>8. PhaseCovers(p) /\ phase[p].state = "ACTIVE"
    BY <1>7 DEF MoneyInv
  <2>9. MoneyTyped /\ MoneyTyped'
    BY <1>1, SumTypes, SumTypesNext
  <2>10. ReservedIn(p) <= phase[p].reservation + OverrunBy(p)
    BY <2>8 DEF PhaseCovers
  <2>11. Weights'[p] <= Weights[p]
    BY <2>2, <2>6, <2>7, <2>9 DEF MoneyTyped, Lesser, AtLeastZero
  <2>12. PhaseCovers(p)'
    BY <2>2, <2>6, <2>7, <2>9, <2>10 DEF MoneyTyped, AtLeastZero, PhaseCovers
  <2> QED
    BY <2>11, <2>12 DEF Eases
<1>8. \A p \in Phases \ {PhaseOf[a]} : phase'[p] = phase[p]
  BY <1>4
<1>9. Eases(PhaseOf[a])
  BY <1>7
<1> HIDE DEF row
<1> QED
  BY <1>1, <1>2, <1>3, <1>5, <1>6, <1>8, <1>9, OneCallEases DEF MoneyInv

(* A resolution never makes a call dearer than was already counted.        *)
LEMMA ResolveMoney ==
  ASSUME IInv, MoneyInv, IInv', NEW a \in Attempts, NEW action, NEW cost \in Costs,
         ResolveLiability(a, action, cost)
  PROVE  MoneyShape' /\ RowsKept /\ \A p \in Phases : Eases(p)
<1> USE LedgerAssumption
<1>1. TypeOK /\ TypeOK' /\ attempt[a] \in AttemptRow /\ cost \in Nat
  BY DEF IInv, TypeOK
<1>2. PICK row \in AttemptRow :
        /\ attempt' = [attempt EXCEPT ![a] = row]
        /\ row.billing \in {"KNOWN_COST", "LIABILITY_CONFIRMED", "KNOWN_ZERO"}
        /\ row.transport = attempt[a].transport
        /\ row.reservation = attempt[a].reservation
        /\ row.estimate = attempt[a].estimate
        /\ row.legacy = attempt[a].legacy
  <2> DEFINE actual == [attempt[a] EXCEPT !.billing = "KNOWN_COST", !.known = cost,
                                          !.liability = 0]
             owed   == [attempt[a] EXCEPT !.billing = "LIABILITY_CONFIRMED"]
             zero   == [attempt[a] EXCEPT !.billing = "KNOWN_ZERO", !.liability = 0]
             Resolved(row) ==
               /\ row \in AttemptRow
               /\ row.billing \in {"KNOWN_COST", "LIABILITY_CONFIRMED", "KNOWN_ZERO"}
               /\ row.transport = attempt[a].transport
               /\ row.reservation = attempt[a].reservation
               /\ row.estimate = attempt[a].estimate
               /\ row.legacy = attempt[a].legacy
  <2>1. Resolved(actual) /\ Resolved(owed) /\ Resolved(zero)
    BY <1>1 DEF AttemptRow, BillingStates
  <2>2. \E row \in {actual, owed, zero} : attempt' = [attempt EXCEPT ![a] = row]
    BY <1>1 DEF ResolveLiability, TypeOK
  <2> HIDE DEF actual, owed, zero
  <2> QED
    BY <2>1, <2>2
<1>3. /\ phase' = phase
      /\ phase[PhaseOf[a]].state # "ACTIVE"
      /\ attempt[a].billing \in {"CONSERVATIVE_LIABILITY", "UNKNOWN_LEGACY"}
  BY DEF ResolveLiability, Reconcilable
<1>4. MoneyShape'
  BY <1>1, <1>2, <1>3 DEF MoneyInv, MoneyShape, TypeOK
<1>5. RowsKept
  BY <1>1, <1>2, <1>3 DEF RowsKept, TypeOK
<1>6. ASSUME NEW p \in Phases, p = PhaseOf[a]
      PROVE  Eases(p)
  <2>1. /\ CountedBy(p)' = CountedBy(p) - Counts[a] + Counts'[a]
        /\ ReservedIn(p)' = ReservedIn(p) - Reserves[a] + Reserves'[a]
    BY <1>1, <1>2, <1>6, SumsChange
  <2>2. attempt'[a] = row
    BY <1>1, <1>2 DEF TypeOK
  <2>3. Reserves'[a] = Reserves[a] /\ Reserves[a] \in Nat
    BY <1>1, <1>2, <2>2 DEF Reserves, AttemptRow
  <2>4. Counts[a] = attempt[a].estimate /\ Counts[a] \in Nat
    BY <1>1, <1>3 DEF MoneyInv, MoneyShape, Counts, Lesser, AttemptRow
  <2>5. Counts'[a] \in Nat /\ Counts'[a] <= attempt[a].estimate
    BY <1>1, <1>2, <2>2 DEF Counts, Lesser, AttemptRow
  <2>6. MoneyTyped /\ MoneyTyped'
    BY <1>1, SumTypes, SumTypesNext
  <2>7. phase'[p].reservation = phase[p].reservation /\ phase'[p].state # "ACTIVE"
    BY <1>3, <1>6
  <2>8. CountedBy(p)' <= CountedBy(p) /\ ReservedIn(p)' = ReservedIn(p)
    BY <2>1, <2>3, <2>4, <2>5, <2>6 DEF MoneyTyped
  <2>9. Weights'[p] <= Weights[p]
    BY <2>6, <2>7, <2>8 DEF MoneyTyped
  <2> QED
    BY <2>7, <2>9 DEF Eases, PhaseCovers
<1> QED
  BY <1>1, <1>2, <1>3, <1>4, <1>5, <1>6, OneCallEases DEF MoneyInv

(* A phase that closes with no call in flight only gives back.             *)
LEMMA CompleteMoney ==
  ASSUME IInv, MoneyInv, IInv', NEW p \in Phases, NEW o \in Owners,
         NEW succeeded \in BOOLEAN, CompletePhase(p, o, succeeded)
  PROVE  MoneyShape' /\ RowsKept /\ \A q \in Phases : Eases(q)
<1> DEFINE state == IF succeeded THEN "SUCCEEDED" ELSE "FAILED"
<1>1. TypeOK /\ TypeOK' /\ phase[p] \in PhaseRow /\ state \in {"SUCCEEDED", "FAILED"}
  BY DEF IInv, TypeOK
<1>2. /\ phase' = [phase EXCEPT ![p] = ClosedPhase(p, state)] /\ attempt' = attempt
      /\ phase[p].state = "ACTIVE"
  BY DEF CompletePhase, OwnedAndLive
<1> HIDE DEF state
<1>3. /\ ClosedPhase(p, state).state = state /\ ClosedPhase(p, state).reservation = 0
      /\ ClosedPhase(p, state).bucket = phase[p].bucket
      /\ ClosedPhase(p, state).day = phase[p].day
  BY <1>1 DEF ClosedPhase, PhaseRow
<1>4. MoneyShape' /\ RowsKept
  BY <1>1, <1>2, <1>3 DEF MoneyInv, MoneyShape, RowsKept, TypeOK
<1>5. Eases(p)
  <2>1. /\ CountedBy(p)' = CountedBy(p) /\ OverrunBy(p)' = OverrunBy(p)
        /\ ReservedIn(p)' = ReservedIn(p)
    BY <1>1, <1>2, SumsStay
  <2>2. phase'[p].reservation = 0 /\ phase'[p].state # "ACTIVE"
    BY <1>1, <1>2, <1>3 DEF TypeOK
  <2> QED
    BY <1>1, <2>1, <2>2, SumTypes, SumTypesNext DEF MoneyTyped, Eases, PhaseCovers
<1>6. ASSUME NEW q \in Phases, q # p
      PROVE  Eases(q)
  <2>1. phase'[q] = phase[q] /\ PhaseCovers(q)
    BY <1>2, <1>6 DEF MoneyInv, IInv, TypeOK
  <2> QED
    BY <1>1, <1>2, <2>1, SamePhaseEases
<1> QED
  BY <1>4, <1>5, <1>6

(* A lapsed lease turns what was held into what is owed, or frees it.      *)
LEMMA ExpireMoney ==
  ASSUME IInv, MoneyInv, IInv', ExpireDuePhaseLeases
  PROVE  MoneyShape' /\ RowsKept /\ \A p \in Phases : Eases(p)
<1> USE LedgerAssumption
<1>1. TypeOK /\ TypeOK'
  BY DEF IInv
<1>2. /\ \A a \in Attempts :
            attempt'[a] = IF PhaseOf[a] \in DuePhases /\ Unsettled(a)
                          THEN ExpiredAttempt(a) ELSE attempt[a]
      /\ \A p \in Phases :
            phase'[p] = IF p \in DuePhases THEN ClosedPhase(p, "FAILED") ELSE phase[p]
  BY DEF ExpireDuePhaseLeases
<1>3. \A p \in Phases :
        /\ ClosedPhase(p, "FAILED").state = "FAILED"
        /\ ClosedPhase(p, "FAILED").reservation = 0
        /\ ClosedPhase(p, "FAILED").bucket = phase[p].bucket
        /\ ClosedPhase(p, "FAILED").day = phase[p].day
  BY <1>1 DEF ClosedPhase, PhaseRow, TypeOK
<1>4. \A a \in Attempts : Unsettled(a) =>
        /\ ExpiredAttempt(a).legacy = attempt[a].legacy
        /\ attempt[a].known = 0 /\ attempt[a].liability = 0
        /\ attempt[a].reservation = attempt[a].estimate
        /\ ExpiredAttempt(a).known = 0 /\ ExpiredAttempt(a).reservation = 0
        /\ ExpiredAttempt(a).estimate = attempt[a].estimate
        /\ \/ /\ ExpiredAttempt(a).transport = "TRANSPORT_AMBIGUOUS"
              /\ ExpiredAttempt(a).billing = "CONSERVATIVE_LIABILITY"
              /\ ExpiredAttempt(a).liability = attempt[a].estimate
           \/ /\ ExpiredAttempt(a).transport = "LOCAL_FAILURE"
              /\ ExpiredAttempt(a).billing = "KNOWN_ZERO"
              /\ ExpiredAttempt(a).liability = 0
  <2> SUFFICES ASSUME NEW a \in Attempts, Unsettled(a)
               PROVE  /\ ExpiredAttempt(a).legacy = attempt[a].legacy
                      /\ attempt[a].known = 0 /\ attempt[a].liability = 0
                      /\ attempt[a].reservation = attempt[a].estimate
                      /\ ExpiredAttempt(a).known = 0 /\ ExpiredAttempt(a).reservation = 0
                      /\ ExpiredAttempt(a).estimate = attempt[a].estimate
                      /\ \/ /\ ExpiredAttempt(a).transport = "TRANSPORT_AMBIGUOUS"
                            /\ ExpiredAttempt(a).billing = "CONSERVATIVE_LIABILITY"
                            /\ ExpiredAttempt(a).liability = attempt[a].estimate
                         \/ /\ ExpiredAttempt(a).transport = "LOCAL_FAILURE"
                            /\ ExpiredAttempt(a).billing = "KNOWN_ZERO"
                            /\ ExpiredAttempt(a).liability = 0
    OBVIOUS
  <2>1. attempt[a] \in AttemptRow
    BY <1>1 DEF TypeOK
  <2>2. /\ attempt[a].known = 0 /\ attempt[a].liability = 0
        /\ attempt[a].reservation = attempt[a].estimate
    BY DEF MoneyInv, MoneyShape, Unsettled, IsUnsettled
  <2>3. CASE attempt[a].transport = "DISPATCH_INTENT_RECORDED"
    BY <2>1, <2>2, <2>3 DEF ExpiredAttempt, Settled, AttemptRow
  <2>4. CASE attempt[a].transport # "DISPATCH_INTENT_RECORDED"
    BY <2>1, <2>2, <2>4 DEF ExpiredAttempt, Settled, AttemptRow
  <2> QED
    BY <2>2, <2>3, <2>4
<1>5. MoneyShape'
  <2>1. ASSUME NEW a \in Attempts
        PROVE  /\ attempt'[a].billing = "RESERVED" =>
                    /\ attempt'[a].known = 0 /\ attempt'[a].liability = 0
                    /\ attempt'[a].reservation = attempt'[a].estimate
               /\ attempt'[a].billing = "ABSENT" =>
                    /\ attempt'[a].known = 0 /\ attempt'[a].liability = 0
                    /\ attempt'[a].estimate = 0 /\ ~attempt'[a].legacy
               /\ attempt'[a].billing \in {"CONSERVATIVE_LIABILITY", "UNKNOWN_LEGACY"} =>
                    attempt'[a].liability = attempt'[a].estimate
    <3>1. CASE PhaseOf[a] \in DuePhases /\ Unsettled(a)
      BY <1>2, <1>4, <3>1
    <3>2. CASE ~(PhaseOf[a] \in DuePhases /\ Unsettled(a))
      BY <1>2, <3>2 DEF MoneyInv, MoneyShape
    <3> QED
      BY <3>1, <3>2
  <2>2. \A p \in Phases : phase'[p].state = "ABSENT" => phase'[p].bucket = None
    BY <1>2, <1>3 DEF MoneyInv, MoneyShape
  <2> QED
    BY <2>1, <2>2 DEF MoneyShape
<1>6. RowsKept
  <2>1. \A p \in Phases :
          /\ phase'[p].bucket = phase[p].bucket /\ phase'[p].day = phase[p].day
          /\ phase'[p].state = "ABSENT" <=> phase[p].state = "ABSENT"
    BY <1>2, <1>3 DEF DuePhases
  <2>2. \A a \in Attempts :
          /\ attempt'[a].legacy = attempt[a].legacy
          /\ attempt[a].legacy => attempt'[a].estimate = attempt[a].estimate
    BY <1>2, <1>4
  <2> QED
    BY <2>1, <2>2 DEF RowsKept
<1>7. ASSUME NEW p \in Phases, p \notin DuePhases
      PROVE  Eases(p)
  <2>1. phase'[p] = phase[p] /\ PhaseCovers(p)
    BY <1>2, <1>7 DEF MoneyInv
  <2>2. \A a \in AttemptsOf(p) : attempt'[a] = attempt[a]
    BY <1>2, <1>7 DEF AttemptsOf
  <2> QED
    BY <1>1, <2>1, <2>2, SamePhaseEases
<1>8. ASSUME NEW p \in Phases, p \in DuePhases
      PROVE  Eases(p)
  <2> DEFINE S == AttemptsOf(p)
             both == [c \in Attempts |-> Counts[c] + Reserves[c]]
  <2>1. IsFiniteSet(S) /\ \A a \in S : a \in Attempts /\ PhaseOf[a] = p
    BY FiniteRows DEF AttemptsOf
  <2>2. phase'[p].state # "ACTIVE" /\ phase'[p].reservation = 0
    BY <1>2, <1>3, <1>8
  <2>3. \A a \in S : Reserves'[a] = 0
    BY <2>1, <2>2 DEF IInv, ClosedPhaseSettled, Reserves
  <2>4. \A a \in S : /\ Counts[a] \in Nat /\ Reserves[a] \in Nat
                     /\ both[a] = Counts[a] + Reserves[a] /\ both[a] \in Nat
    BY <1>1, <2>1, AmountTypes
  <2>5. \A a \in S : Counts'[a] \in Int /\ Counts'[a] <= both[a]
    <3> SUFFICES ASSUME NEW a \in S
                 PROVE  Counts'[a] \in Int /\ Counts'[a] <= both[a]
      OBVIOUS
    <3>1. attempt[a] \in AttemptRow /\ a \in Attempts /\ PhaseOf[a] \in DuePhases
      BY <1>1, <1>8, <2>1 DEF TypeOK
    <3>2. CASE Unsettled(a)
      BY <1>2, <1>4, <2>4, <3>1, <3>2 DEF Counts, Reserves, Lesser, AttemptRow
    <3>3. CASE ~Unsettled(a)
      <4>1. Counts'[a] = Counts[a]
        BY <1>2, <3>1, <3>3 DEF Counts
      <4> HIDE DEF S, both
      <4> QED
        BY <2>4, <4>1
    <3> QED
      BY <3>2, <3>3
  <2>6. ReservedIn(p)' = 0
    <3>1. SumFunctionOnSet(Reserves', S) = 0
      BY <2>1, <2>3, SumOfZeros
    <3> QED
      BY <3>1 DEF ReservedIn, AttemptsOf
  <2> HIDE DEF S, both
  <2>7. SumFunctionOnSet(both, S) = SumFunctionOnSet(Counts, S) + SumFunctionOnSet(Reserves, S)
    BY <2>1, <2>4, SumPlus
  <2>8. SumFunctionOnSet(Counts', S) <= SumFunctionOnSet(both, S)
    <3>1. \A a \in S : Counts'[a] \in Int /\ both[a] \in Int /\ Counts'[a] <= both[a]
      BY <2>4, <2>5
    <3> QED
      BY <2>1, <3>1, SumMonotone
  <2>9. CountedBy(p)' <= CountedBy(p) + ReservedIn(p)
    BY <2>7, <2>8 DEF CountedBy, ReservedIn, AttemptsOf, S
  <2>10. MoneyTyped /\ MoneyTyped'
    BY <1>1, SumTypes, SumTypesNext
  <2>11. Weights'[p] <= Weights[p]
    BY <2>2, <2>6, <2>9, <2>10 DEF MoneyTyped
  <2> QED
    BY <2>2, <2>11 DEF Eases, PhaseCovers
<1> QED
  BY <1>5, <1>6, <1>7, <1>8

(* A phase that is not open exposes nothing.                               *)
LEMMA ClosedExposesNothing ==
  ASSUME IInv, NEW p \in Phases, phase[p].state # "ACTIVE"
  PROVE  ReservationExposure(p) = 0 /\ ReservedIn(p) = 0
<1>1. \A a \in AttemptsOf(p) : Reserves[a] = 0
  BY DEF IInv, ClosedPhaseSettled, Reserves, AttemptsOf
<1>2. ReservedIn(p) = 0
  BY <1>1, FiniteRows, SumOfZeros DEF ReservedIn
<1>3. phase[p].reservation = 0
  BY DEF IInv, ClosedPhaseSettled
<1> QED
  BY <1>2, <1>3, SumTypes DEF MoneyTyped, IInv

(* Phases never weigh more than the exposure begin_phase adds up.          *)
LEMMA WeightIsExposed ==
  ASSUME IInv, NEW P \in SUBSET Phases
  PROVE  /\ SumFunctionOnSet(Weights, P) <= Exposure(P)
         /\ SumFunctionOnSet(Weights, P) \in Nat /\ Exposure(P) \in Nat
<1> DEFINE S == AttemptsIn(P)
           spent == [a \in Attempts |-> attempt[a].known + attempt[a].liability]
           exposed == [p \in Phases |-> ReservationExposure(p)]
           open == {p \in P : phase[p].state = "ACTIVE"}
<1>1. TypeOK /\ IsFiniteSet(S) /\ IsFiniteSet(P) /\ S \subseteq Attempts /\ open \in SUBSET P
  BY FiniteRows DEF IInv, AttemptsIn
<1>2. SpentBy(P) = SumFunctionOnSet(spent, S)
  BY DEF SpentBy
<1>3. ActiveReservation(P) = SumFunctionOnSet(exposed, open)
  BY DEF ActiveReservation
<1>4. \A a \in S : Counts[a] \in Nat /\ spent[a] \in Nat /\ Counts[a] <= spent[a]
  BY <1>1 DEF TypeOK, AttemptRow, Counts, Lesser
<1>5. \A p \in P : exposed[p] \in Int
  BY <1>1, SumTypes DEF MoneyTyped
<1>6. \A p \in P \ open : exposed[p] = 0
  BY ClosedExposesNothing
<1>7. /\ SumFunctionOnSet(Weights, P) = SumFunctionOnSet(Counts, S) + SumFunctionOnSet(exposed, P)
      /\ SumFunctionOnSet(Counts, S) \in Nat /\ SumFunctionOnSet(exposed, P) \in Nat
  BY <1>1, WeightOfMany
<1> HIDE DEF S, spent, exposed, open
<1>8. SumFunctionOnSet(Counts, S) <= SumFunctionOnSet(spent, S)
  <2>1. \A a \in S : Counts[a] \in Int /\ spent[a] \in Int /\ Counts[a] <= spent[a]
    BY <1>4
  <2> QED
    BY <1>1, <2>1, SumMonotone
<1>9. SumFunctionOnSet(exposed, P) = SumFunctionOnSet(exposed, open)
  BY <1>1, <1>5, <1>6, SumSupport
<1>10. SumFunctionOnSet(spent, S) \in Nat
  BY <1>1, <1>4, SumNat
<1> QED
  BY <1>2, <1>3, <1>7, <1>8, <1>9, <1>10 DEF Exposure

(* Both parts of an exposure are naturals.                                 *)
LEMMA ExposureParts ==
  ASSUME TypeOK, NEW P \in SUBSET Phases
  PROVE  SpentBy(P) \in Nat /\ ActiveReservation(P) \in Nat
<1> DEFINE S == AttemptsIn(P)
           spent == [a \in Attempts |-> attempt[a].known + attempt[a].liability]
           exposed == [p \in Phases |-> ReservationExposure(p)]
           open == {p \in P : phase[p].state = "ACTIVE"}
<1>1. IsFiniteSet(S) /\ S \subseteq Attempts /\ open \in SUBSET Phases
  BY FiniteRows DEF AttemptsIn
<1>2. IsFiniteSet(open)
  BY <1>1, FiniteRows
<1>3. \A a \in S : spent[a] \in Nat
  BY <1>1 DEF TypeOK, AttemptRow
<1>4. \A p \in open : exposed[p] \in Nat
  BY <1>1, SumTypes DEF MoneyTyped
<1>5. SpentBy(P) = SumFunctionOnSet(spent, S)
      /\ ActiveReservation(P) = SumFunctionOnSet(exposed, open)
  BY DEF SpentBy, ActiveReservation
<1> HIDE DEF S, spent, exposed, open
<1> QED
  BY <1>1, <1>2, <1>3, <1>4, <1>5, SumNat

(* A new phase weighs what it reserves, whatever the caller had read       *)
(* before; no other phase and no old spend changes.                        *)
LEMMA BeginWeighs ==
  ASSUME IInv, MoneyInv, IInv', NEW p \in Phases, NEW b \in Buckets,
         NEW amount \in Reservations, NEW o \in Owners, NEW prior,
         BeginPhase(p, b, amount, o, prior)
  PROVE  /\ phase[p].state = "ABSENT" /\ phase[p].bucket = None
         /\ phase'[p].state = "ACTIVE" /\ phase'[p].day = today /\ phase'[p].bucket = b
         /\ \A q \in Phases \ {p} : phase'[q] = phase[q]
         /\ MoneyShape' /\ \A q \in Phases : PhaseCovers(q)'
         /\ Weights'[p] = amount /\ amount \in Nat
         /\ \A q \in Phases \ {p} : Weights'[q] = Weights[q]
         /\ \A q \in Phases : Weights[q] \in Int
         /\ \A P \in SUBSET Phases : Legacies'[P] = Legacies[P] /\ Legacies[P] \in Nat
<1> USE LedgerAssumption
<1>1. TypeOK /\ TypeOK' /\ MoneyTyped /\ MoneyTyped' /\ amount \in Nat
  BY SumTypes, SumTypesNext DEF IInv
<1>2. /\ phase[p].state = "ABSENT" /\ phase'[p].state = "ACTIVE"
      /\ phase'[p].day = today /\ phase'[p].bucket = b /\ phase'[p].reservation = amount
      /\ \A q \in Phases \ {p} : phase'[q] = phase[q]
      /\ attempt' = attempt
  BY <1>1 DEF BeginPhase, TypeOK
<1>3. MoneyShape'
  BY <1>2 DEF MoneyInv, MoneyShape
<1>4. \A q \in Phases : /\ CountedBy(q)' = CountedBy(q) /\ OverrunBy(q)' = OverrunBy(q)
                        /\ ReservedIn(q)' = ReservedIn(q)
  BY <1>1, <1>2, SumsStay
<1>5. CountedBy(p) = 0 /\ ReservedIn(p) = 0
  <2>1. \A a \in AttemptsOf(p) : Counts[a] = 0
    BY <1>2 DEF IInv, AttemptShape, MoneyInv, MoneyShape, AttemptsOf, Counts, Lesser
  <2> QED
    BY <1>2, <2>1, FiniteRows, SumOfZeros, ClosedExposesNothing DEF CountedBy
<1>6. Weights'[p] = amount
  BY <1>1, <1>2, <1>4, <1>5 DEF MoneyTyped
<1>7. \A q \in Phases \ {p} : Weights'[q] = Weights[q]
  BY <1>1, <1>2, <1>4 DEF MoneyTyped
<1>8. \A q \in Phases : PhaseCovers(q)'
  <2>1. PhaseCovers(p)'
    BY <1>1, <1>2, <1>4, <1>5 DEF MoneyTyped, PhaseCovers
  <2>2. \A q \in Phases \ {p} : PhaseCovers(q)'
    BY <1>2, <1>4 DEF MoneyInv, PhaseCovers
  <2> QED
    BY <2>1, <2>2
<1>9. \A P \in SUBSET Phases : Legacies'[P] = Legacies[P] /\ Legacies[P] \in Nat
  BY <1>1, <1>2, LegacyType DEF Legacies, LegacyOf, AttemptsIn
<1>10. phase[p].bucket = None
  BY <1>2 DEF MoneyInv, MoneyShape
<1>11. \A q \in Phases : Weights[q] \in Int
  BY <1>1 DEF MoneyTyped
<1> QED
  BY <1>1, <1>2, <1>3, <1>6, <1>7, <1>8, <1>9, <1>10, <1>11

(* Phases among which the new one is not stay within the cap they had.     *)
LEMMA BeginOthers ==
  ASSUME NEW p \in Phases, NEW P \in SUBSET Phases, p \notin P,
         \A q \in Phases \ {p} : Weights'[q] = Weights[q],
         \A q \in Phases : Weights[q] \in Int,
         Legacies'[P] = Legacies[P]
  PROVE  /\ SumFunctionOnSet(Weights', P) = SumFunctionOnSet(Weights, P)
         /\ \A limit : WeighedBy(P, limit) =>
              limit = None \/ SumFunctionOnSet(Weights', P) <= CapOf(Legacies'[P], limit)
<1>1. \A q \in P : Weights[q] \in Int /\ Weights'[q] = Weights[q]
  OBVIOUS
<1>2. SumFunctionOnSet(Weights', P) = SumFunctionOnSet(Weights, P)
  BY <1>1, FiniteRows, SumSame
<1> QED
  BY <1>2 DEF WeighedBy

(* Phases whose exposure left room for the new one are within that cap     *)
(* together with it.                                                       *)
LEMMA BeginFits ==
  ASSUME IInv, NEW p \in Phases, NEW P \in SUBSET Phases, p \notin P,
         NEW amount \in Nat, Weights'[p] = amount,
         \A q \in Phases \ {p} : Weights'[q] = Weights[q],
         \A q \in Phases : Weights[q] \in Int,
         NEW Q, Q = P \cup {p}, Legacies'[Q] \in Nat, Legacies'[P] = Legacies[P],
         NEW limit \in Nat \cup {None}, Within(Exposure(P) + amount, limit)
  PROVE  limit = None \/ SumFunctionOnSet(Weights', Q) <= CapOf(Legacies'[Q], limit)
<1>1. SumFunctionOnSet(Weights', Q) = amount + SumFunctionOnSet(Weights, P)
  <2>1. \A q \in P \cup {p} : Weights'[q] \in Int
    OBVIOUS
  <2>2. IsFiniteSet(P)
    BY FiniteRows
  <2>3. SumFunctionOnSet(Weights', P \cup {p}) = Weights'[p] + SumFunctionOnSet(Weights', P)
    BY <2>1, <2>2, SumAdd
  <2>4. SumFunctionOnSet(Weights', P) = SumFunctionOnSet(Weights, P)
    BY BeginOthers
  <2> QED
    BY <2>3, <2>4
<1>2. CASE limit # None
  <2>1. limit \in Nat /\ Exposure(P) + amount <= limit
    BY <1>2 DEF Within
  <2>2. /\ SumFunctionOnSet(Weights, P) <= Exposure(P)
        /\ SumFunctionOnSet(Weights, P) \in Nat /\ Exposure(P) \in Nat
    BY WeightIsExposed
  <2> QED
    BY <1>1, <2>1, <2>2 DEF CapOf
<1> QED
  BY <1>2

(* A new phase was admitted with what it weighs.                           *)
LEMMA BeginPhaseMoney ==
  ASSUME IInv, MoneyInv, IInv', NEW p \in Phases, NEW b \in Buckets,
         NEW amount \in Reservations, NEW o \in Owners, NEW prior,
         BeginPhase(p, b, amount, o, prior)
  PROVE  MoneyInv'
<1> USE LedgerAssumption
<1>1. /\ phase[p].state = "ABSENT" /\ phase[p].bucket = None
      /\ phase'[p].state = "ACTIVE" /\ phase'[p].day = today /\ phase'[p].bucket = b
      /\ \A q \in Phases \ {p} : phase'[q] = phase[q]
      /\ MoneyShape' /\ \A q \in Phases : PhaseCovers(q)'
      /\ Weights'[p] = amount /\ amount \in Nat
      /\ \A q \in Phases \ {p} : Weights'[q] = Weights[q]
      /\ \A q \in Phases : Weights[q] \in Int
      /\ \A P \in SUBSET Phases : Legacies'[P] = Legacies[P] /\ Legacies[P] \in Nat
  BY BeginWeighs
<1>2. ASSUME NEW P \in SUBSET Phases, p \notin P, NEW limit, WeighedBy(P, limit)
      PROVE  limit = None \/ SumFunctionOnSet(Weights', P) <= CapOf(Legacies'[P], limit)
  BY <1>1, <1>2, BeginOthers
<1>3. ASSUME NEW P \in SUBSET Phases, p \notin P, NEW limit \in Nat \cup {None},
             Within(Exposure(P) + amount, limit), NEW Q, Q = P \cup {p}
      PROVE  limit = None \/ SumFunctionOnSet(Weights', Q) <= CapOf(Legacies'[Q], limit)
  <2>1. Q \in SUBSET Phases
    BY <1>3
  <2>2. Legacies'[Q] \in Nat /\ Legacies'[P] = Legacies[P]
    BY <1>1, <2>1
  <2> QED
    BY <1>1, <1>3, <2>2, BeginFits
<1>4. /\ Within(Exposure(PhasesOfDay(b, today)) + amount, BucketLimit[b])
      /\ Within(Exposure(PhasesOfRun(RunOf[p])) + amount, RunLimit)
  BY DEF BeginPhase, AdmittedWithin
<1>5. ASSUME NEW c \in Buckets, NEW d \in 0..MaxDay
       PROVE  WeighedBy(PhasesOfDay(c, d), BucketLimit[c])'
  <2>1. PhasesOfDay(c, d) \in SUBSET Phases /\ p \notin PhasesOfDay(c, d)
    BY <1>1, <1>4 DEF PhasesOfDay, PhasesOfBucket
  <2>2. CASE c = b /\ d = today
    <3>1. PhasesOfDay(c, d)' = PhasesOfDay(c, d) \cup {p}
      BY <1>1, <2>2 DEF PhasesOfDay, PhasesOfBucket
    <3>2. Within(Exposure(PhasesOfDay(c, d)) + amount, BucketLimit[c])
      BY <1>1, <1>4, <2>2
    <3> QED
      BY <1>3, <2>1, <3>1, <3>2 DEF WeighedBy
  <2>3. CASE ~(c = b /\ d = today)
    <3>1. PhasesOfDay(c, d)' = PhasesOfDay(c, d)
      BY <1>1, <1>4, <2>3 DEF PhasesOfDay, PhasesOfBucket
    <3>2. WeighedBy(PhasesOfDay(c, d), BucketLimit[c])
      BY DEF MoneyInv, CapsHold
    <3> QED
      BY <1>2, <2>1, <3>1, <3>2 DEF WeighedBy
  <2> QED
    BY <2>2, <2>3
<1>6. ASSUME NEW r \in Runs
       PROVE  WeighedBy(PhasesOfRun(r), RunLimit)'
  <2>1. PhasesOfRun(r) \in SUBSET Phases /\ p \notin PhasesOfRun(r)
    BY <1>1 DEF PhasesOfRun
  <2>2. CASE r = RunOf[p]
    <3>1. PhasesOfRun(r)' = PhasesOfRun(r) \cup {p}
      BY <1>1, <2>2 DEF PhasesOfRun
    <3>2. Within(Exposure(PhasesOfRun(r)) + amount, RunLimit)
      BY <1>1, <1>4, <2>2
    <3> QED
      BY <1>3, <2>1, <3>1, <3>2 DEF WeighedBy
  <2>3. CASE r # RunOf[p]
    <3>1. PhasesOfRun(r)' = PhasesOfRun(r)
      BY <1>1, <2>3 DEF PhasesOfRun
    <3>2. WeighedBy(PhasesOfRun(r), RunLimit)
      BY DEF MoneyInv, CapsHold
    <3> QED
      BY <1>2, <2>1, <3>1, <3>2 DEF WeighedBy
  <2> QED
    BY <2>2, <2>3
<1> QED
  BY <1>1, <1>5, <1>6 DEF MoneyInv, CapsHold

(* Nothing is spent at first but what the cutover brought in.              *)
LEMMA InitWeighs ==
  ASSUME Init
  PROVE  /\ MoneyShape /\ \A p \in Phases : PhaseCovers(p)
         /\ \A P \in SUBSET Phases, limit \in Nat \cup {None} : WeighedBy(P, limit)
<1> USE LedgerAssumption
<1>1. IInv
  BY InitInv
<1>2. /\ \A a \in Attempts : attempt[a] \in {NoAttempt} \cup LegacyRows
      /\ \A p \in Phases : phase[p] \in {NoPhase} \cup LegacyPhases
      /\ today \in 0..MaxDay
  BY DEF Init
<1>3. \A a \in Attempts :
        /\ attempt[a] \in AttemptRow
        /\ attempt[a].known + attempt[a].liability = attempt[a].estimate
        /\ attempt[a].billing # "RESERVED"
        /\ attempt[a].billing = "UNKNOWN_LEGACY" => attempt[a].known = 0
        /\ attempt[a].billing # "CONSERVATIVE_LIABILITY"
        /\ ~attempt[a].legacy <=> attempt[a].billing = "ABSENT"
        /\ attempt[a].billing = "ABSENT" => attempt[a].known = 0 /\ attempt[a].liability = 0
  BY <1>2, LegacyRowShape
<1>4. \A p \in Phases : /\ phase[p].state # "ACTIVE"
                        /\ phase[p].state = "ABSENT" => phase[p].bucket = None
  BY <1>2, LegacyPhaseShape
<1>5. MoneyShape
  <2>1. ASSUME NEW a \in Attempts
        PROVE  /\ attempt[a].billing = "ABSENT" => attempt[a].estimate = 0
               /\ attempt[a].billing = "UNKNOWN_LEGACY" =>
                    attempt[a].liability = attempt[a].estimate
    BY <1>3 DEF AttemptRow
  <2> QED
    BY <1>3, <1>4, <2>1 DEF MoneyShape
<1>6. \A p \in Phases : PhaseCovers(p)
  BY <1>4 DEF PhaseCovers
<1>7. ASSUME NEW P \in SUBSET Phases, NEW limit \in Nat \cup {None}
      PROVE  WeighedBy(P, limit)
  <2> DEFINE S == AttemptsIn(P)
             old == {a \in S : attempt[a].legacy}
             estimates == [a \in Attempts |-> attempt[a].estimate]
             exposed == [p \in Phases |-> ReservationExposure(p)]
  <2>1. IsFiniteSet(S) /\ IsFiniteSet(P) /\ S \subseteq Attempts /\ old \in SUBSET S
    BY FiniteRows DEF AttemptsIn
  <2>2. \A a \in S : /\ Counts[a] = estimates[a] /\ estimates[a] \in Int /\ Counts[a] \in Int
    BY <1>3, <2>1 DEF Counts, Lesser, AttemptRow
  <2>3. \A a \in S \ old : estimates[a] = 0
    BY <1>3, <1>5, <2>1 DEF MoneyShape
  <2>4. \A p \in P : exposed[p] = 0
    BY <1>1, <1>4, ClosedExposesNothing
  <2>5. Legacies[P] = SumFunctionOnSet(estimates, old)
    BY DEF Legacies, LegacyOf
  <2>6. SumFunctionOnSet(Weights, P) = SumFunctionOnSet(Counts, S) + SumFunctionOnSet(exposed, P)
        /\ SumFunctionOnSet(Counts, S) \in Nat
    BY <1>1, WeightOfMany DEF IInv
  <2> HIDE DEF S, old, estimates, exposed
  <2>7. SumFunctionOnSet(exposed, P) = 0
    BY <2>1, <2>4, SumOfZeros
  <2>8. SumFunctionOnSet(estimates, S) = SumFunctionOnSet(estimates, old)
    BY <2>1, <2>2, <2>3, SumSupport
  <2>9. SumFunctionOnSet(Counts, S) = SumFunctionOnSet(estimates, S)
    BY <2>1, <2>2, SumSame
  <2>10. SumFunctionOnSet(Weights, P) = Legacies[P] /\ Legacies[P] \in Nat
    BY <2>5, <2>6, <2>7, <2>8, <2>9
  <2> QED
    BY <2>10 DEF WeighedBy, CapOf
<1> QED
  BY <1>5, <1>6, <1>7

(* So the money is right at first.                                         *)
LEMMA InitMoney == Init => MoneyInv
<1> SUFFICES ASSUME Init PROVE MoneyInv
  OBVIOUS
<1> USE LedgerAssumption
<1>1. /\ \A b \in Buckets, d \in 0..MaxDay : PhasesOfDay(b, d) \in SUBSET Phases
      /\ \A r \in Runs : PhasesOfRun(r) \in SUBSET Phases
  BY DEF PhasesOfDay, PhasesOfBucket, PhasesOfRun
<1> QED
  BY <1>1, InitWeighs DEF MoneyInv, CapsHold

(* Leases, the clock and stuttering move no money.                         *)
LEMMA QuietMoney ==
  ASSUME IInv, MoneyInv, IInv', attempt' = attempt,
         \A p \in Phases :
           /\ phase'[p].state = phase[p].state /\ phase'[p].reservation = phase[p].reservation
           /\ phase'[p].bucket = phase[p].bucket /\ phase'[p].day = phase[p].day
  PROVE  MoneyShape' /\ RowsKept /\ \A p \in Phases : Eases(p)
<1>1. MoneyShape' /\ RowsKept
  BY DEF MoneyInv, MoneyShape, RowsKept
<1>2. TypeOK /\ TypeOK'
  BY DEF IInv
<1>3. ASSUME NEW p \in Phases
      PROVE  Eases(p)
  BY <1>2, SamePhaseEases DEF MoneyInv
<1> QED
  BY <1>1, <1>3

(* No phase became heavier, none appeared, and the columns still add up.   *)
AllEase == MoneyShape' /\ RowsKept /\ \A p \in Phases : Eases(p)

(* Every step of the ledger but the opening of a phase is of that kind.    *)
LEMMA StepEases ==
  ASSUME IInv, MoneyInv, IInv', [Next]_vars, ~AnyBeginPhase
  PROVE  AllEase
<1> USE LedgerAssumption DEF AllEase
<1>3. CASE AnyBeginAttempt
  BY <1>3, BeginAttemptMoney DEF AnyBeginAttempt
<1>4. CASE AnyMarkDispatchIntent
  BY <1>4, DispatchMoney DEF AnyMarkDispatchIntent
<1>5. CASE AnyPreDispatchFailure
  <2>1. PICK a \in Attempts, o \in Owners, close \in {"none", "FAILED"} :
          RecordPreDispatchFailure(a, o, close)
    BY <1>5 DEF AnyPreDispatchFailure
  <2>2. /\ SettleAttempt(a, "LOCAL_FAILURE", "KNOWN_ZERO", 0, 0, close)
        /\ phase[PhaseOf[a]].state = "ACTIVE" /\ attempt[a].billing = "RESERVED"
        /\ close \in CloseRequests
    BY <2>1 DEF RecordPreDispatchFailure, OwnedAndLive, CloseRequests
  <2>3. "LOCAL_FAILURE" \in TransportStates \ {"UNKNOWN_LEGACY"} /\ 0 \in Nat
    BY DEF TransportStates
  <2> QED
    BY <2>2, <2>3, SettleMoney
<1>6. CASE AnyAttemptOutcome
  <2>1. PICK a \in Attempts, o \in Owners, transport \in Transports, outcome \in Outcomes :
          RecordAttemptOutcome(a, o, transport, outcome)
    BY <1>6 DEF AnyAttemptOutcome
  <2> DEFINE liability == IF outcome.billing = "CONSERVATIVE_LIABILITY"
                          THEN attempt[a].estimate ELSE 0
  <2>2. /\ SettleAttempt(a, transport, outcome.billing, outcome.cost, liability,
                         outcome.close)
        /\ phase[PhaseOf[a]].state = "ACTIVE" /\ attempt[a].billing = "RESERVED"
    BY <2>1 DEF RecordAttemptOutcome, CanRecordOutcome, OwnedAndLive
  <2>3. /\ outcome.billing \in {"KNOWN_COST", "KNOWN_ZERO", "CONSERVATIVE_LIABILITY"}
        /\ outcome.cost \in Nat
        /\ outcome.close \in CloseRequests
    <3>1. CASE outcome \in [billing : {"KNOWN_COST"}, cost : Costs, close : CloseRequests]
      BY <3>1
    <3>2. CASE outcome \in [billing : {"KNOWN_ZERO"}, cost : {0}, close : CloseRequests]
      BY <3>2
    <3>3. CASE outcome \in [billing : {"CONSERVATIVE_LIABILITY"}, cost : {0},
                            close : CloseRequests \ {"none"}]
      BY <3>3
    <3> QED
      BY <3>1, <3>2, <3>3 DEF Outcomes
  <2>4. /\ liability \in Nat
        /\ outcome.billing = "CONSERVATIVE_LIABILITY" => liability = attempt[a].estimate
    BY DEF IInv, TypeOK, AttemptRow
  <2>5. transport \in TransportStates \ {"UNKNOWN_LEGACY"}
    BY DEF TransportStates
  <2> HIDE DEF liability
  <2> QED
    BY <2>2, <2>3, <2>4, <2>5, SettleMoney
<1>7. CASE AnyCompletePhase
  BY <1>7, CompleteMoney DEF AnyCompletePhase
<1>8. CASE ExpireSome
  BY <1>8, ExpireMoney DEF ExpireSome
<1>9. CASE AnyResolveLiability
  BY <1>9, ResolveMoney DEF AnyResolveLiability
<1>10. CASE AnyHeartbeatPhase \/ Tick \/ NextDay \/ UNCHANGED vars
  <2>1. attempt' = attempt
    BY <1>10 DEF AnyHeartbeatPhase, HeartbeatPhase, Tick, NextDay, ledger, vars
  <2>2. \A p \in Phases : phase[p] \in PhaseRow
    BY DEF IInv, TypeOK
  <2>3. \A p \in Phases :
          /\ phase'[p].state = phase[p].state /\ phase'[p].reservation = phase[p].reservation
          /\ phase'[p].bucket = phase[p].bucket /\ phase'[p].day = phase[p].day
    BY <1>10, <2>2
       DEF AnyHeartbeatPhase, HeartbeatPhase, Tick, NextDay, ledger, vars, PhaseRow, IInv, TypeOK
  <2> QED
    BY <2>1, <2>3, QuietMoney
<1> QED
  BY <1>3, <1>4, <1>5, <1>6, <1>7, <1>8, <1>9, <1>10 DEF Next

(* Such a step keeps the money right.                                      *)
LEMMA EasedMoney ==
  ASSUME IInv, IInv', MoneyInv, AllEase
  PROVE  MoneyInv'
<1>1. TypeOK /\ TypeOK' /\ CapsHold
  BY DEF IInv, MoneyInv
<1>2. \A p \in Phases : Weights'[p] <= Weights[p] /\ PhaseCovers(p)'
  BY DEF AllEase, Eases
<1>3. CapsHold'
  BY <1>1, <1>2, CapsStay DEF AllEase
<1> QED
  BY <1>2, <1>3 DEF MoneyInv, AllEase

(* Every step keeps the money right: the opening of a phase by admission,  *)
(* all others because no phase becomes heavier.                            *)
LEMMA MoneyStep == IInv /\ IInv' /\ MoneyInv /\ [Next]_vars => MoneyInv'
<1> SUFFICES ASSUME IInv, IInv', MoneyInv, [Next]_vars PROVE MoneyInv'
  OBVIOUS
<1>1. CASE AnyBeginPhase
  BY <1>1, BeginPhaseMoney DEF AnyBeginPhase
<1>2. CASE ~AnyBeginPhase
  BY <1>2, StepEases, EasedMoney
<1> QED
  BY <1>1, <1>2

(* The money of the ledger is right in every reachable state.              *)
LEMMA MoneyInvariant == Spec => []MoneyInv
  BY InitMoney, MoneyStep, LedgerInvariant, PTL DEF Spec

(* Calls in flight never hold more than their phase has left, but for what *)
(* earlier calls of it overran.                                            *)
THEOREM LedgerPendingWithinReservation == Spec => []PendingWithinReservation
<1>1. IInv /\ MoneyInv => PendingWithinReservation
  BY MoneyIsRight
<1> QED
  BY <1>1, LedgerInvariant, MoneyInvariant, PTL

(* What the calls of a bucket and day cost and owe, with what its open     *)
(* phases still reserve, stays within the daily limit, and that of one     *)
(* request over all its days within its own, but for what single calls     *)
(* cost beyond their estimate. The spend and the debts the cutover brought *)
(* in count against both limits from the start.                            *)
THEOREM LedgerSpendWithinCaps == Spec => []SpendWithinCaps
<1>1. IInv /\ MoneyInv => SpendWithinCaps
  BY MoneyIsRight
<1> QED
  BY <1>1, LedgerInvariant, MoneyInvariant, PTL

-----------------------------------------------------------------------------
(* The lifetime limit of an invite link. begin_phase compares it with a    *)
(* reading of the link's cost that its caller hands in, so it holds as far *)
(* as that reading is no older than the transaction.                       *)

(* Every link is within its lifetime limit.                                *)
LifetimeCaps == \A b \in Buckets : WeighedBy(PhasesOfBucket(b), TotalLimit[b])

(* A step that makes no phase heavier keeps the lifetime limits.           *)
LEMMA EasedLifetime ==
  ASSUME IInv, IInv', LifetimeCaps, AllEase
  PROVE  LifetimeCaps'
<1> USE LedgerAssumption
<1> SUFFICES ASSUME NEW b \in Buckets
             PROVE  WeighedBy(PhasesOfBucket(b), TotalLimit[b])'
  BY DEF LifetimeCaps
<1>1. PhasesOfBucket(b)' = PhasesOfBucket(b) /\ PhasesOfBucket(b) \in SUBSET Phases
  BY DEF PhasesOfBucket, AllEase, RowsKept
<1>2. WeighedBy(PhasesOfBucket(b), TotalLimit[b])
  BY DEF LifetimeCaps
<1>3. RowsKept /\ \A p \in Phases : Weights'[p] <= Weights[p]
  BY DEF AllEase, Eases
<1> QED
  BY <1>1, <1>2, <1>3, LighterStays DEF WeighedBy, IInv

(* A phase opened on a reading that misses nothing keeps them as well.     *)
LEMMA BeginLifetime ==
  ASSUME IInv, MoneyInv, IInv', LifetimeCaps, NEW p \in Phases, NEW b \in Buckets,
         NEW amount \in Reservations, NEW o \in Owners, NEW prior \in Nat,
         SpentBy(PhasesOfBucket(b)) <= prior, BeginPhase(p, b, amount, o, prior)
  PROVE  LifetimeCaps'
<1> USE LedgerAssumption
<1>1. /\ phase[p].bucket = None /\ phase'[p].bucket = b
      /\ \A q \in Phases \ {p} : phase'[q] = phase[q]
      /\ Weights'[p] = amount /\ amount \in Nat
      /\ \A q \in Phases \ {p} : Weights'[q] = Weights[q]
      /\ \A q \in Phases : Weights[q] \in Int
      /\ \A P \in SUBSET Phases : Legacies'[P] = Legacies[P] /\ Legacies[P] \in Nat
  BY BeginWeighs
<1> SUFFICES ASSUME NEW c \in Buckets
             PROVE  WeighedBy(PhasesOfBucket(c), TotalLimit[c])'
  BY DEF LifetimeCaps
<1>2. PhasesOfBucket(c) \in SUBSET Phases /\ p \notin PhasesOfBucket(c)
  BY <1>1 DEF PhasesOfBucket
<1>3. CASE c = b
  <2>1. PhasesOfBucket(c)' = PhasesOfBucket(c) \cup {p}
    BY <1>1, <1>3 DEF PhasesOfBucket
  <2>2. Within(Exposure(PhasesOfBucket(c)) + amount, TotalLimit[c])
    <3>1. Within(prior + ActiveReservation(PhasesOfBucket(b)) + amount, TotalLimit[b])
      BY DEF BeginPhase, AdmittedWithin
    <3>2. Exposure(PhasesOfBucket(b)) \in Nat
      BY <1>2, <1>3, WeightIsExposed
    <3>3. /\ SpentBy(PhasesOfBucket(b)) \in Nat
          /\ ActiveReservation(PhasesOfBucket(b)) \in Nat
      BY <1>2, <1>3, ExposureParts DEF IInv
    <3> QED
      BY <1>1, <1>3, <3>1, <3>2, <3>3 DEF Within, Exposure
  <2>3. PhasesOfBucket(c) \cup {p} \in SUBSET Phases
    BY <1>2
  <2>4. /\ Legacies'[PhasesOfBucket(c) \cup {p}] \in Nat
        /\ Legacies'[PhasesOfBucket(c)] = Legacies[PhasesOfBucket(c)]
    BY <1>1, <1>2, <2>3
  <2>5. TotalLimit[c] \in Nat \cup {None}
    OBVIOUS
  <2> QED
    BY <1>1, <1>2, <2>1, <2>2, <2>4, <2>5, BeginFits DEF WeighedBy
<1>4. CASE c # b
  <2>1. PhasesOfBucket(c)' = PhasesOfBucket(c)
    BY <1>1, <1>4 DEF PhasesOfBucket
  <2>2. WeighedBy(PhasesOfBucket(c), TotalLimit[c])
    BY DEF LifetimeCaps
  <2>3. Legacies'[PhasesOfBucket(c)] = Legacies[PhasesOfBucket(c)]
    BY <1>1, <1>2
  <2> QED
    BY <1>1, <1>2, <2>1, <2>2, <2>3, BeginOthers DEF WeighedBy
<1> QED
  BY <1>3, <1>4

(* If the lifetime cost of a link were read in the transaction that opens  *)
(* the phase, as it is in BudgetLedger, what its calls cost and owe (those *)
(* of the cutover too) and what its open phases reserve would stay within  *)
(* its lifetime limit, but for what single calls overran.                  *)
THEOREM LedgerLifetimeSpendWithinCap ==
  Spec => [](\A b \in Buckets : CappedBy(PhasesOfBucket(b), TotalLimit[b]))
<1> USE LedgerAssumption
<1>1. \A b \in Buckets : PhasesOfBucket(b) \in SUBSET Phases
  BY DEF PhasesOfBucket
<1>2. Init => LifetimeCaps
  BY <1>1, InitWeighs DEF LifetimeCaps
<1>3. IInv /\ IInv' /\ MoneyInv /\ LifetimeCaps /\ [Next]_vars => LifetimeCaps'
  <2> SUFFICES ASSUME IInv, IInv', MoneyInv, LifetimeCaps, [Next]_vars
               PROVE  LifetimeCaps'
    OBVIOUS
  <2>1. CASE AnyBeginPhase
    <3>1. PICK p \in Phases, b \in Buckets, amount \in Reservations, o \in Owners :
            BeginPhase(p, b, amount, o, SpentBy(PhasesOfBucket(b)))
      BY <2>1 DEF AnyBeginPhase
    <3>2. SpentBy(PhasesOfBucket(b)) \in Nat
      BY <1>1, ExposureParts DEF IInv
    <3>3. SpentBy(PhasesOfBucket(b)) <= SpentBy(PhasesOfBucket(b))
      BY <3>2
    <3> QED
      BY <3>1, <3>2, <3>3, BeginLifetime
  <2>2. CASE ~AnyBeginPhase
    BY <2>2, StepEases, EasedLifetime
  <2> QED
    BY <2>1, <2>2
<1>4. IInv /\ LifetimeCaps =>
        \A b \in Buckets : CappedBy(PhasesOfBucket(b), TotalLimit[b])
  BY <1>1, WeighedIsCapped DEF LifetimeCaps, IInv
<1> QED
  BY <1>2, <1>3, <1>4, LedgerInvariant, MoneyInvariant, PTL DEF Spec
=============================================================================
