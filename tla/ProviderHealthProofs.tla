------------------------ MODULE ProviderHealthProofs ------------------------
(***************************************************************************)
(* Proofs about ProviderHealth for any number of calls and any timings     *)
(* that satisfy HealthAssumption.                                          *)
(***************************************************************************)
EXTENDS ProviderHealth, TLAPS

Inv == TypeOK /\ RowConsistent

(* The fields of the row agree after every operation of store.py, however  *)
(* stale the permission or the answer that caused it.                      *)
LEMMA InvStep == Inv /\ [Next]_vars => Inv'
<1> SUFFICES ASSUME Inv, [Next]_vars PROVE Inv'
  OBVIOUS
<1> USE HealthAssumption DEF Inv, TypeOK, RowConsistent, CallStates
<1>1. ASSUME NEW c \in Calls, ReadPermission(c) PROVE Inv'
  BY <1>1 DEF ReadPermission, Become, breaker
<1>2. ASSUME NEW c \in Calls, Dispatch(c) PROVE Inv'
  BY <1>2 DEF Dispatch, Leave, Become, breaker
<1>3. ASSUME NEW c \in Calls, Contend(c) PROVE Inv'
  <2>1. CASE ProbeAllowed /\ TakeProbe /\ Leave(c, "probing")
    BY <2>1 DEF ProbeAllowed, TakeProbe, Leave, Become
  <2>2. CASE PlainAllowed /\ Leave(c, "calling") /\ UNCHANGED breaker
    BY <2>2 DEF Leave, Become, breaker
  <2>3. CASE ~Allowed /\ Become(c, "idle") /\ UNCHANGED <<breaker, callLeft>>
    BY <2>3 DEF Become, breaker
  <2> QED
    BY <1>3, <2>1, <2>2, <2>3 DEF Contend
<1>4. ASSUME NEW c \in Calls, Answer(c) PROVE Inv'
  <2>1. /\ call' \in [Calls -> CallStates]
        /\ callLeft' \in [Calls -> 0..CallTime]
    BY <1>4 DEF Answer, Return, Become
  <2>2. CASE RecordSuccess
    BY <2>1, <2>2 DEF RecordSuccess
  <2>3. CASE ReleaseProbeWithoutHealthSignal
    BY <2>1, <2>3 DEF ReleaseProbeWithoutHealthSignal, breaker
  <2>4. CASE RecordFailure
    BY <2>1, <2>4 DEF RecordFailure, ShouldOpen
  <2> QED
    BY <1>4, <2>2, <2>3, <2>4 DEF Answer
<1>5. ASSUME NEW c \in Calls, LoseAnswer(c) PROVE Inv'
  BY <1>5 DEF LoseAnswer, Return, Become, breaker
<1>6. ASSUME NEW c \in Calls, GiveUp(c) PROVE Inv'
  BY <1>6 DEF GiveUp, Become, breaker
<1>7. CASE Tick
  BY <1>7 DEF Tick, OneLess
<1>8. CASE UNCHANGED vars
  BY <1>8 DEF vars
<1> QED
  BY <1>1, <1>2, <1>3, <1>4, <1>5, <1>6, <1>7, <1>8 DEF Next

(* TypeOK and RowConsistent hold in every reachable state.                 *)
THEOREM HealthInvariant == Spec => []Inv
<1>1. Init => Inv
  BY HealthAssumption DEF Init, Inv, TypeOK, RowConsistent, CallStates
<1> QED
  BY <1>1, InvStep, PTL DEF Spec

(* The same for the row alone, under the name the runs check it by.        *)
THEOREM HealthRowConsistent == Spec => []RowConsistent
<1>1. Inv => RowConsistent
  BY DEF Inv
<1> QED
  BY <1>1, HealthInvariant, PTL

(* A running cooldown ends early by a success alone: CooldownNeverShortened *)
(* for any number of late answers of older calls.                          *)
THEOREM HealthCooldownNeverShortened == Spec => CooldownNeverShortened
<1>1. Inv /\ [Next]_vars =>
        [state = "OPEN" /\ openLeft > 0 =>
           \/ state' = "HEALTHY"
           \/ state' = "OPEN" /\ openLeft' >= openLeft - 1]_vars
  <2> SUFFICES ASSUME Inv, Next, state = "OPEN", openLeft > 0
               PROVE  state' = "HEALTHY" \/ (state' = "OPEN" /\ openLeft' >= openLeft - 1)
    OBVIOUS
  <2> USE HealthAssumption DEF Inv, TypeOK, breaker
  <2>1. CASE \E c \in Calls : ReadPermission(c) \/ Dispatch(c) \/ LoseAnswer(c) \/ GiveUp(c)
    BY <2>1 DEF ReadPermission, Dispatch, LoseAnswer, GiveUp
  <2>2. CASE \E c \in Calls : Contend(c)
    BY <2>2 DEF Contend, ProbeAllowed, PlainAllowed
  <2>3. CASE \E c \in Calls : Answer(c)
    BY <2>3 DEF Answer, RecordSuccess, ReleaseProbeWithoutHealthSignal, RecordFailure,
                ShouldOpen
  <2>4. CASE Tick
    BY <2>4 DEF Tick, OneLess
  <2> QED
    BY <2>1, <2>2, <2>3, <2>4 DEF Next
<1> QED
  BY <1>1, HealthInvariant, PTL DEF Spec, CooldownNeverShortened

(* However many threads contend, a probe lease admits one probe while it   *)
(* runs: the permission is read again inside the transaction.              *)
THEOREM HealthOneProbePerLease == Spec => OneProbePerLease
<1>1. Inv /\ [Next]_vars =>
        [\A c \in Calls :
           call[c] # "probing" /\ call'[c] = "probing"
             => ~(state = "PROBING" /\ probeLeft > 0)]_vars
  <2> SUFFICES ASSUME Inv, Next, NEW c \in Calls,
                      call[c] # "probing", call'[c] = "probing"
               PROVE  ~(state = "PROBING" /\ probeLeft > 0)
    OBVIOUS
  <2> USE DEF Inv, TypeOK, Become
  <2>1. ASSUME NEW d \in Calls,
               ReadPermission(d) \/ Dispatch(d) \/ Answer(d) \/ LoseAnswer(d) \/ GiveUp(d)
        PROVE  FALSE
    BY <2>1 DEF ReadPermission, Dispatch, Leave, Answer, LoseAnswer, Return, GiveUp
  <2>2. ASSUME NEW d \in Calls, Contend(d)
        PROVE  ~(state = "PROBING" /\ probeLeft > 0)
    BY <2>2 DEF Contend, Leave, ProbeAllowed
  <2>3. CASE Tick
    BY <2>3 DEF Tick
  <2> QED
    BY <2>1, <2>2, <2>3 DEF Next
<1> QED
  BY <1>1, HealthInvariant, PTL DEF Spec, OneProbePerLease

-----------------------------------------------------------------------------
(* Why a refusal does not last. AlwaysAllowedAgain needs beyond this that   *)
(* time passes and that calls under way come to an end.                     *)

\* Calls that may yet tell the breaker something.
Busy == {c \in Calls : call[c] # "idle"}

\* How long the breaker will go on refusing if it hears of nothing.
WaitLeft == openLeft + probeLeft

(* While the breaker refuses no call joins those under way, however stale   *)
(* the permissions that are still held; each of them can put the end off at *)
(* most once, by a failure it reports; and every tick brings it nearer.     *)
THEOREM HealthRefusalRunsOut ==
  Spec => [][~Allowed /\ ~Allowed' =>
               /\ WaitLeft > 0
               /\ Busy' \subseteq Busy
               /\ WaitLeft' <= WaitLeft \/ Busy' # Busy
               /\ Tick => WaitLeft' = WaitLeft - 1]_vars
<1>1. ASSUME Inv, Next, ~Allowed, ~Allowed'
      PROVE  /\ WaitLeft > 0
             /\ Busy' \subseteq Busy
             /\ WaitLeft' <= WaitLeft \/ Busy' # Busy
             /\ Tick => WaitLeft' = WaitLeft - 1
  <2>0. /\ (state = "OPEN" /\ openLeft > 0) \/ (state = "PROBING" /\ probeLeft > 0)
        /\ openLeft \in Nat /\ probeLeft \in Nat
        /\ openLeft = 0 \/ probeLeft = 0
        /\ call \in [Calls -> CallStates]
    BY <1>1, HealthAssumption
    DEF Inv, TypeOK, RowConsistent, Allowed, PlainAllowed, ProbeAllowed
  <2>1. WaitLeft > 0
    BY <2>0 DEF WaitLeft
  <2>2. ASSUME NEW c \in Calls,
               ReadPermission(c) \/ Dispatch(c) \/ Contend(c) \/ LoseAnswer(c) \/ GiveUp(c)
        PROVE  /\ UNCHANGED <<openLeft, probeLeft>>
               /\ Busy' \subseteq Busy
    BY <1>1, <2>0, <2>2
    DEF ReadPermission, Dispatch, Contend, LoseAnswer, GiveUp, Return, Leave, Become, breaker,
        Busy, Allowed
  <2>3. ASSUME NEW c \in Calls, Answer(c)
        PROVE  Busy' \subseteq Busy /\ Busy' # Busy
    <3>1. c \in Busy /\ call' = [call EXCEPT ![c] = "idle"]
      BY <2>3 DEF Answer, Return, InFlight, Become, Busy
    <3> QED
      BY <2>0, <3>1 DEF Busy
  <2>4. CASE Tick
    <3>1. /\ openLeft' = OneLess(openLeft) /\ probeLeft' = OneLess(probeLeft)
          /\ Busy' = Busy
      BY <2>4 DEF Tick, Busy
    <3> QED
      BY <2>0, <2>1, <3>1 DEF OneLess, WaitLeft
  <2>5. CASE ~Tick
    <3>1. PICK c \in Calls :
            \/ ReadPermission(c) \/ Dispatch(c) \/ Contend(c) \/ LoseAnswer(c) \/ GiveUp(c)
            \/ Answer(c)
      BY <1>1, <2>5 DEF Next
    <3>2. CASE Answer(c)
      BY <2>1, <2>3, <2>5, <3>2
    <3>3. CASE ~Answer(c)
      <4>1. UNCHANGED <<openLeft, probeLeft>> /\ Busy' \subseteq Busy
        BY <2>2, <3>1, <3>3
      <4>2. WaitLeft' <= WaitLeft
        BY <2>0, <4>1 DEF WaitLeft
      <4> QED
        BY <2>1, <2>5, <4>1, <4>2
    <3> QED
      BY <3>2, <3>3
  <2> QED
    BY <2>4, <2>5
<1>2. Inv /\ [Next]_vars =>
        [~Allowed /\ ~Allowed' =>
               /\ WaitLeft > 0
               /\ Busy' \subseteq Busy
               /\ WaitLeft' <= WaitLeft \/ Busy' # Busy
               /\ Tick => WaitLeft' = WaitLeft - 1]_vars
  BY <1>1
<1> QED
  BY <1>2, HealthInvariant, PTL DEF Spec
=============================================================================
