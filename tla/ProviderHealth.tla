--------------------------- MODULE ProviderHealth ---------------------------
(***************************************************************************)
(* The circuit breaker of one provider,                                    *)
(* app/src/features/provider_health/store.py, and the calls it guards.     *)
(*                                                                         *)
(* A call reads its permission, is dispatched later, and reports later     *)
(* still (web/paid_runtime.py: mark_dispatch_intent, record_observation).  *)
(* Taking a probe and recording the dispatch are one transaction; an       *)
(* ordinary permission is read before that transaction begins, so it may   *)
(* be stale when the call leaves.                                          *)
(*                                                                         *)
(* open_until and probe_lease_until are kept as the time left, so that     *)
(* time needs no bound.                                                    *)
(***************************************************************************)
EXTENDS Integers, FiniteSets

CONSTANTS
  Calls,            \* threads calling the provider, each again and again
  FailuresToOpen,   \* FAILURES_TO_OPEN
  OpenCooldown,     \* OPEN_COOLDOWN_SEC, in ticks
  ProbeLease,       \* PROBE_LEASE_SEC, in ticks
  CallTime,         \* the longest timeout of a client, itself not retrying
  FailureCap        \* bound of the model: failures counted beyond it are alike

ASSUME HealthAssumption ==
  /\ FailuresToOpen \in Nat \ {0}
  /\ OpenCooldown \in Nat \ {0}
  /\ ProbeLease \in Nat
  /\ CallTime \in Nat
  /\ FailureCap \in Nat
  /\ FailureCap > FailuresToOpen

VARIABLES
  state,      \* ProviderHealthState
  failures,   \* consecutive_failures
  openLeft,   \* time until open_until
  probeLeft,  \* time until probe_lease_until
  call,       \* where each call stands
  callLeft    \* time until the client gives up on it

vars == <<state, failures, openLeft, probeLeft, call, callLeft>>
breaker == <<state, failures, openLeft, probeLeft>>

CallStates == {"idle", "cleared", "contending", "calling", "probing"}

TypeOK ==
  /\ state \in {"HEALTHY", "DEGRADED", "OPEN", "PROBING"}
  /\ failures \in 0..FailureCap
  /\ openLeft \in 0..OpenCooldown
  /\ probeLeft \in 0..ProbeLease
  /\ call \in [Calls -> CallStates]
  /\ callLeft \in [Calls -> 0..CallTime]

Init ==
  /\ state = "HEALTHY"
  /\ failures = 0
  /\ openLeft = 0
  /\ probeLeft = 0
  /\ call = [c \in Calls |-> "idle"]
  /\ callLeft = [c \in Calls |-> 0]

-----------------------------------------------------------------------------
(* _permission                                                             *)

\* Mutant: the lease of a probe that never reported does not lapse.
ProbeAllowedWhenOpen == state = "OPEN" /\ openLeft = 0

PlainAllowed == state \in {"HEALTHY", "DEGRADED"}

ProbeAllowed ==
  \/ state = "OPEN" /\ openLeft = 0
  \/ state = "PROBING" /\ probeLeft = 0

Allowed == PlainAllowed \/ ProbeAllowed

InFlight == {c \in Calls : call[c] \in {"calling", "probing"}}

Become(c, st) == call' = [call EXCEPT ![c] = st]

\* acquire_probe up to its first return: a read outside any transaction.  A
\* call that is refused stays where it is.
ReadPermission(c) ==
  /\ call[c] = "idle"
  /\ \/ PlainAllowed /\ Become(c, "cleared")
     \/ ProbeAllowed /\ Become(c, "contending")
     \/ ~Allowed /\ UNCHANGED call
  /\ UNCHANGED <<breaker, callLeft>>

Leave(c, as) ==
  /\ Become(c, as)
  /\ callLeft' = [callLeft EXCEPT ![c] = CallTime]

\* mark_dispatch_intent of a call that needed no probe.
Dispatch(c) ==
  /\ call[c] = "cleared"
  /\ Leave(c, "calling")
  /\ UNCHANGED breaker

TakeProbe ==
  /\ state' = "PROBING"
  /\ openLeft' = 0
  /\ probeLeft' = ProbeLease
  /\ UNCHANGED failures

\* Mutant: the permission read before the transaction is acted upon in it.
ContendOnFirstRead(c) ==
  /\ call[c] = "contending"
  /\ TakeProbe
  /\ Leave(c, "probing")

\* acquire_probe from BEGIN IMMEDIATE on, with the dispatch it is part of:
\* the state is read again, and may have become anything meanwhile.
Contend(c) ==
  /\ call[c] = "contending"
  /\ \/ ProbeAllowed /\ TakeProbe /\ Leave(c, "probing")
     \/ PlainAllowed /\ Leave(c, "calling") /\ UNCHANGED breaker
     \/ ~Allowed /\ Become(c, "idle") /\ UNCHANGED <<breaker, callLeft>>

-----------------------------------------------------------------------------
(* What an observation tells the breaker (record_observation).             *)

RecordSuccess ==
  /\ state' = "HEALTHY"
  /\ failures' = 0
  /\ openLeft' = 0
  /\ probeLeft' = 0

\* Mutant: the probe is handed back whatever the state.
ReleaseAnyState ==
  IF state \in {"PROBING", "OPEN"}
  THEN /\ state' = "OPEN" /\ openLeft' = 0 /\ probeLeft' = 0 /\ UNCHANGED failures
  ELSE UNCHANGED breaker

\* release_probe_without_health_signal: open again, and at once probeable.
ReleaseProbeWithoutHealthSignal ==
  IF state = "PROBING"
  THEN /\ state' = "OPEN"
       /\ openLeft' = 0
       /\ probeLeft' = 0
       /\ UNCHANGED failures
  ELSE UNCHANGED breaker

\* Mutant: one failure too many is waited for, and a probe may fail too.
ShouldOpenByCount(count) == count > FailuresToOpen

ShouldOpen(count) == state \in {"OPEN", "PROBING"} \/ count >= FailuresToOpen

RecordFailure ==
  LET count == failures + 1 IN
  /\ failures' = IF count > FailureCap THEN FailureCap ELSE count
  /\ IF ShouldOpen(count)
     THEN state' = "OPEN" /\ openLeft' = OpenCooldown
     ELSE state' = "DEGRADED" /\ openLeft' = 0
  /\ probeLeft' = 0

Return(c) ==
  /\ c \in InFlight
  /\ Become(c, "idle")
  /\ callLeft' = [callLeft EXCEPT ![c] = 0]

Answer(c) ==
  /\ Return(c)
  /\ RecordSuccess \/ ReleaseProbeWithoutHealthSignal \/ RecordFailure

\* The ledger refused the outcome, the write failed or the process died:
\* the transaction that also tells the breaker is rolled back.
LoseAnswer(c) == Return(c) /\ UNCHANGED breaker

\* A call that was cleared or contending is given up (lease lost, close
\* requested, process gone) and its transaction rolled back.
GiveUp(c) ==
  /\ call[c] \in {"cleared", "contending"}
  /\ Become(c, "idle")
  /\ UNCHANGED <<breaker, callLeft>>

-----------------------------------------------------------------------------
OneLess(n) == IF n > 0 THEN n - 1 ELSE 0

\* Time passes while no call in flight has reached the client's timeout.
Tick ==
  /\ openLeft > 0 \/ probeLeft > 0 \/ InFlight # {}
  /\ \A c \in InFlight : callLeft[c] > 0
  /\ openLeft' = OneLess(openLeft)
  /\ probeLeft' = OneLess(probeLeft)
  /\ callLeft' = [c \in Calls |-> OneLess(callLeft[c])]
  /\ UNCHANGED <<state, failures, call>>

Next ==
  \/ \E c \in Calls :
       \/ ReadPermission(c)
       \/ Dispatch(c)
       \/ Contend(c)
       \/ Answer(c)
       \/ LoseAnswer(c)
       \/ GiveUp(c)
  \/ Tick

(* Time passes, and a thread in the middle of a call goes on with it; no   *)
(* thread has to start one.                                                *)
Fairness ==
  /\ WF_vars(Tick)
  /\ \A c \in Calls :
       /\ WF_vars(Dispatch(c) \/ Contend(c) \/ GiveUp(c))
       /\ WF_vars(Answer(c) \/ LoseAnswer(c))

Spec == Init /\ [][Next]_vars

FairSpec == Spec /\ Fairness

-----------------------------------------------------------------------------
(* The four stored fields agree: a breaker that is not closed has counted  *)
(* failures, one that is open or probing has counted enough of them, and   *)
(* a deadline is kept only by the state that reads it.                     *)
RowConsistent ==
  /\ state = "HEALTHY" <=> failures = 0
  /\ state = "DEGRADED" => failures < FailuresToOpen
  /\ state \in {"OPEN", "PROBING"} => failures >= FailuresToOpen
  /\ state # "OPEN" => openLeft = 0
  /\ state # "PROBING" => probeLeft = 0

(* A cooldown in progress is cut short by a success alone: neither an      *)
(* answer without health signal nor a late failure of an older call lets   *)
(* the next call out earlier.                                              *)
CooldownNeverShortened ==
  [][state = "OPEN" /\ openLeft > 0 =>
       \/ state' = "HEALTHY"
       \/ state' = "OPEN" /\ openLeft' >= openLeft - 1]_vars

(* Of several threads that saw the breaker ready for a probe, one gets it: *)
(* while its lease runs no other call becomes a probe (acquire_probe).     *)
OneProbePerLease ==
  [][\A c \in Calls :
       call[c] # "probing" /\ call'[c] = "probing"
         => ~(state = "PROBING" /\ probeLeft > 0)]_vars

(* No outcome, and no lost outcome, closes the provider for good: calls    *)
(* are allowed again and again, without any operator.                      *)
AlwaysAllowedAgain == []<>Allowed

(* The margin of PROBE_LEASE_SEC over the call timeout is there so that no *)
(* second probe is sent while the first is still under way.                *)
OneProbeInFlight == Cardinality({c \in Calls : call[c] = "probing"}) <= 1
=============================================================================
