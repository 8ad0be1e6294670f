------------------------ MODULE CallAdmissionProofs ------------------------
(***************************************************************************)
(* Proofs about CallAdmission for any threads, requests, limits, estimates *)
(* and overruns. First the money (IInv), then, on top of it, the queue,    *)
(* the slots and the running totals (CountInv), then the order of the queue *)
(* and that not everybody waits.                                           *)
(***************************************************************************)
EXTENDS CallAdmission, SumProofs, SequenceTheorems, TLAPS

\* The types of all but the queue and the counts.
MoneyTypes ==
  /\ pc \in [Calls -> {"idle", "queued"} \cup InSlotStates]
  /\ estimate \in [Calls -> Nat]
  /\ pending \subseteq Calls /\ unknown \subseteq Calls
  /\ held \in [Runs -> Int]
  /\ known \in [Runs -> Nat] /\ overrun \in [Runs -> Nat]

\* Whoever doubts has raised the flag of its request.
DoubtIsKnown == \A c \in Calls : pc[c] = "doubtful" => RunOf[c] \in uncertain

\* A thread that asks for money has none: one that left a call of unknown cost
\* behind is refused before it gets here.
AskerHoldsNothing == \A c \in Calls : pc[c] \in {"counted", "checked"} => c \notin pending

IInv ==
  /\ MoneyTypes
  /\ DoubtIsKnown
  /\ AskerHoldsNothing
  /\ ReservationFollowsCall
  /\ UnknownMeansUncertain
  /\ AccountedWithinTotal

LEMMA InitIInv == Init => IInv
BY AdmissionAssumption DEF Init, IInv, MoneyTypes, DoubtIsKnown, AskerHoldsNothing,
   ReservationFollowsCall, UnknownMeansUncertain, AccountedWithinTotal, InSlotStates

\* Where a thread may go, with nothing but its place changed for the money.
Moves(c, from, to) ==
  /\ Goto(c, from, to)
  /\ UNCHANGED <<pending, unknown, held, known, overrun>>

(* Steps that leave the money alone: each keeps the invariant if the place *)
(* it leads to agrees with what the thread holds.                          *)
LEMMA MovePreserves ==
  ASSUME IInv, NEW c \in Calls, NEW from, NEW to \in {"idle", "queued"} \cup InSlotStates,
         Moves(c, from, to),
         estimate' \in [Calls -> Nat],
         uncertain \subseteq uncertain',
         to = "doubtful" => RunOf[c] \in uncertain',
         to \in {"counted", "checked"} => c \notin pending,
         to \in {"reserved", "begun", "cleared", "sent", "doubtful"} => c \in pending,
         to \in {"idle", "queued", "entered", "leaving"} => c \notin pending \/ c \in unknown
  PROVE  IInv'
<1> USE DEF IInv, Moves, Goto
<1>1. MoneyTypes'
  BY DEF MoneyTypes
<1>2. \A d \in Calls : pc'[d] = IF d = c THEN to ELSE pc[d]
  BY DEF MoneyTypes
<1>3. DoubtIsKnown' /\ AskerHoldsNothing' /\ ReservationFollowsCall'
  BY <1>2 DEF DoubtIsKnown, AskerHoldsNothing, ReservationFollowsCall
<1>4. UnknownMeansUncertain'
  BY DEF UnknownMeansUncertain
<1>5. AccountedWithinTotal'
  BY DEF AccountedWithinTotal
<1> QED
  BY <1>1, <1>3, <1>4, <1>5

(* Giving the estimate back, before or after the call.                     *)
LEMMA LeavePreserves ==
  ASSUME IInv, NEW c \in Calls, NEW from, Goto(c, from, "leaving"),
         NEW more \in Nat, NEW over \in Nat, more <= estimate[c] + over,
         pending' = pending \ {c}, unknown' = unknown \ {c},
         held' = [held EXCEPT ![RunOf[c]] = @ - estimate[c]],
         known' = [known EXCEPT ![RunOf[c]] = @ + more],
         overrun' = [overrun EXCEPT ![RunOf[c]] = @ + over],
         UNCHANGED estimate, uncertain \subseteq uncertain'
  PROVE  IInv'
<1> USE AdmissionAssumption DEF IInv, Goto
<1>1. RunOf[c] \in Runs /\ estimate[c] \in Nat
  BY DEF MoneyTypes
<1>2. MoneyTypes'
  BY <1>1 DEF MoneyTypes, InSlotStates
<1>3. \A d \in Calls : pc'[d] = IF d = c THEN "leaving" ELSE pc[d]
  BY DEF MoneyTypes
<1>4. DoubtIsKnown' /\ AskerHoldsNothing' /\ ReservationFollowsCall'
  BY <1>3 DEF DoubtIsKnown, AskerHoldsNothing, ReservationFollowsCall
<1>5. UnknownMeansUncertain'
  BY DEF UnknownMeansUncertain
<1>6. ASSUME NEW r \in Runs PROVE known'[r] + held'[r] <= Total + overrun'[r]
  <2>1. /\ known[r] \in Nat /\ held[r] \in Int /\ overrun[r] \in Nat
        /\ known[r] + held[r] <= Total + overrun[r]
    BY <1>6 DEF MoneyTypes, AccountedWithinTotal
  <2>2. CASE r = RunOf[c]
    <3>1. /\ known'[r] = known[r] + more /\ held'[r] = held[r] - estimate[c]
          /\ overrun'[r] = overrun[r] + over
      BY <2>2, <1>1 DEF MoneyTypes
    <3> QED
      BY <3>1, <2>1, <1>1
  <2>3. CASE r # RunOf[c]
    BY <2>3, <2>1, <1>1 DEF MoneyTypes
  <2> QED
    BY <2>2, <2>3
<1>7. AccountedWithinTotal'
  BY <1>6 DEF AccountedWithinTotal
<1> QED
  BY <1>2, <1>4, <1>5, <1>7

(* The reservation is the one step that takes money.                       *)
LEMMA ReservePreserves ==
  ASSUME IInv, NEW c \in Calls, Reserve(c)
  PROVE  IInv'
<1> USE AdmissionAssumption DEF IInv, Reserve, Goto, flags, queue
<1>1. RunOf[c] \in Runs /\ estimate[c] \in Nat
  BY DEF MoneyTypes
<1>2. MoneyTypes'
  BY <1>1 DEF MoneyTypes, InSlotStates
<1>3. \A d \in Calls : pc'[d] = IF d = c THEN "reserved" ELSE pc[d]
  BY DEF MoneyTypes
<1>4. DoubtIsKnown' /\ AskerHoldsNothing' /\ ReservationFollowsCall'
  BY <1>3 DEF DoubtIsKnown, AskerHoldsNothing, ReservationFollowsCall
<1>5. UnknownMeansUncertain'
  BY DEF UnknownMeansUncertain
<1>6. ASSUME NEW r \in Runs PROVE known'[r] + held'[r] <= Total + overrun'[r]
  <2>1. /\ known[r] \in Nat /\ held[r] \in Int /\ overrun[r] \in Nat
        /\ known[r] + held[r] <= Total + overrun[r]
    BY <1>6 DEF MoneyTypes, AccountedWithinTotal
  <2>2. held'[r] = IF r = RunOf[c] THEN held[r] + estimate[c] ELSE held[r]
    BY <1>1, <1>6 DEF MoneyTypes
  <2>3. known[RunOf[c]] + held[RunOf[c]] + estimate[c] <= Total
    BY DEF Fits
  <2> QED
    BY <2>1, <2>2, <2>3, <1>1
<1>7. AccountedWithinTotal'
  BY <1>6 DEF AccountedWithinTotal
<1> QED
  BY <1>2, <1>4, <1>5, <1>7

(* mark_unknown comes after the flag.                                      *)
LEMMA MarkUnknownPreserves ==
  ASSUME IInv, NEW c \in Calls, MarkUnknown(c)
  PROVE  IInv'
<1> USE DEF IInv, MarkUnknown, Goto, flags
<1>1. MoneyTypes'
  BY DEF MoneyTypes, InSlotStates
<1>2. \A d \in Calls : pc'[d] = IF d = c THEN "leaving" ELSE pc[d]
  BY DEF MoneyTypes
<1>3. DoubtIsKnown' /\ AskerHoldsNothing' /\ ReservationFollowsCall'
  BY <1>2 DEF DoubtIsKnown, AskerHoldsNothing, ReservationFollowsCall
<1>4. UnknownMeansUncertain'
  BY DEF UnknownMeansUncertain, DoubtIsKnown
<1>5. AccountedWithinTotal'
  BY DEF AccountedWithinTotal
<1> QED
  BY <1>1, <1>3, <1>4, <1>5

LEMMA StepIInv == IInv /\ [Next]_vars => IInv'
<1> SUFFICES ASSUME IInv, [Next]_vars PROVE IInv'
  OBVIOUS
<1> USE AdmissionAssumption
<1>1. ASSUME NEW c \in Calls, Enqueue(c) \/ TakeSlot(c) \/ LeaveQueue(c) PROVE IInv'
  <2>1. \E from \in {"idle", "queued"}, to \in {"idle", "queued", "entered"} :
          Moves(c, from, to) /\ UNCHANGED <<estimate, uncertain>>
    BY <1>1 DEF Enqueue, TakeSlot, LeaveQueue, Moves, flags, money, queue
  <2> QED
    BY <2>1, MovePreserves DEF IInv, MoneyTypes, ReservationFollowsCall, Moves, Goto, InSlotStates
<1>2. ASSUME NEW c \in Calls, LeaveSlot(c) PROVE IInv'
  <2>1. Moves(c, "leaving", "idle") /\ UNCHANGED uncertain
    BY <1>2 DEF LeaveSlot, Moves, flags, money
  <2>2. estimate' \in [Calls -> Nat]
    BY <1>2 DEF LeaveSlot, IInv, MoneyTypes
  <2> QED
    BY <2>1, <2>2, MovePreserves DEF IInv, ReservationFollowsCall, Moves, Goto
<1>3. ASSUME NEW c \in Calls, ReserveProviderCall(c) PROVE IInv'
  <2>1. Moves(c, "entered", "counted") /\ UNCHANGED uncertain
    BY <1>3 DEF ReserveProviderCall, Moves, flags, money
  <2>2. estimate' \in [Calls -> Nat]
    BY <1>3 DEF ReserveProviderCall, IInv, MoneyTypes
  <2>3. c \notin pending
    <3>1. RunOf[c] \notin uncertain /\ pc[c] = "entered"
      BY <1>3 DEF ReserveProviderCall, Refused, Goto
    <3> QED
      BY <3>1 DEF IInv, ReservationFollowsCall, UnknownMeansUncertain
  <2> QED
    BY <2>1, <2>2, <2>3, MovePreserves DEF InSlotStates
<1>4. ASSUME NEW c \in Calls,
             RefuseProviderCall(c) \/ CheckAdmission(c) \/ WaitForMoney(c) \/ RefuseReservation(c)
      PROVE  IInv'
  <2>1. \E from \in {"entered", "counted", "checked"} : \E to \in {"counted", "checked", "leaving"} :
          /\ Moves(c, from, to) /\ UNCHANGED <<estimate, uncertain>>
          /\ from = "entered" => to = "leaving"
    BY <1>4 DEF RefuseProviderCall, CheckAdmission, WaitForMoney, RefuseReservation, Moves, flags,
       money, Goto
  <2> QED
    BY <2>1, MovePreserves DEF IInv, MoneyTypes, ReservationFollowsCall, AskerHoldsNothing, Moves,
       Goto, InSlotStates
<1>5. ASSUME NEW c \in Calls,
             BeginAttempt(c) \/ ClearForDispatch(c) \/ Send(c) \/ Doubt(c)
      PROVE  IInv'
  <2>1. \E from \in {"reserved", "begun", "cleared", "sent"} :
        \E to \in {"begun", "cleared", "sent", "doubtful"} :
          /\ Moves(c, from, to) /\ UNCHANGED estimate
          /\ uncertain \subseteq uncertain' /\ (to = "doubtful" => RunOf[c] \in uncertain')
    BY <1>5 DEF BeginAttempt, ClearForDispatch, Send, Doubt, Moves, flags, money
  <2> QED
    BY <2>1, MovePreserves DEF IInv, MoneyTypes, ReservationFollowsCall, Moves, Goto, InSlotStates
<1>6. ASSUME NEW c \in Calls, BeginFails(c) \/ DispatchNotStarted(c) PROVE IInv'
  <2>1. /\ \E from : Goto(c, from, "leaving")
        /\ Cancel(c) /\ UNCHANGED estimate /\ uncertain \subseteq uncertain'
    BY <1>6 DEF BeginFails, DispatchNotStarted, flags
  <2>2. /\ known' = [known EXCEPT ![RunOf[c]] = @ + 0]
        /\ overrun' = [overrun EXCEPT ![RunOf[c]] = @ + 0]
    BY <2>1 DEF Cancel, IInv, MoneyTypes
  <2>3. 0 <= estimate[c] + 0
    BY DEF IInv, MoneyTypes
  <2> QED
    BY <2>1, <2>2, <2>3, LeavePreserves DEF Cancel
<1>7. ASSUME NEW c \in Calls, Settle(c) PROVE IInv'
  <2>1. PICK actual \in 0..(estimate[c] + Overrun) :
          /\ known' = [known EXCEPT ![RunOf[c]] = @ + actual]
          /\ overrun' = [overrun EXCEPT ![RunOf[c]] =
               IF actual > estimate[c] THEN @ + (actual - estimate[c]) ELSE @]
    BY <1>7 DEF Settle
  <2> DEFINE over == IF actual > estimate[c] THEN actual - estimate[c] ELSE 0
  <2>2. estimate[c] \in Nat /\ actual \in Nat /\ over \in Nat /\ actual <= estimate[c] + over
    BY DEF IInv, MoneyTypes
  <2>3. overrun' = [overrun EXCEPT ![RunOf[c]] = @ + over]
    <3>1. CASE actual > estimate[c]
      BY <3>1, <2>1
    <3>2. CASE ~(actual > estimate[c])
      <4>1. overrun' = [overrun EXCEPT ![RunOf[c]] = @] /\ over = 0
        BY <3>2, <2>1
      <4>2. RunOf[c] \in Runs /\ overrun \in [Runs -> Nat]
        BY DEF IInv, MoneyTypes
      <4>3. overrun[RunOf[c]] + over = overrun[RunOf[c]]
        BY <4>1, <4>2
      <4> HIDE DEF over
      <4> QED
        BY <4>1, <4>3
    <3> QED
      BY <3>1, <3>2
  <2> HIDE DEF over
  <2>4. Goto(c, "sent", "leaving") /\ pending' = pending \ {c} /\ unknown' = unknown \ {c}
        /\ held' = [held EXCEPT ![RunOf[c]] = @ - estimate[c]]
        /\ UNCHANGED estimate /\ uncertain \subseteq uncertain'
    BY <1>7 DEF Settle, flags
  <2> QED
    BY <2>1, <2>2, <2>3, <2>4, LeavePreserves
<1>8. ASSUME NEW r \in Runs, ReserveCachedCall(r) \/ Halt(r) PROVE IInv'
  BY <1>8 DEF ReserveCachedCall, Halt, flags, money, queue, IInv, MoneyTypes, DoubtIsKnown,
     AskerHoldsNothing, ReservationFollowsCall, UnknownMeansUncertain, AccountedWithinTotal
<1>9. CASE UNCHANGED vars
  BY <1>9 DEF vars, flags, money, queue, IInv, MoneyTypes, DoubtIsKnown,
     AskerHoldsNothing, ReservationFollowsCall, UnknownMeansUncertain, AccountedWithinTotal
<1> QED
  BY <1>1, <1>2, <1>3, <1>4, <1>5, <1>6, <1>7, <1>8, <1>9, ReservePreserves, MarkUnknownPreserves
     DEF Next, Proceed

(* The inductive invariant of call admission.                              *)
THEOREM AdmissionInvariant == Spec => []IInv
BY InitIInv, StepIInv, PTL DEF Spec

(* What a request has spent and holds stays within its total, but for the  *)
(* overruns that are counted (provider_budget.py, reserve_call).           *)
THEOREM AdmissionAccountedWithinTotal == Spec => []AccountedWithinTotal
<1>1. IInv => AccountedWithinTotal
  BY DEF IInv
<1> QED
  BY <1>1, AdmissionInvariant, PTL

(* Money is held exactly for calls that are, or may be, with the provider. *)
THEOREM AdmissionReservationFollowsCall == Spec => []ReservationFollowsCall
<1>1. IInv => ReservationFollowsCall
  BY DEF IInv
<1> QED
  BY <1>1, AdmissionInvariant, PTL

(* Unknown money is never without the flag that closes the request.        *)
THEOREM AdmissionUnknownMeansUncertain == Spec => []UnknownMeansUncertain
<1>1. IInv => UnknownMeansUncertain
  BY DEF IInv
<1> QED
  BY <1>1, AdmissionInvariant, PTL

(* A call that waits for money waits for a sibling that is in a slot.      *)
LEMMA WaitStep ==
  ASSUME IInv, [Next]_vars, NEW c \in Calls, pc[c] = "checked", pc'[c] = "counted"
  PROVE  \E d \in pending \ unknown :
           /\ RunOf[d] = RunOf[c]
           /\ pc[d] \in {"reserved", "begun", "cleared", "sent", "doubtful"}
<1>1. \A b \in Calls : \A from, to :
        Goto(b, from, to) => from = pc[b] /\ (b = c => to = "counted") /\ (b # c => pc'[c] = pc[c])
  BY DEF Goto, IInv, MoneyTypes
<1>2. WaitForMoney(c)
  <2>1. \A b \in Calls :
          /\ Proceed(b) => WaitForMoney(c)
          /\ ~Enqueue(b) /\ ~TakeSlot(b) /\ ~LeaveQueue(b)
    <3> SUFFICES ASSUME NEW b \in Calls
                 PROVE  /\ Proceed(b) => WaitForMoney(c)
                        /\ ~Enqueue(b) /\ ~TakeSlot(b) /\ ~LeaveQueue(b)
      OBVIOUS
    <3>1. ~Enqueue(b) /\ ~TakeSlot(b) /\ ~LeaveQueue(b) /\ ~LeaveSlot(b)
      BY <1>1 DEF Enqueue, TakeSlot, LeaveQueue, LeaveSlot
    <3>2. ~ReserveProviderCall(b) /\ ~RefuseProviderCall(b) /\ ~CheckAdmission(b)
      BY <1>1 DEF ReserveProviderCall, RefuseProviderCall, CheckAdmission
    <3>3. ~Reserve(b) /\ ~RefuseReservation(b) /\ ~BeginAttempt(b) /\ ~BeginFails(b)
      BY <1>1 DEF Reserve, RefuseReservation, BeginAttempt, BeginFails
    <3>4. ~ClearForDispatch(b) /\ ~DispatchNotStarted(b) /\ ~Send(b)
      BY <1>1 DEF ClearForDispatch, DispatchNotStarted, Send
    <3>5. ~Settle(b) /\ ~Doubt(b) /\ ~MarkUnknown(b)
      BY <1>1 DEF Settle, Doubt, MarkUnknown
    <3>6. WaitForMoney(b) => b = c
      BY <1>1 DEF WaitForMoney
    <3> QED
      BY <3>1, <3>2, <3>3, <3>4, <3>5, <3>6 DEF Proceed
  <2>2. \A r \in Runs : ~ReserveCachedCall(r) /\ ~Halt(r)
    BY DEF ReserveCachedCall, Halt
  <2>3. ~UNCHANGED vars
    BY DEF vars
  <2> QED
    BY <2>1, <2>2, <2>3 DEF Next
<1>3. unknown \cap CallsOf(RunOf[c]) = {} /\ pending \cap CallsOf(RunOf[c]) # {}
  BY <1>2 DEF WaitForMoney, MayWait, StopsAtUnknown
<1>4. PICK d \in Calls : d \in pending /\ d \notin unknown /\ RunOf[d] = RunOf[c]
  BY <1>3 DEF CallsOf
<1>5. pc[d] \notin {"idle", "queued", "entered", "leaving"} \cup {"counted", "checked"}
  BY <1>4 DEF IInv, ReservationFollowsCall, AskerHoldsNothing
<1> QED
  BY <1>4, <1>5 DEF IInv, MoneyTypes, InSlotStates

(* No wait for money that cannot come.                                     *)
THEOREM AdmissionWaitsForRunningSibling == Spec => WaitsForRunningSibling
<1>1. IInv /\ [Next]_vars
      => [\A c \in Calls :
            pc[c] = "checked" /\ pc'[c] = "counted" =>
              \E d \in pending \ unknown :
                /\ RunOf[d] = RunOf[c]
                /\ pc[d] \in {"reserved", "begun", "cleared", "sent", "doubtful"}]_vars
  BY WaitStep
<1> QED
  BY <1>1, AdmissionInvariant, PTL DEF Spec, WaitsForRunningSibling

-----------------------------------------------------------------------------
(* The queue, the slots and the running total                              *)

\* The queue holds each waiter once, and nobody else.
QueueExact ==
  /\ waiters \in Seq(Calls)
  /\ ToSet(waiters) = {c \in Calls : pc[c] = "queued"}
  /\ IsInjective(waiters)

\* The limiter counts who is inside.
SlotsCounted == active = Cardinality(InSlot) /\ active <= Limit

\* The running total is the sum of what is pending.
HeldExact == \A r \in Runs : held[r] = HeldBy(r)

CountInv ==
  /\ count \in [Runs -> 0..MaxCalls]
  /\ uncertain \subseteq Runs /\ halted \subseteq Runs
  /\ QueueExact
  /\ SlotsCounted
  /\ HeldExact

(* What a queue holds, by its places.                                      *)
LEMMA QueuePlaces ==
  ASSUME NEW q \in Seq(Calls)
  PROVE  /\ Len(q) \in Nat
         /\ \A i \in 1..Len(q) : q[i] \in Calls
         /\ ToSet(q) = {q[i] : i \in 1..Len(q)}
         /\ IsInjective(q) <=> (\A i, j \in 1..Len(q) : q[i] = q[j] => i = j)
<1>1. DOMAIN q = 1..Len(q) /\ Len(q) \in Nat /\ q \in [1..Len(q) -> Calls]
  BY LenProperties
<1> QED
  BY <1>1 DEF ToSet, IsInjective

(* Joining the queue.                                                      *)
LEMMA QueueJoined ==
  ASSUME NEW q \in Seq(Calls), IsInjective(q), NEW c \in Calls, c \notin ToSet(q)
  PROVE  /\ Append(q, c) \in Seq(Calls)
         /\ ToSet(Append(q, c)) = ToSet(q) \cup {c}
         /\ IsInjective(Append(q, c))
<1> DEFINE p == Append(q, c)
<1>1. /\ p \in Seq(Calls) /\ Len(p) = Len(q) + 1
      /\ \A i \in 1..Len(q) : p[i] = q[i]
      /\ p[Len(q) + 1] = c
  BY AppendProperties
<1> HIDE DEF p
<1>2. /\ Len(q) \in Nat /\ ToSet(q) = {q[i] : i \in 1..Len(q)}
      /\ \A i, j \in 1..Len(q) : q[i] = q[j] => i = j
      /\ ToSet(p) = {p[i] : i \in 1..Len(p)}
      /\ IsInjective(p) <=> (\A i, j \in 1..Len(p) : p[i] = p[j] => i = j)
  BY <1>1, QueuePlaces
<1>3. 1..Len(p) = 1..Len(q) \cup {Len(q) + 1}
  BY <1>1, <1>2
<1>4. ToSet(p) = ToSet(q) \cup {c}
  <2>1. ToSet(p) = {p[i] : i \in 1..Len(q)} \cup {p[Len(q) + 1]}
    BY <1>2, <1>3
  <2>2. {p[i] : i \in 1..Len(q)} = {q[i] : i \in 1..Len(q)}
    BY <1>1
  <2> QED
    BY <2>1, <2>2, <1>1, <1>2
<1>5. \A i, j \in 1..Len(p) : p[i] = p[j] => i = j
  <2> SUFFICES ASSUME NEW i \in 1..Len(p), NEW j \in 1..Len(p), p[i] = p[j] PROVE i = j
    OBVIOUS
  <2>1. \A k \in 1..Len(q) : q[k] # c
    BY <1>2
  <2>2. (i \in 1..Len(q) \/ i = Len(q) + 1) /\ (j \in 1..Len(q) \/ j = Len(q) + 1)
    BY <1>3
  <2> QED
    BY <2>1, <2>2, <1>1, <1>2
<1> QED
  BY <1>1, <1>2, <1>4, <1>5 DEF p

(* A queue without its place k.                                            *)
LEMMA QueueWithout ==
  ASSUME NEW q \in Seq(Calls), IsInjective(q), NEW p \in Seq(Calls),
         NEW k \in 1..Len(q), Len(p) = Len(q) - 1,
         \A i \in 1..Len(p) : p[i] = IF i < k THEN q[i] ELSE q[i + 1]
  PROVE  ToSet(p) = ToSet(q) \ {q[k]} /\ IsInjective(p)
<1>1. /\ Len(q) \in Nat /\ ToSet(q) = {q[i] : i \in 1..Len(q)}
      /\ \A i, j \in 1..Len(q) : q[i] = q[j] => i = j
      /\ ToSet(p) = {p[i] : i \in 1..Len(p)} /\ Len(p) \in Nat
      /\ IsInjective(p) <=> (\A i, j \in 1..Len(p) : p[i] = p[j] => i = j)
  BY QueuePlaces
<1> DEFINE from(i) == IF i < k THEN i ELSE i + 1
<1>2. \A i \in 1..Len(p) : from(i) \in 1..Len(q) /\ from(i) # k /\ p[i] = q[from(i)]
  BY <1>1
<1>3. \A i, j \in 1..Len(p) : from(i) = from(j) => i = j
  BY <1>1
<1>4. \A i \in 1..Len(q) : i # k => \E j \in 1..Len(p) : from(j) = i
  <2> SUFFICES ASSUME NEW i \in 1..Len(q), i # k PROVE \E j \in 1..Len(p) : from(j) = i
    OBVIOUS
  <2>1. CASE i < k
    <3>1. i \in 1..Len(p) /\ from(i) = i
      BY <2>1, <1>1
    <3> QED
      BY <3>1
  <2>2. CASE i > k
    <3>1. i - 1 \in 1..Len(p) /\ from(i - 1) = i
      BY <2>2, <1>1
    <3> QED
      BY <3>1
  <2> QED
    BY <2>1, <2>2, <1>1
<1> HIDE DEF from
<1>5. IsInjective(p)
  BY <1>1, <1>2, <1>3
<1>6. ToSet(p) \subseteq ToSet(q) \ {q[k]}
  BY <1>1, <1>2
<1>7. ToSet(q) \ {q[k]} \subseteq ToSet(p)
  <2> SUFFICES ASSUME NEW x \in ToSet(q), x # q[k] PROVE x \in ToSet(p)
    OBVIOUS
  <2>1. PICK i \in 1..Len(q) : x = q[i]
    BY <1>1
  <2>2. PICK j \in 1..Len(p) : from(j) = i
    BY <2>1, <1>4
  <2> QED
    BY <2>1, <2>2, <1>1, <1>2
<1> QED
  BY <1>5, <1>6, <1>7

(* Being admitted: the head goes.                                          *)
LEMMA QueueServed ==
  ASSUME NEW q \in Seq(Calls), IsInjective(q), NEW c \in ToSet(q), Head(q) = c
  PROVE  /\ Tail(q) \in Seq(Calls)
         /\ ToSet(Tail(q)) = ToSet(q) \ {c}
         /\ IsInjective(Tail(q))
<1>1. Len(q) \in Nat /\ ToSet(q) = {q[i] : i \in 1..Len(q)}
  BY QueuePlaces
<1>2. 1 \in 1..Len(q) /\ q # << >>
  BY <1>1, EmptySeq
<1>3. /\ Tail(q) \in Seq(Calls) /\ Len(Tail(q)) = Len(q) - 1
      /\ \A i \in 1..Len(Tail(q)) : Tail(q)[i] = q[i + 1]
  BY <1>2, HeadTailProperties
<1>4. q[1] = c
  BY <1>2
<1>5. \A i \in 1..Len(Tail(q)) : Tail(q)[i] = IF i < 1 THEN q[i] ELSE q[i + 1]
  BY <1>3
<1>6. ToSet(Tail(q)) = ToSet(q) \ {q[1]} /\ IsInjective(Tail(q))
  BY <1>2, <1>3, <1>5, QueueWithout
<1> QED
  BY <1>3, <1>4, <1>6

(* Giving up: one's own token goes, wherever it stands.                    *)
LEMMA QueueCut ==
  ASSUME NEW q \in Seq(Calls), IsInjective(q), NEW c \in ToSet(q)
  PROVE  \E k \in 1..Len(q) :
           /\ q[k] = c
           /\ RemoveFirst(q, c) \in Seq(Calls)
           /\ Len(RemoveFirst(q, c)) = Len(q) - 1
           /\ \A i \in 1..Len(RemoveFirst(q, c)) :
                RemoveFirst(q, c)[i] = IF i < k THEN q[i] ELSE q[i + 1]
<1>1. /\ Len(q) \in Nat /\ ToSet(q) = {q[i] : i \in 1..Len(q)}
      /\ \A i \in 1..Len(q) : q[i] \in Calls
      /\ \A i, j \in 1..Len(q) : q[i] = q[j] => i = j
  BY QueuePlaces
<1>2. PICK k \in 1..Len(q) : q[k] = c
  BY <1>1
<1>3. RemoveFirst(q, c) = SubSeq(q, 1, k - 1) \o SubSeq(q, k + 1, Len(q))
  <2> DEFINE I == {i \in 1..Len(q) : q[i] = c}
  <2>1. I = {k}
    BY <1>1, <1>2
  <2>2. Min(I) = k
    <3>1. \A y \in I : k <= y
      BY <2>1
    <3> QED
      BY <2>1, <3>1 DEF Min
  <2>3. SelectInSeq(q, LAMBDA v : v = c) = k
    BY <2>1, <2>2 DEF SelectInSeq
  <2> QED
    BY <1>2, <2>3 DEF RemoveFirst, RemoveAt
<1> DEFINE a == SubSeq(q, 1, k - 1)
           b == SubSeq(q, k + 1, Len(q))
<1>4. /\ a \in Seq(Calls) /\ Len(a) = k - 1
      /\ \A i \in 1..k - 1 : a[i] = q[i]
  <2>1. \A i \in 1..k - 1 : q[i] \in Calls
    BY <1>1
  <2>2. /\ SubSeq(q, 1, k - 1) \in Seq(Calls)
        /\ Len(SubSeq(q, 1, k - 1)) = IF 1 <= k - 1 THEN k - 1 - 1 + 1 ELSE 0
        /\ \A i \in 1..k - 1 - 1 + 1 : SubSeq(q, 1, k - 1)[i] = q[1 + i - 1]
    BY <2>1, <1>1, SubSeqProperties
  <2> QED
    BY <2>2, <1>1
<1>5. /\ b \in Seq(Calls) /\ Len(b) = Len(q) - k
      /\ \A i \in 1..Len(q) - k : b[i] = q[k + i]
  <2>1. \A i \in k + 1..Len(q) : q[i] \in Calls
    BY <1>1
  <2>2. /\ SubSeq(q, k + 1, Len(q)) \in Seq(Calls)
        /\ Len(SubSeq(q, k + 1, Len(q))) = IF k + 1 <= Len(q) THEN Len(q) - (k + 1) + 1 ELSE 0
        /\ \A i \in 1..Len(q) - (k + 1) + 1 : SubSeq(q, k + 1, Len(q))[i] = q[k + 1 + i - 1]
    BY <2>1, <1>1, SubSeqProperties
  <2>3. \A i \in Int : k + 1 + i - 1 = k + i
    BY <1>1
  <2> QED
    BY <2>2, <2>3, <1>1
<1> HIDE DEF a, b
<1> DEFINE p == a \o b
<1>6. /\ p \in Seq(Calls) /\ Len(p) = Len(a) + Len(b)
      /\ \A i \in 1..Len(a) + Len(b) : p[i] = IF i <= Len(a) THEN a[i] ELSE b[i - Len(a)]
  BY <1>4, <1>5, ConcatProperties
<1> HIDE DEF p
<1>7. Len(p) = Len(q) - 1
  BY <1>1, <1>4, <1>5, <1>6
<1>8. \A i \in 1..Len(p) : p[i] = IF i < k THEN q[i] ELSE q[i + 1]
  <2> SUFFICES ASSUME NEW i \in 1..Len(p) PROVE p[i] = IF i < k THEN q[i] ELSE q[i + 1]
    OBVIOUS
  <2>1. CASE i < k
    BY <2>1, <1>1, <1>4, <1>5, <1>6
  <2>2. CASE ~(i < k)
    <3>0. i \in Nat /\ k \in Nat /\ Len(q) \in Nat /\ i <= Len(q) - 1 /\ Len(a) = k - 1
      BY <1>1, <1>4, <1>7
    <3>1. p[i] = b[i - (k - 1)] /\ i - (k - 1) \in 1..Len(q) - k
      <4>1. p[i] = b[i - Len(a)]
        <5>1. i \in 1..Len(a) + Len(b) /\ ~(i <= Len(a))
          BY <3>0, <2>2, <1>6
        <5> QED
          BY <5>1, <1>6
      <4> QED
        BY <4>1, <3>0, <2>2
    <3>2. k + (i - (k - 1)) = i + 1
      BY <1>1
    <3> QED
      BY <2>2, <3>1, <3>2, <1>5
  <2> QED
    BY <2>1, <2>2
<1>9. RemoveFirst(q, c) = p
  BY <1>3 DEF p, a, b
<1> QED
  BY <1>2, <1>6, <1>7, <1>8, <1>9

(* So it holds the others, each once.                                      *)
LEMMA QueueLeft ==
  ASSUME NEW q \in Seq(Calls), IsInjective(q), NEW c \in ToSet(q)
  PROVE  /\ RemoveFirst(q, c) \in Seq(Calls)
         /\ ToSet(RemoveFirst(q, c)) = ToSet(q) \ {c}
         /\ IsInjective(RemoveFirst(q, c))
<1> DEFINE p == RemoveFirst(q, c)
<1>1. PICK k \in 1..Len(q) :
        /\ q[k] = c
        /\ p \in Seq(Calls)
        /\ Len(p) = Len(q) - 1
        /\ \A i \in 1..Len(p) : p[i] = IF i < k THEN q[i] ELSE q[i + 1]
  BY QueueCut
<1> HIDE DEF p
<1>2. ToSet(p) = ToSet(q) \ {q[k]} /\ IsInjective(p)
  BY <1>1, QueueWithout
<1>3. p \in Seq(Calls) /\ ToSet(p) = ToSet(q) \ {c} /\ IsInjective(p)
  BY <1>1, <1>2
<1> QED
  BY <1>3 DEF p

(* What a move does to who waits and who is inside.                        *)
LEMMA MoveSets ==
  ASSUME MoneyTypes, NEW c \in Calls, NEW from,
         NEW to \in {"idle", "queued"} \cup InSlotStates, Goto(c, from, to)
  PROVE  /\ {d \in Calls : pc'[d] = "queued"} =
              IF to = "queued" THEN {d \in Calls : pc[d] = "queued"} \cup {c}
              ELSE {d \in Calls : pc[d] = "queued"} \ {c}
         /\ InSlot' = IF to \in InSlotStates THEN InSlot \cup {c} ELSE InSlot \ {c}
         /\ c \in {d \in Calls : pc[d] = "queued"} <=> from = "queued"
         /\ c \in InSlot <=> from \in InSlotStates
<1>1. \A d \in Calls : pc'[d] = IF d = c THEN to ELSE pc[d]
  BY DEF MoneyTypes, Goto
<1>2. pc[c] = from
  BY DEF Goto
<1>3. "queued" \notin InSlotStates
  BY DEF InSlotStates
<1> QED
  BY <1>1, <1>2, <1>3 DEF InSlot

LEMMA InSlotFinite == IsFiniteSet(InSlot)
BY AdmissionAssumption, FS_Subset DEF InSlot

(* A move inside, or outside, leaves the counter and its meaning alone.    *)
LEMMA SlotsStay ==
  ASSUME MoneyTypes, SlotsCounted, NEW c \in Calls, NEW from,
         NEW to \in {"idle", "queued"} \cup InSlotStates, Goto(c, from, to),
         from \in InSlotStates <=> to \in InSlotStates, UNCHANGED active
  PROVE  SlotsCounted'
<1>1. /\ InSlot' = IF to \in InSlotStates THEN InSlot \cup {c} ELSE InSlot \ {c}
      /\ c \in InSlot <=> from \in InSlotStates
  BY MoveSets
<1>2. InSlot' = InSlot
  BY <1>1
<1> QED
  BY <1>2 DEF SlotsCounted

(* Going in takes a slot, going out gives it back.                         *)
LEMMA SlotTaken ==
  ASSUME MoneyTypes, SlotsCounted, NEW c \in Calls, Goto(c, "queued", "entered"),
         active < Limit, active' = active + 1
  PROVE  SlotsCounted'
<1>1. InSlot' = InSlot \cup {c} /\ c \notin InSlot
  BY MoveSets DEF InSlotStates
<1>2. Cardinality(InSlot \cup {c}) = Cardinality(InSlot) + 1 /\ Cardinality(InSlot) \in Nat
  BY <1>1, InSlotFinite, FS_AddElement, FS_CardinalityType
<1> QED
  BY <1>1, <1>2, AdmissionAssumption DEF SlotsCounted

LEMMA SlotGiven ==
  ASSUME MoneyTypes, SlotsCounted, NEW c \in Calls, Goto(c, "leaving", "idle"),
         active' = active - 1
  PROVE  SlotsCounted'
<1>1. InSlot' = InSlot \ {c} /\ c \in InSlot
  BY MoveSets DEF InSlotStates
<1>2. Cardinality(InSlot \ {c}) = Cardinality(InSlot) - 1 /\ Cardinality(InSlot) \in Nat
  BY <1>1, InSlotFinite, FS_RemoveElement, FS_CardinalityType
<1> QED
  BY <1>1, <1>2, AdmissionAssumption DEF SlotsCounted

(* A move of one who neither waits nor will leaves the queue alone.        *)
LEMMA QueueStays ==
  ASSUME MoneyTypes, QueueExact, NEW c \in Calls, NEW from,
         NEW to \in {"idle"} \cup InSlotStates, Goto(c, from, to),
         from # "queued", UNCHANGED waiters
  PROVE  QueueExact'
<1>1. {d \in Calls : pc'[d] = "queued"} = {d \in Calls : pc[d] = "queued"}
  BY MoveSets DEF InSlotStates
<1> QED
  BY <1>1 DEF QueueExact

(* The running total when nothing pending changes, when an estimate is     *)
(* added, and when one is given back.                                      *)
LEMMA HeldStays ==
  ASSUME MoneyTypes, HeldExact, UNCHANGED <<pending, held>>,
         \A d \in pending : estimate'[d] = estimate[d]
  PROVE  HeldExact'
<1> SUFFICES ASSUME NEW r \in Runs PROVE held'[r] = HeldBy(r)'
  BY DEF HeldExact
<1> DEFINE S == pending \cap CallsOf(r)
<1>1. IsFiniteSet(S) /\ \A d \in S : estimate[d] \in Int /\ estimate'[d] = estimate[d]
  BY AdmissionAssumption, FS_Subset DEF MoneyTypes, CallsOf
<1>2. SumFunctionOnSet(estimate', S) = SumFunctionOnSet(estimate, S)
  <2> HIDE DEF S
  <2> QED
    BY <1>1, SumSame
<1> QED
  BY <1>2 DEF HeldExact, HeldBy, CallsOf

LEMMA HeldMore ==
  ASSUME MoneyTypes, HeldExact, NEW c \in Calls, c \notin pending,
         pending' = pending \cup {c}, UNCHANGED estimate,
         held' = [held EXCEPT ![RunOf[c]] = @ + estimate[c]]
  PROVE  HeldExact'
<1> SUFFICES ASSUME NEW r \in Runs PROVE held'[r] = HeldBy(r)'
  BY DEF HeldExact
<1> DEFINE S == pending \cap CallsOf(r)
<1>1. IsFiniteSet(S) /\ c \notin S /\ \A d \in S \cup {c} : estimate[d] \in Int
  BY AdmissionAssumption, FS_Subset DEF MoneyTypes, CallsOf
<1>2. held[r] = SumFunctionOnSet(estimate, S) /\ held \in [Runs -> Int] /\ RunOf[c] \in Runs
  BY AdmissionAssumption DEF HeldExact, HeldBy, MoneyTypes
<1>3. HeldBy(r)' = SumFunctionOnSet(estimate, pending' \cap CallsOf(r))
  BY DEF HeldBy, CallsOf
<1>4. CASE r = RunOf[c]
  <2>1. pending' \cap CallsOf(r) = S \cup {c}
    BY <1>4 DEF CallsOf
  <2>2. SumFunctionOnSet(estimate, S \cup {c}) = estimate[c] + SumFunctionOnSet(estimate, S)
    <3> HIDE DEF S
    <3> QED
      BY <1>1, SumAdd
  <2>3. held'[r] = held[r] + estimate[c]
    BY <1>2, <1>4
  <2>4. held[r] \in Int /\ estimate[c] \in Int
    BY <1>1, <1>2
  <2>5. HeldBy(r)' = SumFunctionOnSet(estimate, S \cup {c})
    BY <2>1, <1>3
  <2> HIDE DEF S
  <2> QED
    BY <2>2, <2>3, <2>4, <2>5, <1>2
<1>5. CASE r # RunOf[c]
  <2>1. pending' \cap CallsOf(r) = S
    BY <1>5 DEF CallsOf
  <2> QED
    BY <2>1, <1>2, <1>3, <1>5
<1> QED
  BY <1>4, <1>5

LEMMA HeldLess ==
  ASSUME MoneyTypes, HeldExact, NEW c \in Calls, c \in pending,
         pending' = pending \ {c}, UNCHANGED estimate,
         held' = [held EXCEPT ![RunOf[c]] = @ - estimate[c]]
  PROVE  HeldExact'
<1> SUFFICES ASSUME NEW r \in Runs PROVE held'[r] = HeldBy(r)'
  BY DEF HeldExact
<1> DEFINE S == pending \cap CallsOf(r)
<1>1. IsFiniteSet(S) /\ \A d \in S : estimate[d] \in Int
  BY AdmissionAssumption, FS_Subset DEF MoneyTypes, CallsOf
<1>2. held[r] = SumFunctionOnSet(estimate, S) /\ held \in [Runs -> Int] /\ RunOf[c] \in Runs
  BY AdmissionAssumption DEF HeldExact, HeldBy, MoneyTypes
<1>3. HeldBy(r)' = SumFunctionOnSet(estimate, pending' \cap CallsOf(r))
  BY DEF HeldBy, CallsOf
<1>4. CASE r = RunOf[c]
  <2>1. pending' \cap CallsOf(r) = S \ {c} /\ c \in S
    BY <1>4 DEF CallsOf
  <2>2. /\ SumFunctionOnSet(estimate, S) = estimate[c] + SumFunctionOnSet(estimate, S \ {c})
        /\ SumFunctionOnSet(estimate, S \ {c}) \in Int
    <3> HIDE DEF S
    <3>1. IsFiniteSet(S \ {c})
      BY <1>1, FS_Subset
    <3> QED
      BY <1>1, <2>1, <3>1, SumRemove, SumInt
  <2>3. held'[r] = held[r] - estimate[c]
    BY <1>2, <1>4
  <2>4. estimate[c] \in Int
    BY <1>1, <2>1
  <2>5. HeldBy(r)' = SumFunctionOnSet(estimate, S \ {c})
    BY <2>1, <1>3
  <2> HIDE DEF S
  <2> QED
    BY <2>2, <2>3, <2>4, <2>5, <1>2
<1>5. CASE r # RunOf[c]
  <2>1. pending' \cap CallsOf(r) = S
    BY <1>5 DEF CallsOf
  <2> QED
    BY <2>1, <1>2, <1>3, <1>5
<1> QED
  BY <1>4, <1>5

(* A step inside the slot that leaves the limiter alone.                   *)
LEMMA InsidePreserves ==
  ASSUME IInv, CountInv, NEW c \in Calls, NEW from \in InSlotStates, NEW to \in InSlotStates,
         Goto(c, from, to), UNCHANGED queue, count' \in [Runs -> 0..MaxCalls],
         uncertain' \subseteq Runs, halted' \subseteq Runs, HeldExact'
  PROVE  CountInv'
<1>1. from # "queued"
  BY DEF InSlotStates
<1>2. QueueExact' /\ SlotsCounted'
  BY <1>1, QueueStays, SlotsStay DEF CountInv, IInv, queue
<1> QED
  BY <1>2 DEF CountInv

LEMMA InitCountInv == Init => CountInv
<1> SUFFICES ASSUME Init PROVE CountInv
  OBVIOUS
<1> USE AdmissionAssumption DEF Init
<1>1. QueueExact
  <2>1. waiters \in Seq(Calls) /\ ToSet(waiters) = {} /\ IsInjective(waiters)
    BY DEF ToSet, IsInjective
  <2> QED
    BY <2>1 DEF QueueExact
<1>2. SlotsCounted
  <2>1. InSlot = {}
    BY DEF InSlot, InSlotStates
  <2> QED
    BY <2>1, FS_EmptySet DEF SlotsCounted
<1>3. HeldExact
  <2>1. \A r \in Runs : pending \cap CallsOf(r) = {}
    OBVIOUS
  <2> QED
    BY <2>1, SumOfNone DEF HeldExact, HeldBy
<1> QED
  BY <1>1, <1>2, <1>3 DEF CountInv

LEMMA StepCountInv == IInv /\ CountInv /\ [Next]_vars => CountInv'
<1> SUFFICES ASSUME IInv, CountInv, [Next]_vars PROVE CountInv'
  OBVIOUS
<1> USE AdmissionAssumption
<1>0. MoneyTypes /\ QueueExact /\ SlotsCounted /\ HeldExact
  BY DEF IInv, CountInv
<1>1. ASSUME NEW c \in Calls, Enqueue(c) PROVE CountInv'
  <2>1. /\ Goto(c, "idle", "queued") /\ waiters' = Append(waiters, c)
        /\ UNCHANGED <<active, count, estimate, pending, held, uncertain, halted>>
    BY <1>1 DEF Enqueue, money, flags
  <2>2. c \notin ToSet(waiters)
    BY <2>1, <1>0 DEF QueueExact, Goto
  <2>3. QueueExact'
    <3>1. {d \in Calls : pc'[d] = "queued"} = {d \in Calls : pc[d] = "queued"} \cup {c}
      BY <2>1, <1>0, MoveSets
    <3> QED
      BY <2>1, <2>2, <3>1, <1>0, QueueJoined DEF QueueExact
  <2>4. SlotsCounted'
    BY <2>1, <1>0, SlotsStay DEF InSlotStates
  <2>5. HeldExact'
    BY <2>1, <1>0, HeldStays
  <2> QED
    BY <2>1, <2>3, <2>4, <2>5 DEF CountInv
<1>2. ASSUME NEW c \in Calls, TakeSlot(c) PROVE CountInv'
  <2>1. /\ Goto(c, "queued", "entered") /\ Head(waiters) = c /\ active < Limit
        /\ waiters' = Tail(waiters) /\ active' = active + 1
        /\ UNCHANGED <<count, estimate, pending, held, uncertain, halted>>
    BY <1>2 DEF TakeSlot, money, flags
  <2>2. c \in ToSet(waiters)
    BY <2>1, <1>0 DEF QueueExact, Goto
  <2>3. QueueExact'
    <3>1. {d \in Calls : pc'[d] = "queued"} = {d \in Calls : pc[d] = "queued"} \ {c}
      BY <2>1, <1>0, MoveSets DEF InSlotStates
    <3> QED
      BY <2>1, <2>2, <3>1, <1>0, QueueServed DEF QueueExact
  <2>4. SlotsCounted'
    BY <2>1, <1>0, SlotTaken
  <2>5. HeldExact'
    BY <2>1, <1>0, HeldStays
  <2> QED
    BY <2>1, <2>3, <2>4, <2>5 DEF CountInv
<1>3. ASSUME NEW c \in Calls, LeaveQueue(c) PROVE CountInv'
  <2>1. /\ Goto(c, "queued", "idle") /\ waiters' = RemoveFirst(waiters, c)
        /\ UNCHANGED <<active, count, estimate, pending, held, uncertain, halted>>
    BY <1>3 DEF LeaveQueue, money, flags
  <2>2. c \in ToSet(waiters)
    BY <2>1, <1>0 DEF QueueExact, Goto
  <2>3. QueueExact'
    <3>1. {d \in Calls : pc'[d] = "queued"} = {d \in Calls : pc[d] = "queued"} \ {c}
      BY <2>1, <1>0, MoveSets DEF InSlotStates
    <3> QED
      BY <2>1, <2>2, <3>1, <1>0, QueueLeft DEF QueueExact
  <2>4. SlotsCounted'
    BY <2>1, <1>0, SlotsStay DEF InSlotStates
  <2>5. HeldExact'
    BY <2>1, <1>0, HeldStays
  <2> QED
    BY <2>1, <2>3, <2>4, <2>5 DEF CountInv
<1>4. ASSUME NEW c \in Calls, LeaveSlot(c) PROVE CountInv'
  <2>1. /\ Goto(c, "leaving", "idle") /\ active' = active - 1
        /\ estimate' = [estimate EXCEPT ![c] = IF c \in pending THEN @ ELSE 0]
        /\ UNCHANGED <<waiters, count, pending, held, uncertain, halted>>
    BY <1>4 DEF LeaveSlot, money, flags
  <2>2. QueueExact'
    BY <2>1, <1>0, QueueStays
  <2>3. SlotsCounted'
    BY <2>1, <1>0, SlotGiven
  <2>4. \A d \in pending : estimate'[d] = estimate[d]
    BY <2>1, <1>0 DEF MoneyTypes
  <2>5. HeldExact'
    BY <2>1, <2>4, <1>0, HeldStays
  <2> QED
    BY <2>1, <2>2, <2>3, <2>5 DEF CountInv
<1>5. ASSUME NEW c \in Calls, ReserveProviderCall(c) PROVE CountInv'
  <2>1. /\ Goto(c, "entered", "counted") /\ count[RunOf[c]] < MaxCalls
        /\ count' = [count EXCEPT ![RunOf[c]] = @ + 1]
        /\ RunOf[c] \notin uncertain
        /\ UNCHANGED <<queue, pending, held, uncertain, halted>>
    BY <1>5 DEF ReserveProviderCall, Refused, money, flags
  <2>2. \A d \in Calls : d # c => estimate'[d] = estimate[d]
    BY <1>5, <1>0 DEF ReserveProviderCall, MoneyTypes
  <2>3. c \notin pending
    BY <2>1 DEF Goto, IInv, ReservationFollowsCall, UnknownMeansUncertain
  <2>4. HeldExact'
    BY <2>1, <2>2, <2>3, <1>0, HeldStays DEF MoneyTypes
  <2>5. count' \in [Runs -> 0..MaxCalls]
    BY <2>1 DEF CountInv
  <2>6. "entered" \in InSlotStates /\ "counted" \in InSlotStates
    BY DEF InSlotStates
  <2> QED
    BY <2>1, <2>4, <2>5, <2>6, InsidePreserves DEF CountInv
<1>6. ASSUME NEW c \in Calls,
             \/ RefuseProviderCall(c) \/ CheckAdmission(c) \/ WaitForMoney(c)
             \/ RefuseReservation(c) \/ BeginAttempt(c) \/ ClearForDispatch(c) \/ Send(c)
      PROVE  CountInv'
  <2>1. \E from, to \in InSlotStates :
          Goto(c, from, to) /\ UNCHANGED <<queue, count, estimate, money, flags>>
    BY <1>6 DEF RefuseProviderCall, CheckAdmission, WaitForMoney, RefuseReservation,
       BeginAttempt, ClearForDispatch, Send, InSlotStates
  <2>2. UNCHANGED <<queue, count, estimate, pending, held, uncertain, halted>>
    BY <2>1 DEF money, flags
  <2>3. HeldExact'
    BY <2>2, <1>0, HeldStays
  <2> QED
    BY <2>1, <2>2, <2>3, InsidePreserves DEF CountInv
<1>7. ASSUME NEW c \in Calls, Doubt(c) \/ MarkUnknown(c) PROVE CountInv'
  <2>1. /\ \E from, to \in InSlotStates : Goto(c, from, to)
        /\ UNCHANGED <<queue, count, estimate, pending, held, halted>>
        /\ uncertain' \subseteq uncertain \cup {RunOf[c]}
    BY <1>7 DEF Doubt, MarkUnknown, InSlotStates, money, flags
  <2>2. HeldExact'
    BY <2>1, <1>0, HeldStays
  <2>3. uncertain' \subseteq Runs
    BY <2>1 DEF CountInv
  <2> QED
    BY <2>1, <2>2, <2>3, InsidePreserves DEF CountInv
<1>8. ASSUME NEW c \in Calls, Reserve(c) PROVE CountInv'
  <2>1. /\ Goto(c, "checked", "reserved") /\ pending' = pending \cup {c}
        /\ held' = [held EXCEPT ![RunOf[c]] = @ + estimate[c]]
        /\ UNCHANGED <<queue, count, estimate, uncertain, halted>>
    BY <1>8 DEF Reserve, flags
  <2>2. c \notin pending
    BY <2>1 DEF Goto, IInv, AskerHoldsNothing
  <2>3. HeldExact'
    BY <2>1, <2>2, <1>0, HeldMore
  <2>4. "checked" \in InSlotStates /\ "reserved" \in InSlotStates
    BY DEF InSlotStates
  <2> QED
    BY <2>1, <2>3, <2>4, InsidePreserves DEF CountInv
<1>9. ASSUME NEW c \in Calls, BeginFails(c) \/ DispatchNotStarted(c) \/ Settle(c) PROVE CountInv'
  <2>1. /\ \E from \in {"reserved", "begun", "cleared", "sent"} : Goto(c, from, "leaving")
        /\ pending' = pending \ {c}
        /\ held' = [held EXCEPT ![RunOf[c]] = @ - estimate[c]]
        /\ UNCHANGED <<queue, count, estimate, halted>>
        /\ uncertain' \subseteq uncertain \cup {RunOf[c]}
    BY <1>9 DEF BeginFails, DispatchNotStarted, Settle, Cancel, flags
  <2>2. c \in pending
    BY <2>1 DEF Goto, IInv, ReservationFollowsCall
  <2>3. HeldExact'
    BY <2>1, <2>2, <1>0, HeldLess
  <2>4. uncertain' \subseteq Runs
    BY <2>1 DEF CountInv
  <2>5. {"reserved", "begun", "cleared", "sent", "leaving"} \subseteq InSlotStates
    BY DEF InSlotStates
  <2> QED
    BY <2>1, <2>3, <2>4, <2>5, InsidePreserves DEF CountInv
<1>10. ASSUME UNCHANGED <<pc, queue, estimate, pending, held>>, count' \in [Runs -> 0..MaxCalls],
              uncertain' \subseteq Runs, halted' \subseteq Runs
       PROVE  CountInv'
  <2>1. HeldExact'
    BY <1>10, <1>0, HeldStays
  <2>2. QueueExact' /\ SlotsCounted'
    BY <1>10, <1>0 DEF QueueExact, SlotsCounted, InSlot, queue
  <2> QED
    BY <1>10, <2>1, <2>2 DEF CountInv
<1>11. ASSUME NEW r \in Runs, ReserveCachedCall(r) PROVE CountInv'
  BY <1>10, <1>11 DEF ReserveCachedCall, CountInv, money, flags
<1>12. ASSUME NEW r \in Runs, Halt(r) PROVE CountInv'
  BY <1>10, <1>12 DEF Halt, CountInv, money
<1>13. CASE UNCHANGED vars
  BY <1>10, <1>13 DEF vars, CountInv, money, flags
<1> QED
  BY <1>1, <1>2, <1>3, <1>4, <1>5, <1>6, <1>7, <1>8, <1>9, <1>11, <1>12, <1>13
     DEF Next, Proceed

(* Slots, queue and running total, along every run.                        *)
THEOREM AdmissionCounts == Spec => []CountInv
BY InitCountInv, StepCountInv, AdmissionInvariant, PTL DEF Spec

(* However calls end, the limiter's counter, its queue and the running     *)
(* total of a request are what they count (concurrency.py, slot, and       *)
(* provider_budget.py).                                                    *)
THEOREM AdmissionCountersExact == Spec => []CountersExact
<1>1. CountInv => CountersExact
  BY DEF CountInv, QueueExact, SlotsCounted, HeldExact, CountersExact
<1> QED
  BY <1>1, AdmissionCounts, PTL

(* The admission keeps its shape.                                          *)
THEOREM AdmissionTypeOK == Spec => []TypeOK
<1>1. IInv /\ CountInv => TypeOK
  <2>1. SlotsCounted => active \in Int
    BY InSlotFinite, FS_CardinalityType DEF SlotsCounted
  <2> QED
    BY <2>1 DEF IInv, CountInv, MoneyTypes, QueueExact, TypeOK
<1> QED
  BY <1>1, AdmissionCounts, AdmissionInvariant, PTL

-----------------------------------------------------------------------------
(* Why every call leaves create() again. Whoever queues is not overtaken,   *)
(* and of those inside one at least does not wait for money; EveryCallLeaves*)
(* needs beyond this only that threads which can go on do so.               *)

\* c stands before d in a queue.
Before(q, c, d) == \E i, j \in 1..Len(q) : i < j /\ q[i] = c /\ q[j] = d

(* Taking one token out does not change the order of the others.            *)
LEMMA OrderWithout ==
  ASSUME NEW q \in Seq(Calls), NEW p \in Seq(Calls), NEW k \in 1..Len(q),
         Len(p) = Len(q) - 1,
         \A i \in 1..Len(p) : p[i] = IF i < k THEN q[i] ELSE q[i + 1],
         NEW c, NEW d, c # q[k], d # q[k], Before(q, c, d)
  PROVE  Before(p, c, d)
<1>1. PICK i, j \in 1..Len(q) : i < j /\ q[i] = c /\ q[j] = d
  BY DEF Before
<1>2. Len(q) \in Nat /\ i # k /\ j # k
  BY <1>1, QueuePlaces
<1> DEFINE Place(n) == IF n < k THEN n ELSE n - 1
<1>3. ASSUME NEW n \in 1..Len(q), n # k
      PROVE  Place(n) \in 1..Len(p) /\ p[Place(n)] = q[n]
  <2>1. CASE n < k
    <3>1. n \in 1..Len(p)
      BY <1>2, <2>1
    <3> QED
      BY <2>1, <3>1
  <2>2. CASE n > k
    <3>1. n - 1 \in 1..Len(p) /\ ~(n - 1 < k) /\ ~(n < k) /\ n - 1 + 1 = n
      BY <1>2, <2>2
    <3> QED
      BY <3>1
  <2> QED
    BY <1>3, <2>1, <2>2
<1>4. Place(i) < Place(j)
  BY <1>1, <1>2
<1>5. Place(i) \in 1..Len(p) /\ Place(j) \in 1..Len(p) /\ p[Place(i)] = c /\ p[Place(j)] = d
  BY <1>1, <1>2, <1>3
<1> HIDE DEF Place
<1> QED
  BY <1>4, <1>5 DEF Before

(* The queue keeps the order of those that stay in it, and who enters was   *)
(* its head: the later of two waiters is served after the earlier is gone.  *)
LEMMA OrderStep ==
  ASSUME IInv, CountInv, Next, NEW c \in Calls, NEW d \in Calls,
         Before(waiters, c, d), pc'[c] = "queued"
  PROVE  Before(waiters', c, d) \/ pc'[d] = "idle"
<1>0. MoneyTypes /\ QueueExact /\ waiters \in Seq(Calls) /\ IsInjective(waiters)
  BY DEF IInv, CountInv, QueueExact
<1>1. CASE waiters' = waiters
  BY <1>1
<1>2. ASSUME NEW b \in Calls, Enqueue(b) PROVE Before(waiters', c, d)
  <2>1. waiters' = Append(waiters, b)
    BY <1>2 DEF Enqueue
  <2>2. /\ Len(waiters') = Len(waiters) + 1 /\ Len(waiters) \in Nat
        /\ \A i \in 1..Len(waiters) : waiters'[i] = waiters[i]
    BY <1>0, <2>1, AppendProperties
  <2> QED
    BY <2>2 DEF Before
<1>3. ASSUME NEW b \in Calls, TakeSlot(b) PROVE Before(waiters', c, d)
  <2>1. /\ Goto(b, "queued", "entered") /\ Head(waiters) = b /\ waiters' = Tail(waiters)
    BY <1>3 DEF TakeSlot
  <2>2. PICK i, j \in 1..Len(waiters) : i < j /\ waiters[i] = c /\ waiters[j] = d
    BY DEF Before
  <2>3. Len(waiters) \in Nat /\ 1 \in 1..Len(waiters) /\ waiters # << >>
    BY <1>0, <2>2, QueuePlaces, EmptySeq
  <2>4. /\ waiters' \in Seq(Calls) /\ Len(waiters') = Len(waiters) - 1
        /\ \A n \in 1..Len(waiters') : waiters'[n] = waiters[n + 1]
    BY <1>0, <2>1, <2>3, HeadTailProperties
  <2>5. waiters[1] = b /\ c # b
    BY <1>0, <2>1, <2>3 DEF Goto, MoneyTypes
  <2>6. d # waiters[1]
    <3>1. j # 1
      BY <2>2, <2>3
    <3> QED
      BY <1>0, <2>2, <2>3, <3>1, QueuePlaces
  <2>7. \A n \in 1..Len(waiters') :
          waiters'[n] = IF n < 1 THEN waiters[n] ELSE waiters[n + 1]
    BY <2>4
  <2> QED
    BY <1>0, <2>3, <2>4, <2>5, <2>6, <2>7, OrderWithout
<1>4. ASSUME NEW b \in Calls, LeaveQueue(b) PROVE Before(waiters', c, d) \/ pc'[d] = "idle"
  <2>1. Goto(b, "queued", "idle") /\ waiters' = RemoveFirst(waiters, b)
    BY <1>4 DEF LeaveQueue
  <2>2. b \in ToSet(waiters)
    BY <1>0, <2>1 DEF QueueExact, Goto
  <2>3. PICK k \in 1..Len(waiters) :
          /\ waiters[k] = b
          /\ waiters' \in Seq(Calls)
          /\ Len(waiters') = Len(waiters) - 1
          /\ \A i \in 1..Len(waiters') :
               waiters'[i] = IF i < k THEN waiters[i] ELSE waiters[i + 1]
    BY <1>0, <2>1, <2>2, QueueCut
  <2>4. c # b
    BY <1>0, <2>1 DEF Goto, MoneyTypes
  <2>5. CASE d = b
    BY <1>0, <2>1, <2>5 DEF Goto, MoneyTypes
  <2>6. CASE d # b
    BY <1>0, <2>3, <2>4, <2>6, OrderWithout
  <2> QED
    BY <2>5, <2>6
<1>5. ASSUME NEW b \in Calls, Proceed(b) PROVE waiters' = waiters
  BY <1>5
  DEF Proceed, LeaveSlot, ReserveProviderCall, RefuseProviderCall, CheckAdmission, Reserve,
      WaitForMoney, RefuseReservation, BeginAttempt, BeginFails, ClearForDispatch,
      DispatchNotStarted, Send, Settle, Doubt, MarkUnknown, queue
<1>6. ASSUME NEW r \in Runs, ReserveCachedCall(r) \/ Halt(r) PROVE waiters' = waiters
  BY <1>6 DEF ReserveCachedCall, Halt, queue
<1> QED
  BY <1>1, <1>2, <1>3, <1>4, <1>5, <1>6 DEF Next

(* First come, first served (ProviderCallLimiter): who waits behind another *)
(* goes on doing so until that one is served or gone, or gives up itself.   *)
THEOREM AdmissionFirstComeFirstServed ==
  Spec => [][\A c, d \in Calls :
               Before(waiters, c, d) /\ pc'[c] = "queued" =>
                 Before(waiters', c, d) \/ pc'[d] = "idle"]_vars
<1>1. IInv /\ CountInv /\ [Next]_vars =>
        [\A c, d \in Calls :
           Before(waiters, c, d) /\ pc'[c] = "queued" =>
             Before(waiters', c, d) \/ pc'[d] = "idle"]_vars
  BY OrderStep
<1> QED
  BY <1>1, AdmissionInvariant, AdmissionCounts, PTL DEF Spec

(* Slots and money never make everybody wait for everybody: if a call waits *)
(* for a slot or is inside one, the first waiter may enter, or a call inside*)
(* has something else to do than to wait for money.                         *)
THEOREM AdmissionNeverStuck ==
  Spec => [](waiters # << >> \/ InSlot # {} =>
               \/ /\ waiters # << >> /\ active < Limit
                  /\ Head(waiters) \in Calls /\ pc[Head(waiters)] = "queued"
               \/ \E c \in InSlot : pc[c] = "checked" => ~MayWait(c))
<1>1. ASSUME IInv, CountInv, waiters # << >> \/ InSlot # {}
      PROVE  \/ /\ waiters # << >> /\ active < Limit
                /\ Head(waiters) \in Calls /\ pc[Head(waiters)] = "queued"
             \/ \E c \in InSlot : pc[c] = "checked" => ~MayWait(c)
  <2>1. CASE InSlot = {}
    <3>1. active = 0 /\ waiters # << >>
      BY <1>1, <2>1, FS_EmptySet DEF CountInv, SlotsCounted
    <3>2. waiters \in Seq(Calls) /\ 1 \in 1..Len(waiters) /\ Head(waiters) = waiters[1]
      BY <1>1, <3>1, EmptySeq DEF CountInv, QueueExact
    <3>3. Head(waiters) \in ToSet(waiters)
      BY <3>2, QueuePlaces
    <3> QED
      BY <1>1, <3>1, <3>3, AdmissionAssumption DEF CountInv, QueueExact
  <2>2. CASE \E c \in InSlot : pc[c] = "checked" /\ MayWait(c)
    <3>1. PICK c \in InSlot : pc[c] = "checked" /\ MayWait(c)
      BY <2>2
    <3>2. PICK d \in pending \cap CallsOf(RunOf[c]) : d \notin unknown
      BY <3>1 DEF MayWait, StopsAtUnknown
    <3>3. d \in Calls /\ pc[d] \in {"reserved", "begun", "cleared", "sent", "doubtful"}
      BY <1>1, <3>2 DEF IInv, MoneyTypes, ReservationFollowsCall, AskerHoldsNothing, InSlotStates
    <3>4. d \in InSlot /\ pc[d] # "checked"
      BY <3>3 DEF InSlot, InSlotStates
    <3> QED
      BY <3>4
  <2> QED
    BY <2>1, <2>2
<1> QED
  BY <1>1, AdmissionInvariant, AdmissionCounts, PTL
=============================================================================
