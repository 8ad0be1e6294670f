--------------------------- MODULE JobRuntimeProofs ---------------------------
(***************************************************************************)
(* Proofs about JobRuntime for any jobs, slot names, links, limits, sets of *)
(* writes that fail together and number of starts: the types, the slots,   *)
(* what was delivered, what is closed, and the way of a slot back.         *)
(***************************************************************************)
EXTENDS JobRuntime, TLAPS, FiniteSetTheorems

\* TypeOK in parts: an action disturbs a few of them.
ProcessOK ==
  /\ process \in {"serving", "draining", "cancelling", "down", "recover obs",
                  "recover link", "recover member", "recover stale"}
  /\ starts \in 0..MaxStarts
SlotsOK == running \in Nat /\ byName \in [Names -> Nat] /\ held \subseteq Jobs
PcOK == pc \in [Jobs -> {"idle", "confirm", "done", "away", "old"} \cup Live]
WorkerOK == worker \in [Jobs -> {"none", "report", "failed"} \cup Working]
HelperOK ==
  helper \in [Jobs -> {"none", "require", "deliver", "blocked", "fail", "ok", "error"}]
PhaseOK == phase \in [Jobs -> {"none", "held", "installed", "settled"}]
ObsOK == obs \in [Jobs -> {"none", "PENDING", "RUNNING", "CONFIRM", "FAILED", "REPORT"}]
LinkOK ==
  /\ link \in [Jobs -> {"none", "RUNNING", "AWAITING", "STOPPED", "INTERRUPTED", "COMPLETED"}]
  /\ \A j \in Jobs \ LinkJobs : link[j] = "none"
MemberOK ==
  /\ member \in [Jobs -> {"none", "RESERVED", "USED", "RETURNED"}]
  /\ \A j \in Jobs \ MemberJobs : member[j] = "none"
IntentOK == intent \in [Jobs -> {"none", "REQUIRED", "FAILED", "COMPLETE"}]
SetsOK == closed \subseteq Jobs /\ spoiled \subseteq Jobs /\ lost \subseteq Jobs

LEMMA Parts ==
  TypeOK <=> /\ ProcessOK /\ SlotsOK /\ PcOK /\ WorkerOK /\ HelperOK /\ PhaseOK
             /\ ObsOK /\ LinkOK /\ MemberOK /\ IntentOK /\ SetsOK
BY DEF TypeOK, ProcessOK, SlotsOK, PcOK, WorkerOK, HelperOK, PhaseOK, ObsOK, LinkOK, MemberOK,
   IntentOK, SetsOK

LEMMA PartsNext ==
  TypeOK' <=> /\ ProcessOK' /\ SlotsOK' /\ PcOK' /\ WorkerOK' /\ HelperOK' /\ PhaseOK'
              /\ ObsOK' /\ LinkOK' /\ MemberOK' /\ IntentOK' /\ SetsOK'
BY DEF TypeOK, ProcessOK, SlotsOK, PcOK, WorkerOK, HelperOK, PhaseOK, ObsOK, LinkOK, MemberOK,
   IntentOK, SetsOK

LEMMA KeptParts ==
  /\ ProcessOK /\ UNCHANGED <<process, starts>> => ProcessOK'
  /\ SlotsOK /\ UNCHANGED <<running, byName, held>> => SlotsOK'
  /\ PcOK /\ UNCHANGED pc => PcOK'
  /\ WorkerOK /\ UNCHANGED worker => WorkerOK'
  /\ HelperOK /\ UNCHANGED helper => HelperOK'
  /\ PhaseOK /\ UNCHANGED phase => PhaseOK'
  /\ ObsOK /\ UNCHANGED obs => ObsOK'
  /\ LinkOK /\ UNCHANGED link => LinkOK'
  /\ MemberOK /\ UNCHANGED member => MemberOK'
  /\ IntentOK /\ UNCHANGED intent => IntentOK'
  /\ SetsOK /\ UNCHANGED <<closed, spoiled, lost>> => SetsOK'
BY DEF ProcessOK, SlotsOK, PcOK, WorkerOK, HelperOK, PhaseOK, ObsOK, LinkOK, MemberOK, IntentOK,
   SetsOK

(* The server starts with nothing asked for.                               *)
LEMMA InitTypes == Init => TypeOK
BY JobAssumption, SlotAssumption DEF Init, NoSlots, TypeOK

-----------------------------------------------------------------------------
(* Each write leaves what its row may hold.                                *)

LEMMA PcMoves ==
  ASSUME PcOK, NEW j \in Jobs, NEW to \in {"confirm", "done", "away"} \cup Live, Goto(j, to)
  PROVE  PcOK'
BY DEF PcOK, Goto

LEMMA HelperMoves ==
  ASSUME HelperOK, NEW j \in Jobs,
         NEW to \in {"none", "require", "deliver", "blocked", "fail", "ok", "error"}, Helper(j, to)
  PROVE  HelperOK'
BY DEF HelperOK, Helper

LEMMA WorkerMoves ==
  ASSUME WorkerOK, NEW j \in Jobs, NEW to \in {"report", "failed"} \cup Working,
         worker' = [worker EXCEPT ![j] = to]
  PROVE  WorkerOK'
BY DEF WorkerOK

LEMMA PhaseMoves ==
  ASSUME PhaseOK, NEW j \in Jobs, NEW to \in {"none", "held", "installed", "settled"},
         phase' = [phase EXCEPT ![j] = to]
  PROVE  PhaseOK'
BY DEF PhaseOK

LEMMA PhaseSettles ==
  ASSUME PhaseOK, NEW j \in Jobs, NEW bad, SettlePhase(j, bad)
  PROVE  PhaseOK'
BY DEF PhaseOK, SettlePhase

LEMMA ObsWrites ==
  ASSUME ObsOK, NEW j \in Jobs, NEW bad,
         RecordRun(j, "FAILED", bad) \/ RecordRun(j, "REPORT", bad) \/ RecordConfirm(j, bad)
  PROVE  ObsOK'
BY DEF ObsOK, RecordRun, RecordConfirm

(* What is recorded of a report, and when, by its release mode.            *)
LEMMA WrittenObs ==
  ASSUME NEW j \in Jobs, NEW bad, RecordWritten(j, bad)
  PROVE  \/ j \in FullJobs /\ UNCHANGED obs
         \/ j \notin FullJobs /\ RecordRun(j, "REPORT", bad)
BY DEF RecordWritten

LEMMA EndObs ==
  ASSUME NEW j \in Jobs, NEW outcome, RecordEnd(j, outcome)
  PROVE  \/ j \notin FullJobs /\ UNCHANGED <<obs, spoiled>>
         \/ j \in FullJobs /\ \E bad : RecordRun(j, outcome, bad) /\ Spoil(j, bad)
BY DEF RecordEnd

LEMMA LinkWrites ==
  ASSUME LinkOK, NEW j \in Jobs, NEW bad, NEW status \in {"STOPPED", "INTERRUPTED", "AWAITING"},
         FinishLink(j, status, bad) \/ EnsureLinkClosed(j, bad)
  PROVE  LinkOK'
BY DEF LinkOK, FinishLink, EnsureLinkClosed

LEMMA ReleaseStops ==
  ASSUME LinkOK, NEW S, StopRelease(S)
  PROVE  LinkOK'
<1>1. link' = [j \in Jobs |-> IF j \in S /\ link[j] \in {"AWAITING", "INTERRUPTED"}
                              THEN "STOPPED" ELSE link[j]]
  BY DEF StopRelease
<1> QED
  BY <1>1 DEF LinkOK

LEMMA MemberWrites ==
  ASSUME MemberOK, NEW j \in Jobs, NEW bad, NEW state \in {"USED", "RETURNED"},
         SettleMember(j, state, bad)
  PROVE  MemberOK'
BY DEF MemberOK, SettleMember

LEMMA IntentFails ==
  ASSUME IntentOK, NEW S, FailIntents(S)
  PROVE  IntentOK'
<1>1. intent' = [j \in Jobs |-> IF j \in S /\ intent[j] = "REQUIRED" THEN "FAILED" ELSE intent[j]]
  BY DEF FailIntents
<1> QED
  BY <1>1 DEF IntentOK

LEMMA Spoils ==
  ASSUME SetsOK, NEW j \in Jobs, NEW bad,
         Spoil(j, bad) \/ spoiled' = spoiled \cup {j},
         UNCHANGED lost,
         UNCHANGED closed \/ closed' = closed \cup {j}
  PROVE  SetsOK'
<1>1. spoiled' \subseteq Jobs
  BY DEF SetsOK, Spoil
<1>2. closed' \subseteq Jobs /\ lost' \subseteq Jobs
  BY DEF SetsOK
<1> QED
  BY <1>1, <1>2 DEF SetsOK

(* The end of a delivery is recorded, and a write that fails spoils the job. *)
LEMMA EndTypes ==
  ASSUME ObsOK, SetsOK, UNCHANGED <<closed, lost>>, NEW j \in Jobs,
         RecordEnd(j, "FAILED") \/ RecordEnd(j, "REPORT")
  PROVE  ObsOK' /\ SetsOK'
<1>1. CASE UNCHANGED <<obs, spoiled>>
  BY <1>1 DEF ObsOK, SetsOK
<1>2. CASE \E bad : (RecordRun(j, "FAILED", bad) \/ RecordRun(j, "REPORT", bad)) /\ Spoil(j, bad)
  BY <1>2, ObsWrites, Spoils
<1> QED
  BY <1>1, <1>2, EndObs

(* A slot is taken or given back.                                          *)
LEMMA SlotMoves ==
  ASSUME SlotsOK, NEW j \in Jobs,
         (ReserveSlot(NameOf[j]) /\ held' = held \cup {j}) \/ ReleaseJobSlot(j)
  PROVE  SlotsOK'
<1>1. NameOf[j] \in Names /\ running \in Nat /\ byName \in [Names -> Nat] /\ held \subseteq Jobs
  BY JobAssumption DEF SlotsOK
<1>2. CASE ReserveSlot(NameOf[j]) /\ held' = held \cup {j}
  BY <1>1, <1>2 DEF ReserveSlot, SlotsOK
<1>3. CASE ReleaseJobSlot(j) /\ j \in held
  BY <1>1, <1>3 DEF ReleaseJobSlot, ReleaseSlot, SlotsOK, slots
<1>4. CASE ReleaseJobSlot(j) /\ j \notin held
  BY <1>1, <1>4 DEF ReleaseJobSlot, SlotsOK, slots
<1> QED
  BY <1>2, <1>3, <1>4

(* The ends of a job.                                                      *)
LEMMA CutShortTypes ==
  ASSUME TypeOK, NEW j \in Jobs, NEW bad, CutShort(j, bad)
  PROVE  SlotsOK' /\ PcOK' /\ ObsOK' /\ LinkOK' /\ MemberOK'
<1>1. SlotsOK'
  BY Parts, SlotMoves DEF CutShort
<1>2. PcOK'
  BY Parts, PcMoves DEF CutShort
<1>3. LinkOK'
  BY Parts, LinkWrites DEF CutShort
<1> QED
  BY <1>1, <1>2, <1>3, Parts, KeptParts DEF CutShort

LEMMA CloseTypes ==
  ASSUME TypeOK, NEW j \in Jobs, NEW bad, NEW published \in BOOLEAN, Close(j, published, bad)
  PROVE  SlotsOK' /\ PcOK' /\ LinkOK' /\ MemberOK'
<1>1. SlotsOK'
  BY Parts, SlotMoves DEF Close
<1>2. PcOK'
  BY Parts, PcMoves DEF Close
<1>3. LinkOK'
  BY Parts, LinkWrites DEF Close
<1>4. SettleMember(j, "USED", bad) \/ SettleMember(j, "RETURNED", bad)
  BY DEF Close
<1>5. MemberOK'
  BY <1>4, Parts, MemberWrites
<1> QED
  BY <1>1, <1>2, <1>3, <1>5

LEMMA CloseFailedTypes ==
  ASSUME TypeOK, NEW j \in Jobs, NEW bad, CloseFailed(j, bad)
  PROVE  SlotsOK' /\ PcOK' /\ ObsOK' /\ LinkOK' /\ MemberOK'
<1>1. ObsOK'
  BY Parts, ObsWrites DEF CloseFailed
<1>2. Close(j, FALSE, bad)
  BY DEF CloseFailed
<1> QED
  BY <1>1, <1>2, CloseTypes

LEMMA ForceCleanupTypes ==
  ASSUME TypeOK, NEW j \in Jobs, NEW bad, ForceCleanup(j, bad)
  PROVE  SlotsOK' /\ PhaseOK' /\ ObsOK' /\ LinkOK'
<1>1. SlotsOK'
  BY Parts, SlotMoves DEF ForceCleanup
<1>2. PhaseOK'
  BY Parts, PhaseSettles DEF ForceCleanup
<1>3. ObsOK'
  BY Parts, ObsWrites, KeptParts DEF ForceCleanup
<1>4. LinkOK'
  BY Parts, LinkWrites DEF ForceCleanup
<1> QED
  BY <1>1, <1>2, <1>3, <1>4

-----------------------------------------------------------------------------
(* Every action leaves what the variables may hold.                        *)

(* The request, up to the job that takes its slot over.                    *)
LEMMA RequestTypes ==
  ASSUME TypeOK, NEW j \in Jobs, Request(j) \/ Book(j) \/ TurnAway(j) \/ Schedule(j)
  PROVE  TypeOK'
<1> USE Parts, PartsNext, KeptParts DEF slots
<1>1. CASE Ask(j)
  <2>1. PcOK'
    BY <1>1, PcMoves DEF Ask
  <2>2. ObsOK'
    BY <1>1 DEF Ask, ObsOK
  <2> QED
    BY <1>1, <2>1, <2>2 DEF Ask
<1>2. CASE Abandon(j)
  <2>1. PICK bad : RecordConfirm(j, bad) /\ Spoil(j, bad)
    BY <1>2 DEF Abandon
  <2>2. PcOK' /\ ObsOK' /\ SetsOK'
    BY <1>2, <2>1, PcMoves, ObsWrites, Spoils DEF Abandon
  <2> QED
    BY <1>2, <2>2 DEF Abandon
<1>3. CASE Expire(j)
  <2>1. ObsOK'
    BY <1>3, ObsWrites DEF Expire
  <2> QED
    BY <1>3, <2>1 DEF Expire, memory
<1>4. CASE TakeSlot(j)
  <2>1. SlotsOK'
    BY <1>4, SlotMoves DEF TakeSlot
  <2>2. PcOK'
    BY <1>4, PcMoves DEF TakeSlot, Live
  <2>3. ObsOK'
    BY <1>4 DEF TakeSlot, ObsOK
  <2> QED
    BY <1>4, <2>1, <2>2, <2>3 DEF TakeSlot
<1>5. CASE ConsumeFails(j)
  <2>1. PICK bad : Spoil(j, bad) /\ (RecordConfirm(j, {}) \/ UNCHANGED obs)
    BY <1>5 DEF ConsumeFails
  <2>2. PcOK' /\ ObsOK' /\ SetsOK'
    BY <1>5, <2>1, PcMoves, ObsWrites, Spoils DEF ConsumeFails
  <2> QED
    BY <1>5, <2>2 DEF ConsumeFails
<1>6. CASE Book(j)
  <2>1. PcOK'
    BY <1>6, PcMoves DEF Book, Live
  <2>2. LinkOK'
    BY <1>6 DEF Book, LinkOK
  <2>3. MemberOK'
    BY <1>6 DEF Book, MemberOK
  <2> QED
    BY <1>6, <2>1, <2>2, <2>3 DEF Book
<1>7. CASE TurnAway(j)
  <2>1. PICK bad \in Failing(j, {"obs", "link", "member"}) :
          /\ RecordRun(j, "FAILED", bad) \/ UNCHANGED obs
          /\ \E status \in {"STOPPED", "INTERRUPTED"} : FinishLink(j, status, bad)
          /\ SettleMember(j, "RETURNED", bad) /\ Spoil(j, bad)
    BY <1>7, Zenon DEF TurnAway
  <2>2. SlotsOK' /\ PcOK'
    BY <1>7, SlotMoves, PcMoves DEF TurnAway
  <2>3. ObsOK' /\ LinkOK'
    BY <2>1, ObsWrites, LinkWrites
  <2>4. MemberOK' /\ SetsOK'
    BY <1>7, <2>1, MemberWrites, Spoils DEF TurnAway
  <2> QED
    BY <1>7, <2>2, <2>3, <2>4 DEF TurnAway
<1>8. CASE Schedule(j)
  <2>1. PcOK'
    BY <1>8, PcMoves DEF Schedule, Live
  <2> QED
    BY <1>8, <2>1 DEF Schedule, rows
<1> QED
  BY <1>1, <1>2, <1>3, <1>4, <1>5, <1>6, <1>7, <1>8 DEF Request

(* The pipeline thread.                                                    *)
LEMMA ThreadTypes ==
  ASSUME TypeOK, NEW j \in Jobs, Thread(j)
  PROVE  TypeOK'
<1> USE Parts, PartsNext, KeptParts DEF slots
<1>1. CASE ReservePhase(j)
  <2>1. WorkerOK' /\ PhaseOK'
    BY <1>1, WorkerMoves, PhaseMoves DEF ReservePhase, Working
  <2> QED
    BY <1>1, <2>1 DEF ReservePhase
<1>2. CASE CheckSession(j)
  <2>1. CASE j \in closed
    <3>1. PICK bad : /\ phase' = [phase EXCEPT ![j] = IF "phase" \in bad THEN phase[j] ELSE "none"]
                     /\ Spoil(j, bad)
      BY <1>2, <2>1 DEF CheckSession
    <3>2. PhaseOK'
      BY <3>1 DEF PhaseOK
    <3>3. WorkerOK' /\ SetsOK'
      BY <1>2, <2>1, <3>1, WorkerMoves, Spoils DEF CheckSession
    <3> QED
      BY <1>2, <3>2, <3>3 DEF CheckSession
  <2>2. CASE j \notin closed
    <3>1. WorkerOK'
      BY <1>2, <2>2, WorkerMoves DEF CheckSession, Working
    <3> QED
      BY <1>2, <2>2, <3>1 DEF CheckSession
  <2> QED
    BY <2>1, <2>2
<1>3. CASE InstallPhase(j)
  <2>1. WorkerOK' /\ PhaseOK'
    BY <1>3, WorkerMoves, PhaseMoves DEF InstallPhase, Working
  <2> QED
    BY <1>3, <2>1 DEF InstallPhase
<1>4. CASE EndWorker(j)
  <2>1. WorkerOK'
    BY <1>4, WorkerMoves DEF EndWorker
  <2> QED
    BY <1>4, <2>1 DEF EndWorker, rows
<1> QED
  BY <1>1, <1>2, <1>3, <1>4 DEF Thread

(* The steps of the delivery, of its helper thread and of the job.         *)
LEMMA DeliveryTypes ==
  ASSUME TypeOK, NEW j \in Jobs,
         Delivery(j) \/ AfterRequire(j) \/ AfterDeliver(j) \/ AfterFail(j) \/ AdminSettle(j)
  PROVE  TypeOK'
<1> USE Parts, PartsNext, KeptParts DEF slots
<1>1. CASE Require(j)
  <2>1. HelperOK'
    BY <1>1, HelperMoves DEF Require
  <2>2. IntentOK'
    BY <1>1 DEF Require, IntentOK
  <2> QED
    BY <1>1, <2>1, <2>2 DEF Require
<1>2. CASE Publish(j)
  <2>1. HelperOK'
    BY <1>2, HelperMoves DEF Publish
  <2>2. IntentOK'
    BY <1>2 DEF Publish, IntentOK
  <2>3. LinkOK'
    BY <1>2 DEF Publish, LinkOK
  <2> QED
    BY <1>2, <2>1, <2>2, <2>3 DEF Publish
<1>3. CASE Blocked(j) \/ Fail(j)
  <2>1. PICK bad : (UNCHANGED intent \/ FailIntents({j})) /\ Spoil(j, bad)
    BY <1>3 DEF Blocked, Fail
  <2>2. HelperOK' /\ IntentOK' /\ SetsOK'
    BY <1>3, <2>1, HelperMoves, IntentFails, Spoils DEF Blocked, Fail
  <2> QED
    BY <1>3, <2>2 DEF Blocked, Fail
<1>4. CASE StopBlocked(j)
  <2>1. PICK bad : (UNCHANGED link \/ StopRelease({j})) /\ Spoil(j, bad)
    BY <1>4 DEF StopBlocked
  <2>2. HelperOK' /\ LinkOK' /\ SetsOK'
    BY <1>4, <2>1, HelperMoves, ReleaseStops, Spoils DEF StopBlocked
  <2> QED
    BY <1>4, <2>2 DEF StopBlocked
<1>5. CASE AfterRequire(j)
  <2>1. PcOK' /\ HelperOK'
    BY <1>5, PcMoves, HelperMoves DEF AfterRequire, Live, Awaiting
  <2>2. LinkOK'
    BY <1>5, LinkWrites DEF AfterRequire
  <2>3. ObsOK' /\ SetsOK'
    <3>1. UNCHANGED <<obs, spoiled>> \/ RecordEnd(j, "FAILED")
      BY <1>5 DEF AfterRequire
    <3>2. UNCHANGED <<closed, lost>>
      BY <1>5 DEF AfterRequire
    <3> QED
      BY <3>1, <3>2, EndTypes DEF ObsOK, SetsOK
  <2> QED
    BY <1>5, <2>1, <2>2, <2>3 DEF AfterRequire
<1>6. CASE AfterDeliver(j)
  <2>1. PcOK' /\ HelperOK'
    BY <1>6, PcMoves, HelperMoves DEF AfterDeliver, Live, Awaiting
  <2>2. ObsOK' /\ SetsOK'
    <3>1. UNCHANGED <<obs, spoiled>> \/ RecordEnd(j, "FAILED") \/ RecordEnd(j, "REPORT")
      BY <1>6 DEF AfterDeliver
    <3>2. UNCHANGED <<closed, lost>>
      BY <1>6 DEF AfterDeliver
    <3> QED
      BY <3>1, <3>2, EndTypes DEF ObsOK, SetsOK
  <2> QED
    BY <1>6, <2>1, <2>2 DEF AfterDeliver
<1>7. CASE AfterFail(j)
  <2>1. PcOK' /\ HelperOK'
    BY <1>7, PcMoves, HelperMoves DEF AfterFail, Live, Awaiting
  <2>2. ObsOK' /\ SetsOK'
    <3>1. UNCHANGED <<obs, spoiled>> \/ RecordEnd(j, "FAILED") \/ RecordEnd(j, "REPORT")
      BY <1>7 DEF AfterFail
    <3>2. UNCHANGED <<closed, lost>>
      BY <1>7 DEF AfterFail
    <3> QED
      BY <3>1, <3>2, EndTypes DEF ObsOK, SetsOK
  <2> QED
    BY <1>7, <2>1, <2>2 DEF AfterFail
<1>8. CASE AdminSettle(j)
  <2>1. PICK bad : (UNCHANGED link \/ StopRelease({j})) /\ Spoil(j, bad)
    BY <1>8 DEF AdminSettle
  <2>2. IntentOK' /\ LinkOK' /\ SetsOK'
    BY <1>8, <2>1, IntentFails, ReleaseStops, Spoils DEF AdminSettle, memory
  <2> QED
    BY <1>8, <2>2 DEF AdminSettle, memory
<1> QED
  BY <1>1, <1>2, <1>3, <1>4, <1>5, <1>6, <1>7, <1>8 DEF Delivery

(* The job.                                                                *)
LEMMA TaskTypes ==
  ASSUME TypeOK, NEW j \in Jobs,
         StartTask(j) \/ Collect(j) \/ Deadline(j) \/ AfterSession(j)
  PROVE  TypeOK'
<1> USE Parts, PartsNext, KeptParts DEF slots
<1>1. CASE StartTask(j)
  <2>1. CASE Serving
    <3>1. PcOK' /\ WorkerOK'
      BY <1>1, <2>1, PcMoves, WorkerMoves DEF StartTask, Live, Awaiting, Working
    <3> QED
      BY <1>1, <2>1, <3>1 DEF StartTask
  <2>2. CASE ~Serving
    <3>1. PICK bad : (CutShort(j, bad) \/ CloseFailed(j, bad)) /\ Spoil(j, bad)
      BY <1>1, <2>2 DEF StartTask
    <3>2. SlotsOK' /\ PcOK' /\ ObsOK' /\ LinkOK' /\ MemberOK'
      BY <3>1, CutShortTypes, CloseFailedTypes
    <3>3. SetsOK'
      BY <1>1, <3>1, Spoils DEF StartTask
    <3> QED
      BY <1>1, <2>2, <3>2, <3>3 DEF StartTask
  <2> QED
    BY <2>1, <2>2
<1>2. CASE Collect(j)
  <2>1. PICK bad : /\ SettlePhase(j, bad) /\ Spoil(j, bad)
                   /\ \/ CutShort(j, bad) /\ UNCHANGED helper
                      \/ /\ UNCHANGED <<slots, held, link, member>>
                         /\ \/ Goto(j, "requiring") /\ Helper(j, "require") /\ RecordWritten(j, bad)
                            \/ Goto(j, "unavailable") /\ RecordRun(j, "FAILED", bad) /\ UNCHANGED helper
    BY <1>2 DEF Collect
  <2>2. UNCHANGED <<process, starts, closed, worker, intent, lost>>
    BY <1>2 DEF Collect
  <2>3. PhaseOK' /\ SetsOK'
    BY <2>1, <2>2, PhaseSettles, Spoils
  <2>4. CASE CutShort(j, bad) /\ UNCHANGED helper
    <3>1. SlotsOK' /\ PcOK' /\ ObsOK' /\ LinkOK' /\ MemberOK'
      BY <2>4, CutShortTypes
    <3> QED
      BY <2>2, <2>3, <2>4, <3>1
  <2>5. CASE /\ UNCHANGED <<slots, held, link, member>>
             /\ Goto(j, "requiring") /\ Helper(j, "require") /\ RecordWritten(j, bad)
    <3>1. PcOK' /\ HelperOK'
      BY <2>5, PcMoves, HelperMoves DEF Live, Awaiting
    <3>2. ObsOK'
      BY <2>5, WrittenObs, ObsWrites DEF ObsOK
    <3> QED
      BY <2>2, <2>3, <2>5, <3>1, <3>2
  <2>6. CASE /\ UNCHANGED <<slots, held, link, member>>
             /\ Goto(j, "unavailable") /\ RecordRun(j, "FAILED", bad) /\ UNCHANGED helper
    <3>1. PcOK' /\ ObsOK'
      BY <2>6, PcMoves, ObsWrites DEF Live, Awaiting
    <3> QED
      BY <2>2, <2>3, <2>6, <3>1
  <2> QED
    BY <2>1, <2>4, <2>5, <2>6
<1>3. CASE Deadline(j)
  <2>1. PICK bad : SettlePhase(j, bad) /\ Spoil(j, bad) /\ (CutShort(j, bad) \/ CloseFailed(j, bad))
    BY <1>3 DEF Deadline
  <2>2. PhaseOK' /\ SetsOK'
    BY <1>3, <2>1, PhaseSettles, Spoils DEF Deadline
  <2>3. SlotsOK' /\ PcOK' /\ ObsOK' /\ LinkOK' /\ MemberOK'
    BY <2>1, CutShortTypes, CloseFailedTypes
  <2> QED
    BY <1>3, <2>2, <2>3 DEF Deadline
<1>4. CASE AfterSession(j)
  <2>1. PICK bad : Close(j, pc[j] = "available", bad) /\ Spoil(j, bad)
    BY <1>4 DEF AfterSession
  <2>2. (pc[j] = "available") \in BOOLEAN
    BY Zenon
  <2>3. SlotsOK' /\ PcOK' /\ LinkOK' /\ MemberOK'
    BY <2>1, <2>2, CloseTypes
  <2>4. SetsOK'
    BY <1>4, <2>1, Spoils DEF AfterSession
  <2> QED
    BY <1>4, <2>3, <2>4 DEF AfterSession
<1> QED
  BY <1>1, <1>2, <1>3, <1>4

(* Shutdown and the end of a process.                                      *)
LEMMA ShutdownTypes ==
  ASSUME TypeOK,
         BeginShutdown \/ CancelJobs \/ Stop \/ (\E j \in Jobs : ForceEnd(j) \/ Cancelled(j) \/ Reap(j))
  PROVE  TypeOK'
<1> USE Parts, PartsNext, KeptParts DEF slots
<1>1. CASE BeginShutdown \/ CancelJobs
  <2>1. ProcessOK'
    BY <1>1 DEF BeginShutdown, CancelJobs, ProcessOK
  <2> QED
    BY <1>1, <2>1 DEF BeginShutdown, CancelJobs, memory, rows
<1>2. CASE Stop
  <2>1. ProcessOK' /\ SlotsOK' /\ SetsOK'
    BY <1>2 DEF Stop, ProcessOK, SlotsOK, SetsOK
  <2>2. PcOK' /\ WorkerOK' /\ HelperOK'
    BY <1>2 DEF Stop, PcOK, WorkerOK, HelperOK
  <2>3. PhaseOK'
    BY <1>2 DEF Stop, PhaseOK
  <2> QED
    BY <1>2, <2>1, <2>2, <2>3 DEF Stop
<1>3. ASSUME NEW j \in Jobs, ForceEnd(j) PROVE TypeOK'
  <2>1. PICK bad : ForceCleanup(j, bad)
    BY <1>3 DEF ForceEnd
  <2>2. SlotsOK' /\ PhaseOK' /\ ObsOK' /\ LinkOK'
    BY <2>1, ForceCleanupTypes
  <2>3. SetsOK'
    BY <1>3, <2>1, Spoils DEF ForceEnd, ForceCleanup
  <2> QED
    BY <1>3, <2>2, <2>3 DEF ForceEnd
<1>4. ASSUME NEW j \in Jobs, Cancelled(j) PROVE TypeOK'
  <2>1. UNCHANGED <<process, starts, worker, helper, intent, lost>> /\ spoiled' = spoiled \cup {j}
    BY <1>4 DEF Cancelled
  <2>2. CASE (\E bad : ForceCleanup(j, bad)) /\ Goto(j, "done") /\ UNCHANGED member
    <3>1. PICK bad : ForceCleanup(j, bad)
      BY <2>2
    <3>2. SlotsOK' /\ PhaseOK' /\ ObsOK' /\ LinkOK'
      BY <3>1, ForceCleanupTypes
    <3>3. PcOK' /\ SetsOK'
      BY <2>1, <2>2, <3>1, PcMoves, Spoils DEF ForceCleanup
    <3> QED
      BY <2>1, <2>2, <3>2, <3>3
  <2>3. CASE Goto(j, "done") /\ UNCHANGED <<slots, held, closed, phase, obs, link, member>>
    <3>1. PcOK' /\ SetsOK'
      BY <2>1, <2>3, PcMoves, Spoils
    <3> QED
      BY <2>1, <2>3, <3>1
  <2>4. CASE (\E bad : CutShort(j, bad)) /\ UNCHANGED <<closed, phase>>
    <3>1. PICK bad : CutShort(j, bad)
      BY <2>4
    <3>2. SlotsOK' /\ PcOK' /\ ObsOK' /\ LinkOK' /\ MemberOK'
      BY <3>1, CutShortTypes
    <3>3. SetsOK'
      BY <2>1, <2>4, Spoils
    <3> QED
      BY <2>1, <2>4, <3>2, <3>3
  <2> QED
    BY <1>4, <2>2, <2>3, <2>4 DEF Cancelled
<1>5. ASSUME NEW j \in Jobs, Reap(j) PROVE TypeOK'
  <2>1. PhaseOK'
    BY <1>5, PhaseMoves DEF Reap
  <2> QED
    BY <1>5, <2>1 DEF Reap, memory
<1> QED
  BY <1>1, <1>2, <1>3, <1>4, <1>5

(* The start of the next process.                                          *)
LEMMA RecoveryTypes ==
  ASSUME TypeOK, Start \/ RecoverObs \/ RecoverLink \/ RecoverMember \/ RecoverStale
  PROVE  TypeOK'
<1> USE Parts, PartsNext, KeptParts DEF slots, memory, rows
<1>1. CASE Start
  <2>1. starts \in 0..MaxStarts /\ starts < MaxStarts /\ starts' = starts + 1 /\ MaxStarts \in Nat
    BY <1>1, JobAssumption DEF Start, ProcessOK
  <2>2. starts' \in 0..MaxStarts
    BY <2>1
  <2>3. ProcessOK'
    BY <1>1, <2>2 DEF Start, ProcessOK
  <2> QED
    BY <1>1, <2>3 DEF Start
<1>2. CASE RecoverObs
  <2>1. PICK S : /\ obs' = [j \in Jobs |-> IF j \notin S THEN obs[j]
                                           ELSE IF obs[j] = "PENDING" THEN "CONFIRM" ELSE "FAILED"]
                 /\ spoiled' = spoiled \cup ({j \in Jobs : obs[j] \in {"PENDING", "RUNNING"}} \ S)
    BY <1>2, Zenon DEF RecoverObs
  <2>2. ObsOK'
    BY <2>1 DEF ObsOK
  <2>3. ProcessOK' /\ SetsOK'
    BY <1>2, <2>1 DEF RecoverObs, ProcessOK, SetsOK
  <2> QED
    BY <1>2, <2>2, <2>3 DEF RecoverObs
<1>3. CASE RecoverLink
  <2>1. ProcessOK'
    BY <1>3 DEF RecoverLink, ProcessOK
  <2>2. LinkOK'
    BY <1>3 DEF RecoverLink, LinkOK
  <2> QED
    BY <1>3, <2>1, <2>2 DEF RecoverLink
<1>4. CASE RecoverMember
  <2>1. PICK S \in SUBSET {j \in Jobs : member[j] = "RESERVED"},
             unread \in SUBSET {j \in Jobs : intent[j] = "COMPLETE"} :
          /\ member' = [j \in Jobs |->
                          IF j \notin S THEN member[j]
                          ELSE IF intent[j] = "COMPLETE" /\ j \notin unread THEN "USED"
                          ELSE "RETURNED"]
          /\ lost' = lost \cup unread
          /\ spoiled' = spoiled \cup ({j \in Jobs : member[j] = "RESERVED"} \ S)
    BY <1>4 DEF RecoverMember
  <2>2. MemberOK'
    BY <2>1 DEF MemberOK
  <2>3. SetsOK'
    BY <1>4, <2>1 DEF RecoverMember, SetsOK
  <2>4. ProcessOK'
    BY <1>4 DEF RecoverMember, ProcessOK
  <2> QED
    BY <1>4, <2>2, <2>3, <2>4 DEF RecoverMember
<1>5. CASE RecoverStale
  <2>1. ProcessOK'
    BY <1>5 DEF RecoverStale, ProcessOK
  <2>2. IntentOK' /\ LinkOK'
    BY <1>5, IntentFails, ReleaseStops DEF RecoverStale
  <2> QED
    BY <1>5, <2>1, <2>2 DEF RecoverStale
<1> QED
  BY <1>1, <1>2, <1>3, <1>4, <1>5

LEMMA StepTypes == TypeOK /\ [Next]_vars => TypeOK'
<1>1. TypeOK /\ Next => TypeOK'
  BY RequestTypes, ThreadTypes, DeliveryTypes, TaskTypes, ShutdownTypes, RecoveryTypes DEF Next, Task
<1>2. TypeOK /\ UNCHANGED vars => TypeOK'
  BY Parts, PartsNext, KeptParts DEF vars, slots, memory, rows
<1> QED
  BY <1>1, <1>2

(* Types.                                                                  *)
THEOREM JobTypes == Spec => []TypeOK
BY InitTypes, StepTypes, PTL DEF Spec

-----------------------------------------------------------------------------
(* The slots.                                                              *)

\* Who holds a slot is between taking it and the end of its job.
HeldIsLive == \A j \in held : pc[j] \in Live

LEMMA MoveKeepsLive ==
  ASSUME TypeOK, HeldIsLive, NEW j \in Jobs, NEW to, Goto(j, to),
         \/ to \in Live /\ held' \subseteq held \cup {j}
         \/ held' \subseteq held \ {j}
  PROVE  HeldIsLive'
<1>1. pc \in [Jobs -> {"idle", "confirm", "done", "away", "old"} \cup Live] /\ held \subseteq Jobs
  BY DEF TypeOK
<1>2. pc' = [pc EXCEPT ![j] = to]
  BY DEF Goto
<1> QED
  BY <1>1, <1>2 DEF HeldIsLive

LEMMA StayKeepsLive ==
  ASSUME HeldIsLive, UNCHANGED pc, held' \subseteq held
  PROVE  HeldIsLive'
BY DEF HeldIsLive

\* What a step can do to the slots.
TakesOrGivesBack ==
  \/ \E j \in Jobs : j \notin held /\ held' = held \cup {j} /\ ReserveSlot(NameOf[j])
  \/ \E j \in Jobs : ReleaseJobSlot(j)
  \/ UNCHANGED <<slots, held>>
  \/ NoSlots' /\ held' = {}

(* Whoever leaves the live stages gives its slot back, whichever way.      *)
LEMMA TaskSlots ==
  ASSUME TypeOK, HeldIsLive, NEW j \in Jobs, Task(j)
  PROVE  HeldIsLive' /\ TakesOrGivesBack
<1> USE MoveKeepsLive DEF TakesOrGivesBack
<1>1. ASSUME NEW bad, CutShort(j, bad) \/ (\E published : Close(j, published, bad))
      PROVE  HeldIsLive' /\ ReleaseJobSlot(j)
  <2>1. ReleaseJobSlot(j) /\ Goto(j, "done")
    BY <1>1 DEF CutShort, Close
  <2> QED
    BY <2>1 DEF ReleaseJobSlot
<1>2. CASE Book(j) \/ Schedule(j) \/ AfterRequire(j) \/ AfterDeliver(j) \/ AfterFail(j)
  <2>1. UNCHANGED <<slots, held>> /\ \E to \in Live : Goto(j, to)
    BY <1>2 DEF Book, Schedule, AfterRequire, AfterDeliver, AfterFail, Live, Awaiting
  <2> QED
    BY <2>1
<1>3. CASE TurnAway(j)
  BY <1>3 DEF TurnAway, ReleaseJobSlot
<1>4. CASE StartTask(j)
  <2>1. \/ UNCHANGED <<slots, held>> /\ Goto(j, "running")
        \/ \E bad : CutShort(j, bad) \/ Close(j, FALSE, bad)
    BY <1>4 DEF StartTask, CloseFailed
  <2>2. "running" \in Live
    BY DEF Live, Awaiting
  <2> QED
    BY <1>1, <2>1, <2>2
<1>5. CASE Collect(j)
  <2>1. \/ UNCHANGED <<slots, held>> /\ (Goto(j, "requiring") \/ Goto(j, "unavailable"))
        \/ \E bad : CutShort(j, bad)
    BY <1>5 DEF Collect
  <2>2. {"requiring", "unavailable"} \subseteq Live
    BY DEF Live, Awaiting
  <2> QED
    BY <1>1, <2>1, <2>2
<1>6. CASE Deadline(j)
  <2>1. \E bad : CutShort(j, bad) \/ Close(j, FALSE, bad)
    BY <1>6 DEF Deadline, CloseFailed
  <2> QED
    BY <1>1, <2>1
<1>7. CASE AfterSession(j)
  BY <1>1, <1>7 DEF AfterSession
<1>8. CASE Cancelled(j)
  <2>1. \/ Goto(j, "done") /\ ReleaseJobSlot(j)
        \/ Goto(j, "done") /\ j \notin held /\ UNCHANGED <<slots, held>>
    BY <1>8 DEF Cancelled, ForceCleanup, CutShort
  <2> QED
    BY <2>1 DEF ReleaseJobSlot
<1> QED
  BY <1>2, <1>3, <1>4, <1>5, <1>6, <1>7, <1>8 DEF Task

LEMMA StepSlots ==
  ASSUME TypeOK, HeldIsLive, [Next]_vars
  PROVE  HeldIsLive' /\ TakesOrGivesBack
<1> USE MoveKeepsLive, StayKeepsLive DEF TakesOrGivesBack
<1>1. ASSUME NEW j \in Jobs, Task(j) PROVE HeldIsLive' /\ TakesOrGivesBack
  BY <1>1, TaskSlots
<1>2. ASSUME NEW j \in Jobs, Ask(j) \/ Abandon(j) \/ ConsumeFails(j)
      PROVE  HeldIsLive' /\ TakesOrGivesBack
  <2>1. pc[j] \in {"idle", "confirm"} /\ UNCHANGED <<slots, held>> /\ \E to : Goto(j, to)
    BY <1>2 DEF Ask, Abandon, ConsumeFails
  <2>2. j \notin held
    BY <2>1 DEF HeldIsLive, Live, Awaiting
  <2> QED
    BY <2>1, <2>2
<1>3. ASSUME NEW j \in Jobs, TakeSlot(j) PROVE HeldIsLive' /\ TakesOrGivesBack
  <2>1. pc[j] = "confirm" /\ Goto(j, "starting") /\ ReserveSlot(NameOf[j]) /\ held' = held \cup {j}
    BY <1>3 DEF TakeSlot
  <2>2. j \notin held /\ "starting" \in Live
    BY <2>1 DEF HeldIsLive, Live, Awaiting
  <2> QED
    BY <2>1, <2>2
<1>4. ASSUME NEW j \in Jobs, ForceEnd(j) PROVE HeldIsLive' /\ TakesOrGivesBack
  <2>1. UNCHANGED pc /\ ReleaseJobSlot(j)
    BY <1>4 DEF ForceEnd, ForceCleanup
  <2> QED
    BY <2>1 DEF ReleaseJobSlot
<1>5. CASE Stop
  BY <1>5 DEF Stop, NoSlots, HeldIsLive
<1>6. CASE UNCHANGED <<slots, held, pc>>
  BY <1>6
<1>7. ASSUME NEW j \in Jobs, Expire(j) \/ Thread(j) \/ Delivery(j) \/ AdminSettle(j) \/ Reap(j)
      PROVE  UNCHANGED <<slots, held, pc>>
  BY <1>7 DEF Expire, Thread, ReservePhase, CheckSession, InstallPhase, EndWorker, Delivery,
     Require, Publish, Blocked, StopBlocked, Fail, AdminSettle, Reap, memory
<1>8. BeginShutdown \/ CancelJobs \/ Start \/ RecoverObs \/ RecoverLink \/ RecoverMember \/ RecoverStale
      => UNCHANGED <<slots, held, pc>>
  BY DEF BeginShutdown, CancelJobs, Start, RecoverObs, RecoverLink, RecoverMember, RecoverStale, memory
<1>9. UNCHANGED vars => UNCHANGED <<slots, held, pc>>
  BY DEF vars, memory
<1> QED
  BY <1>1, <1>2, <1>3, <1>4, <1>5, <1>6, <1>7, <1>8, <1>9 DEF Next, Request

(* The slots of the names of one link, as pairs.                           *)
LinkSlots(n) ==
  {p \in LinkNames \X (1..MaxRuns) : LinkOf[p[1]] = LinkOf[n] /\ p[2] <= byName[p[1]]}

LEMMA LinkSlotsFinite ==
  ASSUME NEW n
  PROVE  IsFiniteSet(LinkSlots(n)) /\ LinkRunning(n) = Cardinality(LinkSlots(n))
<1>1. IsFiniteSet(LinkNames) /\ IsFiniteSet(1..MaxRuns)
  BY SlotAssumption, FS_Subset, FS_Interval
<1>2. IsFiniteSet(LinkNames \X (1..MaxRuns))
  BY <1>1, FS_Product
<1>3. LinkSlots(n) \in SUBSET (LinkNames \X (1..MaxRuns))
  BY DEF LinkSlots
<1> QED
  BY <1>2, <1>3, FS_Subset DEF LinkRunning, LinkSlots

LEMMA HeldFinite ==
  ASSUME TypeOK
  PROVE  /\ IsFiniteSet(held)
         /\ \A n : IsFiniteSet({i \in held : NameOf[i] = n})
<1>1. IsFiniteSet(held)
  BY JobAssumption, FS_Subset DEF TypeOK
<1>2. ASSUME NEW n PROVE IsFiniteSet({i \in held : NameOf[i] = n})
  <2>1. {i \in held : NameOf[i] = n} \in SUBSET held
    OBVIOUS
  <2> QED
    BY <1>1, <2>1, FS_Subset
<1> QED
  BY <1>1, <1>2

(* Taking a slot counts it, and there was room for it.                     *)
LEMMA ReserveIsExact ==
  ASSUME TypeOK, SlotsExact, NEW j \in Jobs, j \notin held, held' = held \cup {j},
         ReserveSlot(NameOf[j])
  PROVE  SlotsExact'
<1> DEFINE m == NameOf[j]
<1>1. m \in Names /\ running \in Nat /\ byName \in [Names -> Nat] /\ MaxRuns \in Nat
      /\ NameLimit \in [Names -> Nat \ {0}] /\ LinkLimit \in Nat /\ LinkNames \subseteq Names
  BY Parts, JobAssumption, SlotAssumption DEF SlotsOK
<1>2. running' = running + 1 /\ byName' = [byName EXCEPT ![m] = @ + 1]
      /\ running < MaxRuns /\ byName[m] < NameLimit[m] /\ (m \in LinkNames => LinkRunning(m) < LinkLimit)
  BY DEF ReserveSlot, HasRoom, HasRoomOfName
<1>3. running' = Cardinality(held') /\ running' <= MaxRuns
  BY <1>1, <1>2, HeldFinite, FS_AddElement DEF SlotsExact
<1>4. ASSUME NEW n \in Names
      PROVE  byName'[n] = Cardinality({i \in held' : NameOf[i] = n}) /\ byName'[n] <= NameLimit[n]
  <2> DEFINE old == {i \in held : NameOf[i] = n}
  <2>1. byName[n] = Cardinality(old) /\ byName[n] <= NameLimit[n] /\ IsFiniteSet(old)
    BY <1>4, HeldFinite DEF SlotsExact
  <2>2. CASE n = m
    <3>1. {i \in held' : NameOf[i] = n} = old \cup {j} /\ j \notin old
      BY <2>2
    <3>2. Cardinality(old \cup {j}) = Cardinality(old) + 1
      BY <2>1, <3>1, FS_AddElement
    <3> QED
      BY <1>1, <1>2, <2>1, <2>2, <3>1, <3>2
  <2>3. CASE n # m
    <3>1. {i \in held' : NameOf[i] = n} = old
      BY <2>3
    <3> QED
      BY <1>1, <1>2, <1>4, <2>1, <2>3, <3>1
  <2> QED
    BY <2>2, <2>3
<1>5. ASSUME NEW n \in LinkNames PROVE LinkRunning(n)' <= LinkLimit
  <2>1. LinkRunning(n)' = Cardinality(LinkSlots(n)')
    BY DEF LinkRunning, LinkSlots
  <2>2. LinkRunning(n) = Cardinality(LinkSlots(n)) /\ IsFiniteSet(LinkSlots(n)) /\ LinkRunning(n) <= LinkLimit
    BY <1>5, LinkSlotsFinite DEF SlotsExact
  <2>3. CASE m \in LinkNames /\ LinkOf[m] = LinkOf[n]
    <3> DEFINE new == <<m, byName[m] + 1>>
    <3>1. LinkSlots(n)' \in SUBSET (LinkSlots(n) \cup {new})
      BY <1>1, <1>2 DEF LinkSlots
    <3>2. LinkSlots(n) = LinkSlots(m)
      BY <2>3 DEF LinkSlots
    <3>3. Cardinality(LinkSlots(n)) < LinkLimit
      BY <1>2, <2>2, <2>3, <3>2, LinkSlotsFinite
    <3>4. IsFiniteSet(LinkSlots(n) \cup {new})
          /\ Cardinality(LinkSlots(n) \cup {new}) <= Cardinality(LinkSlots(n)) + 1
          /\ Cardinality(LinkSlots(n)) \in Nat
      <4>1. IsFiniteSet(LinkSlots(n)) /\ Cardinality(LinkSlots(n)) \in Nat
        BY <2>2, FS_CardinalityType
      <4>2. /\ IsFiniteSet(LinkSlots(n) \cup {new})
            /\ Cardinality(LinkSlots(n) \cup {new}) =
                 IF new \in LinkSlots(n) THEN Cardinality(LinkSlots(n)) ELSE Cardinality(LinkSlots(n)) + 1
        BY <4>1, FS_AddElement
      <4> QED
        BY <4>1, <4>2
    <3>5. Cardinality(LinkSlots(n)') <= Cardinality(LinkSlots(n) \cup {new})
          /\ IsFiniteSet(LinkSlots(n)')
      BY <3>1, <3>4, FS_Subset
    <3>6. Cardinality(LinkSlots(n)') \in Nat /\ Cardinality(LinkSlots(n) \cup {new}) \in Nat
      BY <3>4, <3>5, FS_CardinalityType
    <3> QED
      BY <1>1, <2>1, <3>3, <3>4, <3>5, <3>6
  <2>4. CASE ~(m \in LinkNames /\ LinkOf[m] = LinkOf[n])
    <3>1. LinkSlots(n)' = LinkSlots(n)
      BY <1>1, <1>2, <2>4 DEF LinkSlots
    <3> QED
      BY <2>1, <2>2, <3>1
  <2> QED
    BY <2>3, <2>4
<1> QED
  BY <1>3, <1>4, <1>5 DEF SlotsExact

(* Giving one back counts it off: it was counted.                          *)
LEMMA ReleaseIsExact ==
  ASSUME TypeOK, SlotsExact, NEW j \in held, ReleaseJobSlot(j)
  PROVE  SlotsExact'
<1> DEFINE m == NameOf[j]
<1>1. m \in Names /\ running \in Nat /\ byName \in [Names -> Nat] /\ MaxRuns \in Nat
      /\ NameLimit \in [Names -> Nat \ {0}] /\ LinkLimit \in Nat /\ LinkNames \subseteq Names
  BY Parts, JobAssumption, SlotAssumption DEF SlotsOK
<1>2. held' = held \ {j} /\ ReleaseSlot(m)
  BY DEF ReleaseJobSlot
<1>3. Cardinality(held') = Cardinality(held) - 1 /\ Cardinality(held') \in Nat
  BY <1>2, HeldFinite, FS_RemoveElement, FS_CardinalityType
<1>4. j \in {i \in held : NameOf[i] = m} /\ byName[m] = Cardinality({i \in held : NameOf[i] = m})
  BY <1>1 DEF SlotsExact
<1>5. byName[m] > 0
  <2>1. byName[m] # 0
    BY <1>4, HeldFinite, FS_EmptySet
  <2> QED
    BY <1>1, <2>1
<1>6. running' = running - 1 /\ byName' = [byName EXCEPT ![m] = @ - 1]
  BY <1>1, <1>2, <1>3, <1>5 DEF ReleaseSlot, SlotsExact
<1>7. running' = Cardinality(held') /\ running' <= MaxRuns
  BY <1>1, <1>3, <1>6 DEF SlotsExact
<1>8. ASSUME NEW n \in Names
      PROVE  byName'[n] = Cardinality({i \in held' : NameOf[i] = n}) /\ byName'[n] <= NameLimit[n]
  <2> DEFINE old == {i \in held : NameOf[i] = n}
  <2>1. byName[n] = Cardinality(old) /\ byName[n] <= NameLimit[n] /\ IsFiniteSet(old)
    BY <1>8, HeldFinite DEF SlotsExact
  <2>2. CASE n = m
    <3>1. {i \in held' : NameOf[i] = n} = old \ {j} /\ j \in old
      BY <1>2, <2>2
    <3>2. Cardinality(old \ {j}) = Cardinality(old) - 1
      BY <2>1, <3>1, FS_RemoveElement
    <3>3. byName'[n] = byName[n] - 1 /\ byName[n] \in Nat /\ NameLimit[n] \in Nat
      BY <1>1, <1>6, <2>2
    <3> QED
      BY <2>1, <3>1, <3>2, <3>3
  <2>3. CASE n # m
    <3>1. {i \in held' : NameOf[i] = n} = old
      BY <1>2, <2>3
    <3> QED
      BY <1>1, <1>6, <1>8, <2>1, <2>3, <3>1
  <2> QED
    BY <2>2, <2>3
<1>9. ASSUME NEW n \in LinkNames PROVE LinkRunning(n)' <= LinkLimit
  <2>1. LinkRunning(n)' = Cardinality(LinkSlots(n)')
    BY DEF LinkRunning, LinkSlots
  <2>2. LinkRunning(n) = Cardinality(LinkSlots(n)) /\ IsFiniteSet(LinkSlots(n)) /\ LinkRunning(n) <= LinkLimit
    BY <1>9, LinkSlotsFinite DEF SlotsExact
  <2>3. LinkSlots(n)' \in SUBSET LinkSlots(n)
    <3>1. \A i \in Names : byName'[i] <= byName[i] /\ byName'[i] \in Int /\ byName[i] \in Int
      BY <1>1, <1>6
    <3> QED
      BY <1>1, <3>1 DEF LinkSlots
  <2>4. Cardinality(LinkSlots(n)') <= Cardinality(LinkSlots(n)) /\ IsFiniteSet(LinkSlots(n)')
    BY <2>2, <2>3, FS_Subset
  <2>5. Cardinality(LinkSlots(n)') \in Nat /\ Cardinality(LinkSlots(n)) \in Nat
    BY <2>2, <2>4, FS_CardinalityType
  <2> QED
    BY <1>1, <2>1, <2>2, <2>4, <2>5
<1> QED
  BY <1>7, <1>8, <1>9 DEF SlotsExact

(* Without slots nothing is counted.                                       *)
LEMMA NoSlotsExact == NoSlots /\ held = {} => SlotsExact
<1> SUFFICES ASSUME NoSlots, held = {} PROVE SlotsExact
  OBVIOUS
<1>1. Cardinality({}) = 0
  BY FS_EmptySet
<1>2. \A n : {i \in held : NameOf[i] = n} = {}
  OBVIOUS
<1>3. ASSUME NEW n \in LinkNames PROVE LinkRunning(n) <= LinkLimit
  <2>1. LinkSlots(n) = {}
    BY SlotAssumption DEF LinkSlots, NoSlots
  <2> QED
    BY <1>1, <2>1, LinkSlotsFinite, SlotAssumption
<1> QED
  BY <1>1, <1>2, <1>3, SlotAssumption DEF SlotsExact, NoSlots

LEMMA NoSlotsExactNext == NoSlots' /\ held' = {} => SlotsExact'
<1>1. (NoSlots /\ held = {})' => SlotsExact'
  BY NoSlotsExact, PTL
<1> QED
  BY <1>1

LEMMA SameSlotsExact ==
  ASSUME SlotsExact, UNCHANGED <<slots, held>>
  PROVE  SlotsExact'
<1>1. running' = running /\ byName' = byName /\ held' = held
  BY DEF slots
<1>2. \A n : LinkRunning(n)' = LinkRunning(n)
  BY <1>1 DEF LinkRunning
<1> QED
  BY <1>1, <1>2 DEF SlotsExact

SlotInv == TypeOK /\ HeldIsLive /\ SlotsExact

LEMMA InitSlots == Init => SlotInv
BY InitTypes, NoSlotsExact DEF Init, SlotInv, HeldIsLive

LEMMA StepSlotInv == SlotInv /\ [Next]_vars => SlotInv'
<1> SUFFICES ASSUME SlotInv, [Next]_vars PROVE SlotInv'
  OBVIOUS
<1>1. TypeOK' /\ HeldIsLive' /\ TakesOrGivesBack
  BY StepTypes, StepSlots DEF SlotInv
<1>3. ASSUME NEW j \in Jobs, ReleaseJobSlot(j) PROVE SlotsExact'
  <2>1. CASE j \in held
    BY <1>3, <2>1, ReleaseIsExact DEF SlotInv
  <2>2. CASE j \notin held
    <3>1. UNCHANGED <<slots, held>>
      BY <1>3, <2>2 DEF ReleaseJobSlot
    <3> QED
      BY <3>1, SameSlotsExact DEF SlotInv
  <2> QED
    BY <2>1, <2>2
<1> QED
  BY <1>1, <1>3, NoSlotsExactNext, SameSlotsExact, ReserveIsExact DEF TakesOrGivesBack, SlotInv

(* The counters always say who holds a slot, and no limit is exceeded: for *)
(* any names, links and limits.                                            *)
THEOREM JobSlots == Spec => []SlotsExact
<1>1. SlotInv => SlotsExact
  BY DEF SlotInv
<1> QED
  BY InitSlots, StepSlotInv, <1>1, PTL DEF Spec

-----------------------------------------------------------------------------
(* What was delivered.                                                     *)

Recovering == process \notin {"serving", "draining", "cancelling"}

\* While nobody is served no job and no helper thread is there.
Quiet == Recovering => \A j \in Jobs : pc[j] \in {"idle", "old"} /\ helper[j] = "none"

\* The stages before the publication, and those that a failed one leads to.
BeforePublication ==
  {"idle", "confirm", "starting", "booked", "scheduled", "running", "requiring", "failing",
   "unavailable"}

\* A helper thread works for the stage that started it, or on for a job that was cancelled.
HelperFollows(j) ==
  /\ helper[j] = "require" => pc[j] \in {"requiring", "done"}
  /\ helper[j] \in {"deliver", "blocked"} => pc[j] \in {"delivering", "done"}
  /\ helper[j] = "fail" => pc[j] \in {"failing", "done"}
  /\ helper[j] # "none" => pc[j] \in {"requiring", "delivering", "failing", "done"}

\* No quota is settled while anyone may still publish.
SettledLast(j) ==
  /\ pc[j] = "idle" => obs[j] = "none"
  /\ pc[j] \in {"idle", "confirm", "starting"} => member[j] = "none"
  /\ pc[j] \in Live \/ helper[j] # "none" => member[j] \notin {"USED", "RETURNED"}

\* What the job knows of the publication is so.
StageKnows(j) ==
  /\ pc[j] \in BeforePublication => intent[j] # "COMPLETE"
  /\ pc[j] = "delivering" /\ helper[j] \in {"deliver", "blocked", "error"} => intent[j] # "COMPLETE"
  /\ pc[j] = "delivering" /\ helper[j] = "ok" => intent[j] = "COMPLETE"
  /\ pc[j] = "available" => intent[j] = "COMPLETE"

QuotaFollows(j) ==
  /\ member[j] = "USED" => intent[j] = "COMPLETE"
  /\ member[j] = "RETURNED" /\ intent[j] = "COMPLETE" => j \in lost

HistoryFollows(j) ==
  /\ j \in LinkJobs => (link[j] = "COMPLETED" <=> intent[j] = "COMPLETE")
  /\ j \in FullJobs /\ obs[j] = "REPORT" => intent[j] = "COMPLETE"

JobInv(j) ==
  /\ HelperFollows(j) /\ SettledLast(j) /\ StageKnows(j)
  /\ QuotaFollows(j) /\ HistoryFollows(j)

DeliveryInv == Quiet /\ \A j \in Jobs : JobInv(j)

\* What was said of a job is not taken back.
Kept(j) ==
  /\ obs[j] \in {"CONFIRM", "FAILED", "REPORT"} => obs'[j] = obs[j]
  /\ member[j] \in {"USED", "RETURNED"} => member'[j] = member[j]
  /\ intent[j] = "COMPLETE" => intent'[j] = "COMPLETE"

\* Nothing of a job that these properties look at changes.
Same(j) ==
  /\ pc'[j] = pc[j] /\ helper'[j] = helper[j] /\ obs'[j] = obs[j]
  /\ link'[j] = link[j] /\ member'[j] = member[j] /\ intent'[j] = intent[j]

LEMMA Frame ==
  ASSUME NEW j \in Jobs, JobInv(j), Same(j), lost \subseteq lost'
  PROVE  JobInv(j)' /\ Kept(j)
BY DEF JobInv, HelperFollows, SettledLast, StageKnows, QuotaFollows, HistoryFollows, Same, Kept

\* A step of one job while the server is up.
StepOf(j) ==
  /\ ~Recovering /\ UNCHANGED process
  /\ \A i \in Jobs \ {j} : Same(i)
  /\ UNCHANGED lost

LEMMA OneJob ==
  ASSUME DeliveryInv, NEW j \in Jobs, StepOf(j), JobInv(j)', Kept(j)
  PROVE  DeliveryInv' /\ \A i \in Jobs : Kept(i)
<1>1. Quiet'
  BY DEF StepOf, Quiet, Recovering
<1>2. ASSUME NEW i \in Jobs \ {j} PROVE JobInv(i)' /\ Kept(i)
  <2>1. i \in Jobs /\ JobInv(i) /\ Same(i) /\ lost \subseteq lost'
    BY <1>2 DEF DeliveryInv, StepOf
  <2> QED
    BY <2>1, Frame
<1> QED
  BY <1>1, <1>2 DEF DeliveryInv

(* What each write does to the row of its job, and that it leaves the others. *)
LEMMA PcAt ==
  ASSUME TypeOK, NEW j \in Jobs, NEW to, Goto(j, to)
  PROVE  pc'[j] = to /\ \A i \in Jobs \ {j} : pc'[i] = pc[i]
<1>1. DOMAIN pc = Jobs
  BY Parts DEF PcOK
<1> QED
  BY <1>1 DEF Goto

LEMMA HelperAt ==
  ASSUME TypeOK, NEW j \in Jobs, NEW to, Helper(j, to)
  PROVE  helper'[j] = to /\ \A i \in Jobs \ {j} : helper'[i] = helper[i]
<1>1. DOMAIN helper = Jobs
  BY Parts DEF HelperOK
<1> QED
  BY <1>1 DEF Helper

LEMMA RunAt ==
  ASSUME TypeOK, NEW j \in Jobs, NEW outcome, NEW bad, RecordRun(j, outcome, bad)
  PROVE  /\ obs'[j] = obs[j] \/ (obs[j] = "RUNNING" /\ obs'[j] = outcome)
         /\ \A i \in Jobs \ {j} : obs'[i] = obs[i]
<1>1. DOMAIN obs = Jobs
  BY Parts DEF ObsOK
<1> QED
  BY <1>1 DEF RecordRun

LEMMA ConfirmAt ==
  ASSUME TypeOK, NEW j \in Jobs, NEW bad, RecordConfirm(j, bad)
  PROVE  /\ obs'[j] = obs[j] \/ (obs[j] = "PENDING" /\ obs'[j] = "CONFIRM")
         /\ \A i \in Jobs \ {j} : obs'[i] = obs[i]
<1>1. DOMAIN obs = Jobs
  BY Parts DEF ObsOK
<1> QED
  BY <1>1 DEF RecordConfirm

LEMMA LinkAt ==
  ASSUME TypeOK, NEW j \in Jobs, NEW bad, NEW status \in {"STOPPED", "INTERRUPTED", "AWAITING"},
         FinishLink(j, status, bad) \/ EnsureLinkClosed(j, bad)
  PROVE  /\ link'[j] = "COMPLETED" <=> link[j] = "COMPLETED"
         /\ \A i \in Jobs \ {j} : link'[i] = link[i]
<1>1. DOMAIN link = Jobs
  BY Parts DEF LinkOK
<1> QED
  BY <1>1 DEF FinishLink, EnsureLinkClosed

LEMMA ReleaseAt ==
  ASSUME NEW S, StopRelease(S)
  PROVE  \A i \in Jobs : /\ link'[i] = "COMPLETED" <=> link[i] = "COMPLETED"
                         /\ i \notin S => link'[i] = link[i]
BY DEF StopRelease

LEMMA MemberAt ==
  ASSUME TypeOK, NEW j \in Jobs, NEW state, NEW bad, SettleMember(j, state, bad)
  PROVE  /\ member'[j] = member[j] \/ (member[j] = "RESERVED" /\ member'[j] = state)
         /\ \A i \in Jobs \ {j} : member'[i] = member[i]
<1>1. DOMAIN member = Jobs
  BY Parts DEF MemberOK
<1> QED
  BY <1>1 DEF SettleMember

LEMMA IntentAt ==
  ASSUME NEW S, FailIntents(S)
  PROVE  \A i \in Jobs : /\ intent'[i] = "COMPLETE" <=> intent[i] = "COMPLETE"
                         /\ i \notin S => intent'[i] = intent[i]
BY DEF FailIntents

(* How a job ends: below the stage, only its quota is settled.             *)
LEMMA CutShortAt ==
  ASSUME TypeOK, NEW j \in Jobs, NEW bad, CutShort(j, bad)
  PROVE  /\ pc'[j] = "done" /\ (link'[j] = "COMPLETED" <=> link[j] = "COMPLETED")
         /\ \A i \in Jobs \ {j} : pc'[i] = pc[i] /\ link'[i] = link[i]
         /\ UNCHANGED <<obs, member>>
<1>1. Goto(j, "done") /\ EnsureLinkClosed(j, bad) /\ UNCHANGED <<obs, member>>
  BY DEF CutShort
<1> QED
  BY <1>1, PcAt, LinkAt

LEMMA CloseAt ==
  ASSUME TypeOK, NEW j \in Jobs, NEW bad, NEW published \in BOOLEAN, Close(j, published, bad)
  PROVE  /\ pc'[j] = "done" /\ (link'[j] = "COMPLETED" <=> link[j] = "COMPLETED")
         /\ \/ member'[j] = member[j]
            \/ published /\ member[j] = "RESERVED" /\ member'[j] = "USED"
            \/ ~published /\ member[j] = "RESERVED" /\ member'[j] = "RETURNED"
         /\ \A i \in Jobs \ {j} : pc'[i] = pc[i] /\ link'[i] = link[i] /\ member'[i] = member[i]
<1>1. Goto(j, "done") /\ (EnsureLinkClosed(j, bad) \/ FinishLink(j, "STOPPED", bad))
  BY DEF Close
<1>2. \/ published /\ SettleMember(j, "USED", bad)
      \/ ~published /\ SettleMember(j, "RETURNED", bad)
  BY DEF Close
<1>3. pc'[j] = "done" /\ \A i \in Jobs \ {j} : pc'[i] = pc[i]
  BY <1>1, PcAt
<1>4. (link'[j] = "COMPLETED" <=> link[j] = "COMPLETED") /\ \A i \in Jobs \ {j} : link'[i] = link[i]
  BY <1>1, LinkAt
<1>5. \/ published /\ (member'[j] = member[j] \/ (member[j] = "RESERVED" /\ member'[j] = "USED"))
      \/ ~published /\ (member'[j] = member[j] \/ (member[j] = "RESERVED" /\ member'[j] = "RETURNED"))
  BY <1>2, MemberAt
<1>6. \A i \in Jobs \ {j} : member'[i] = member[i]
  BY <1>2, MemberAt
<1> QED
  BY <1>3, <1>4, <1>5, <1>6

LEMMA CloseFailedAt ==
  ASSUME TypeOK, NEW j \in Jobs, NEW bad, CloseFailed(j, bad)
  PROVE  /\ pc'[j] = "done" /\ (link'[j] = "COMPLETED" <=> link[j] = "COMPLETED")
         /\ member'[j] = member[j] \/ (member[j] = "RESERVED" /\ member'[j] = "RETURNED")
         /\ obs'[j] = obs[j] \/ (obs[j] = "RUNNING" /\ obs'[j] = "FAILED")
         /\ \A i \in Jobs \ {j} : /\ pc'[i] = pc[i] /\ link'[i] = link[i]
                                  /\ member'[i] = member[i] /\ obs'[i] = obs[i]
<1>1. RecordRun(j, "FAILED", bad) /\ Close(j, FALSE, bad)
  BY DEF CloseFailed
<1> QED
  BY <1>1, RunAt, CloseAt

(* Up to the job.                                                          *)
LEMMA RequestDelivers ==
  ASSUME TypeOK, DeliveryInv, NEW j \in Jobs, Request(j) \/ Book(j) \/ TurnAway(j) \/ Schedule(j)
  PROVE  StepOf(j) /\ JobInv(j)' /\ Kept(j)
<1> USE DEF StepOf, Same, Recovering, Serving, JobInv, HelperFollows, SettledLast, StageKnows,
            QuotaFollows, HistoryFollows, Kept, BeforePublication, Live, Awaiting
<1>0. JobInv(j) /\ DOMAIN pc = Jobs /\ DOMAIN obs = Jobs /\ DOMAIN link = Jobs /\ DOMAIN member = Jobs
  BY Parts DEF DeliveryInv, PcOK, ObsOK, LinkOK, MemberOK
<1>1. CASE Ask(j)
  BY <1>0, <1>1, PcAt DEF Ask
<1>2. CASE Abandon(j)
  BY <1>0, <1>2, PcAt, ConfirmAt DEF Abandon
<1>3. CASE Expire(j)
  BY <1>0, <1>3, ConfirmAt DEF Expire, memory
<1>4. CASE TakeSlot(j)
  BY <1>0, <1>4, PcAt DEF TakeSlot
<1>5. CASE ConsumeFails(j)
  BY <1>0, <1>5, PcAt, ConfirmAt DEF ConsumeFails
<1>6. CASE Book(j)
  BY <1>0, <1>6, PcAt DEF Book
<1>7. CASE TurnAway(j)
  <2>1. PICK bad \in Failing(j, {"obs", "link", "member"}) :
          /\ RecordRun(j, "FAILED", bad) \/ UNCHANGED obs
          /\ \E status \in {"STOPPED", "INTERRUPTED"} : FinishLink(j, status, bad)
          /\ SettleMember(j, "RETURNED", bad)
    BY <1>7, Zenon DEF TurnAway
  <2> QED
    BY <1>0, <1>7, <2>1, PcAt, RunAt, LinkAt, MemberAt DEF TurnAway, Up
<1>8. CASE Schedule(j)
  BY <1>0, <1>8, PcAt DEF Schedule, rows
<1> QED
  BY <1>1, <1>2, <1>3, <1>4, <1>5, <1>6, <1>7, <1>8 DEF Request

(* The pipeline thread and the lease of a phase touch none of it.          *)
LEMMA ThreadDelivers ==
  ASSUME TypeOK, DeliveryInv, NEW j \in Jobs, Thread(j) \/ Reap(j)
  PROVE  StepOf(j) /\ JobInv(j)' /\ Kept(j)
<1>1. UNCHANGED <<pc, helper, obs, link, member, intent, process, lost>> /\ ~Recovering
  BY DEF Thread, ReservePhase, CheckSession, InstallPhase, EndWorker, Reap, Up, Serving, Recovering,
     rows, memory
<1>2. StepOf(j) /\ Same(j)
  BY <1>1 DEF StepOf, Same
<1>3. JobInv(j) /\ lost \subseteq lost'
  BY <1>1 DEF DeliveryInv
<1> QED
  BY <1>2, <1>3, Frame

(* The delivery: only the publication completes a duty, and only the stage *)
(* that saw it complete says so.                                           *)
LEMMA DeliveryDelivers ==
  ASSUME TypeOK, DeliveryInv, NEW j \in Jobs,
         Delivery(j) \/ AfterRequire(j) \/ AfterDeliver(j) \/ AfterFail(j) \/ AdminSettle(j)
  PROVE  StepOf(j) /\ JobInv(j)' /\ Kept(j)
<1> USE DEF StepOf, Same, Recovering, Serving, Up, Going, JobInv, HelperFollows, SettledLast, StageKnows,
            QuotaFollows, HistoryFollows, Kept, BeforePublication, Live, Awaiting
<1>0. /\ JobInv(j) /\ DOMAIN pc = Jobs /\ DOMAIN obs = Jobs /\ DOMAIN link = Jobs
      /\ DOMAIN member = Jobs /\ DOMAIN intent = Jobs
  BY Parts DEF DeliveryInv, PcOK, ObsOK, LinkOK, MemberOK, IntentOK
<1>1. CASE Require(j)
  BY <1>0, <1>1, HelperAt DEF Require
<1>2. CASE Publish(j)
  BY <1>0, <1>2, HelperAt DEF Publish
<1>3. CASE Blocked(j) \/ Fail(j)
  <2>1. UNCHANGED intent \/ FailIntents({j})
    BY <1>3 DEF Blocked, Fail
  <2> QED
    BY <1>0, <1>3, <2>1, HelperAt, IntentAt DEF Blocked, Fail
<1>4. CASE StopBlocked(j)
  <2>1. UNCHANGED link \/ StopRelease({j})
    BY <1>4 DEF StopBlocked
  <2> QED
    BY <1>0, <1>4, <2>1, HelperAt, ReleaseAt DEF StopBlocked
<1>5. CASE AfterRequire(j)
  <2>1. CASE /\ helper[j] = "ok" /\ FinishLink(j, "AWAITING", {})
             /\ Goto(j, "delivering") /\ Helper(j, "deliver") /\ UNCHANGED obs
    BY <1>0, <1>5, <2>1, PcAt, HelperAt, LinkAt DEF AfterRequire
  <2>2. CASE helper[j] = "ok" /\ Goto(j, "failing") /\ Helper(j, "fail") /\ UNCHANGED <<obs, link>>
    BY <1>0, <1>5, <2>2, PcAt, HelperAt DEF AfterRequire
  <2>3. CASE /\ helper[j] = "error" /\ Goto(j, "unavailable") /\ Helper(j, "none") /\ UNCHANGED link
             /\ RecordEnd(j, "FAILED")
    <3>1. UNCHANGED obs \/ \E bad : RecordRun(j, "FAILED", bad)
      BY <2>3, EndObs
    <3> QED
      BY <1>0, <1>5, <2>3, <3>1, PcAt, HelperAt, RunAt DEF AfterRequire
  <2> QED
    BY <1>5, <2>1, <2>2, <2>3 DEF AfterRequire
<1>6. CASE AfterDeliver(j)
  <2>1. CASE helper[j] = "ok"
    <3>1. UNCHANGED obs \/ \E bad : RecordRun(j, "REPORT", bad)
      BY <1>6, <2>1, EndObs DEF AfterDeliver
    <3> QED
      BY <1>0, <1>6, <2>1, <3>1, PcAt, HelperAt, RunAt DEF AfterDeliver
  <2>2. CASE helper[j] = "error"
    BY <1>0, <1>6, <2>2, PcAt, HelperAt DEF AfterDeliver
  <2> QED
    BY <1>6, <2>1, <2>2 DEF AfterDeliver
<1>7. CASE AfterFail(j)
  <2>1. UNCHANGED obs \/ \E bad : RecordRun(j, "FAILED", bad)
    BY <1>7, EndObs DEF AfterFail
  <2> QED
    BY <1>0, <1>7, <2>1, PcAt, HelperAt, RunAt DEF AfterFail
<1>8. CASE AdminSettle(j)
  <2>1. UNCHANGED link \/ StopRelease({j})
    BY <1>8 DEF AdminSettle
  <2> QED
    BY <1>0, <1>8, <2>1, IntentAt, ReleaseAt DEF AdminSettle, memory
<1> QED
  BY <1>1, <1>2, <1>3, <1>4, <1>5, <1>6, <1>7, <1>8 DEF Delivery

(* The job: it settles the quota by what its stage knows.                  *)
LEMMA TaskDelivers ==
  ASSUME TypeOK, DeliveryInv, NEW j \in Jobs,
         StartTask(j) \/ Collect(j) \/ Deadline(j) \/ AfterSession(j)
  PROVE  StepOf(j) /\ JobInv(j)' /\ Kept(j)
<1> USE DEF StepOf, Same, Recovering, Serving, Up, Going, JobInv, HelperFollows, SettledLast, StageKnows,
            QuotaFollows, HistoryFollows, Kept, BeforePublication, Live, Awaiting
<1>0. JobInv(j)
  BY DEF DeliveryInv
<1>1. CASE StartTask(j)
  <2>1. CASE process = "serving"
    BY <1>0, <1>1, <2>1, PcAt DEF StartTask
  <2>2. CASE process # "serving"
    <3>1. \E bad : CutShort(j, bad) \/ CloseFailed(j, bad)
      BY <1>1, <2>2 DEF StartTask
    <3>2. UNCHANGED <<process, helper, intent, lost>> /\ process = "draining" /\ pc[j] = "scheduled"
      BY <1>1, <2>2 DEF StartTask
    <3> QED
      BY <1>0, <3>1, <3>2, CutShortAt, CloseFailedAt
  <2> QED
    BY <2>1, <2>2
<1>2. CASE Collect(j)
  <2>1. UNCHANGED <<process, intent, lost>> /\ process \in {"serving", "draining"} /\ pc[j] = "running"
    BY <1>2 DEF Collect
  <2>2. CASE (\E bad : CutShort(j, bad)) /\ UNCHANGED helper
    BY <1>0, <2>1, <2>2, CutShortAt
  <2>3. CASE /\ UNCHANGED <<link, member>> /\ Goto(j, "requiring") /\ Helper(j, "require")
             /\ \E bad : RecordWritten(j, bad)
    <3>1. \/ UNCHANGED obs
          \/ j \notin FullJobs /\ \E bad : RecordRun(j, "REPORT", bad)
      BY <2>3, WrittenObs
    <3> QED
      BY <1>0, <2>1, <2>3, <3>1, PcAt, HelperAt, RunAt
  <2>4. CASE /\ UNCHANGED <<link, member, helper>> /\ Goto(j, "unavailable")
             /\ \E bad : RecordRun(j, "FAILED", bad)
    BY <1>0, <2>1, <2>4, PcAt, RunAt
  <2> QED
    BY <1>2, <2>2, <2>3, <2>4 DEF Collect
<1>3. CASE Deadline(j)
  <2>1. \E bad : CutShort(j, bad) \/ CloseFailed(j, bad)
    BY <1>3 DEF Deadline
  <2>2. /\ UNCHANGED <<process, helper, intent, lost>> /\ process \in {"serving", "draining"}
        /\ pc[j] = "running"
    BY <1>3 DEF Deadline
  <2> QED
    BY <1>0, <2>1, <2>2, CutShortAt, CloseFailedAt
<1>4. CASE AfterSession(j)
  <2>1. PICK bad : Close(j, pc[j] = "available", bad)
    BY <1>4 DEF AfterSession
  <2>2. (pc[j] = "available") \in BOOLEAN
    BY Zenon
  <2>3. /\ UNCHANGED <<process, helper, intent, lost, obs>> /\ process \in {"serving", "draining"}
        /\ pc[j] \in {"available", "unavailable"}
    BY <1>4 DEF AfterSession
  <2>4. /\ pc'[j] = "done" /\ (link'[j] = "COMPLETED" <=> link[j] = "COMPLETED")
        /\ \/ member'[j] = member[j]
           \/ pc[j] = "available" /\ member[j] = "RESERVED" /\ member'[j] = "USED"
           \/ pc[j] # "available" /\ member[j] = "RESERVED" /\ member'[j] = "RETURNED"
        /\ \A i \in Jobs \ {j} : pc'[i] = pc[i] /\ link'[i] = link[i] /\ member'[i] = member[i]
    BY <2>1, <2>2, CloseAt
  <2> QED
    BY <1>0, <2>3, <2>4
<1> QED
  BY <1>1, <1>2, <1>3, <1>4

(* A forced end closes rows beside the helper thread; it never says what   *)
(* the thread did not.                                                     *)
LEMMA ShutdownDelivers ==
  ASSUME TypeOK, DeliveryInv, NEW j \in Jobs, ForceEnd(j) \/ Cancelled(j)
  PROVE  StepOf(j) /\ JobInv(j)' /\ Kept(j)
<1> USE DEF StepOf, Same, Recovering, JobInv, HelperFollows, SettledLast, StageKnows,
            QuotaFollows, HistoryFollows, Kept, BeforePublication, Live, Awaiting
<1>0. JobInv(j) /\ process = "cancelling" /\ UNCHANGED <<process, helper, intent, lost>>
      /\ pc[j] \in Awaiting
  BY DEF DeliveryInv, ForceEnd, Cancelled
<1>1. ASSUME NEW bad, ForceCleanup(j, bad)
      PROVE  /\ obs'[j] = obs[j] \/ (obs[j] = "RUNNING" /\ obs'[j] = "FAILED")
             /\ link'[j] = "COMPLETED" <=> link[j] = "COMPLETED"
             /\ \A i \in Jobs \ {j} : obs'[i] = obs[i] /\ link'[i] = link[i]
  <2>1. (RecordRun(j, "FAILED", bad) \/ UNCHANGED obs) /\ FinishLink(j, "INTERRUPTED", bad)
    BY <1>1 DEF ForceCleanup
  <2> QED
    BY <2>1, RunAt, LinkAt
<1>2. CASE ForceEnd(j)
  <2>1. UNCHANGED <<pc, member>> /\ \E bad : ForceCleanup(j, bad)
    BY <1>2 DEF ForceEnd
  <2> QED
    BY <1>0, <1>1, <2>1
<1>3. CASE Cancelled(j)
  <2>1. CASE (\E bad : ForceCleanup(j, bad)) /\ Goto(j, "done") /\ UNCHANGED member
    BY <1>0, <1>1, <2>1, PcAt
  <2>2. CASE Goto(j, "done") /\ UNCHANGED <<obs, link, member>>
    BY <1>0, <2>2, PcAt
  <2>3. CASE \E bad : CutShort(j, bad)
    BY <1>0, <2>3, CutShortAt
  <2> QED
    BY <1>3, <2>1, <2>2, <2>3 DEF Cancelled
<1> QED
  BY <1>2, <1>3

(* The steps of the server.                                                *)
LEMMA ServerDelivers ==
  ASSUME TypeOK, DeliveryInv,
         \/ BeginShutdown \/ CancelJobs \/ Stop \/ Start
         \/ RecoverObs \/ RecoverLink \/ RecoverMember \/ RecoverStale \/ UNCHANGED vars
  PROVE  DeliveryInv' /\ \A j \in Jobs : Kept(j)
<1> USE DEF Recovering, DeliveryInv
<1>1. ASSUME Quiet', \A j \in Jobs : Same(j), UNCHANGED lost PROVE DeliveryInv' /\ \A j \in Jobs : Kept(j)
  <2>1. ASSUME NEW j \in Jobs PROVE JobInv(j)' /\ Kept(j)
    BY <1>1, Frame
  <2> QED
    BY <1>1, <2>1
<1>2. CASE BeginShutdown \/ CancelJobs \/ Start \/ UNCHANGED vars
  <2>1. Quiet'
    BY <1>2 DEF BeginShutdown, CancelJobs, Start, vars, memory, Quiet, Serving
  <2>2. (\A j \in Jobs : Same(j)) /\ UNCHANGED lost
    BY <1>2 DEF BeginShutdown, CancelJobs, Start, vars, memory, rows, Same
  <2> QED
    BY <1>1, <2>1, <2>2
<1>3. CASE Stop
  <2>1. /\ \A j \in Jobs : pc'[j] = IF pc[j] = "idle" THEN "idle" ELSE "old"
        /\ \A j \in Jobs : helper'[j] = "none"
        /\ UNCHANGED <<obs, link, member, intent, lost>>
    BY <1>3 DEF Stop
  <2>2. Quiet'
    BY <2>1 DEF Quiet
  <2>3. ASSUME NEW j \in Jobs PROVE JobInv(j)' /\ Kept(j)
    BY <2>1 DEF JobInv, HelperFollows, SettledLast, StageKnows, QuotaFollows, HistoryFollows, Kept,
       BeforePublication, Live, Awaiting
  <2> QED
    BY <2>2, <2>3
<1>4. CASE RecoverObs
  <2>1. PICK S \in SUBSET {j \in Jobs : obs[j] \in {"PENDING", "RUNNING"}} :
          obs' = [j \in Jobs |-> IF j \notin S THEN obs[j]
                                 ELSE IF obs[j] = "PENDING" THEN "CONFIRM" ELSE "FAILED"]
    BY <1>4 DEF RecoverObs
  <2>2. UNCHANGED <<pc, helper, link, member, intent, lost>> /\ process = "recover obs"
    BY <1>4 DEF RecoverObs, memory
  <2>3. Quiet'
    BY <2>2 DEF Quiet
  <2>4. ASSUME NEW j \in Jobs PROVE JobInv(j)' /\ Kept(j)
    BY <2>1, <2>2 DEF JobInv, HelperFollows, SettledLast, StageKnows, QuotaFollows, HistoryFollows, Kept
  <2> QED
    BY <2>3, <2>4
<1>5. CASE RecoverLink
  <2>1. \A j \in Jobs : link'[j] = IF link[j] = "RUNNING" THEN "INTERRUPTED" ELSE link[j]
    BY <1>5 DEF RecoverLink
  <2>2. UNCHANGED <<pc, helper, obs, member, intent, lost>> /\ process = "recover link"
    BY <1>5 DEF RecoverLink, memory
  <2>3. Quiet'
    BY <2>2 DEF Quiet
  <2>4. ASSUME NEW j \in Jobs PROVE JobInv(j)' /\ Kept(j)
    BY <2>1, <2>2 DEF JobInv, HelperFollows, SettledLast, StageKnows, QuotaFollows, HistoryFollows, Kept
  <2> QED
    BY <2>3, <2>4
<1>6. CASE RecoverMember
  <2>1. PICK S, unread :
          /\ S \subseteq {j \in Jobs : member[j] = "RESERVED"}
          /\ member' = [j \in Jobs |->
                          IF j \notin S THEN member[j]
                          ELSE IF intent[j] = "COMPLETE" /\ j \notin unread THEN "USED"
                          ELSE "RETURNED"]
          /\ lost' = lost \cup unread
    <3> DEFINE open == {j \in Jobs : member[j] = "RESERVED"}
    <3>1. PICK S \in (IF Faults = {{}} THEN {open} ELSE SUBSET open) :
            \E unread :
              /\ member' = [j \in Jobs |->
                              IF j \notin S THEN member[j]
                              ELSE IF intent[j] = "COMPLETE" /\ j \notin unread THEN "USED"
                              ELSE "RETURNED"]
              /\ lost' = lost \cup unread
      BY <1>6, Zenon DEF RecoverMember
    <3>2. S \subseteq open
      OBVIOUS
    <3> QED
      BY <3>1, <3>2
  <2>2. UNCHANGED <<pc, helper, obs, link, intent>> /\ process = "recover member"
    BY <1>6 DEF RecoverMember, memory
  <2>3. Quiet'
    BY <2>2 DEF Quiet
  <2>4. ASSUME NEW j \in Jobs PROVE JobInv(j)' /\ Kept(j)
    <3>1. pc[j] \in {"idle", "old"} /\ helper[j] = "none" /\ JobInv(j)
      BY <2>2 DEF Quiet
    <3> QED
      BY <2>1, <2>2, <3>1 DEF JobInv, HelperFollows, SettledLast, StageKnows, QuotaFollows,
         HistoryFollows, Kept, Live, Awaiting
  <2> QED
    BY <2>3, <2>4
<1>7. CASE RecoverStale
  <2>1. PICK stale, S : FailIntents(stale) /\ StopRelease(S)
    BY <1>7 DEF RecoverStale
  <2>2. UNCHANGED <<pc, helper, obs, member, lost>> /\ process = "recover stale" /\ process' = "serving"
    BY <1>7 DEF RecoverStale, memory
  <2>3. \A j \in Jobs : /\ intent'[j] = "COMPLETE" <=> intent[j] = "COMPLETE"
                        /\ link'[j] = "COMPLETED" <=> link[j] = "COMPLETED"
    BY <2>1, IntentAt, ReleaseAt
  <2>4. Quiet'
    BY <2>2 DEF Quiet
  <2>5. ASSUME NEW j \in Jobs PROVE JobInv(j)' /\ Kept(j)
    BY <2>2, <2>3 DEF JobInv, HelperFollows, SettledLast, StageKnows, QuotaFollows, HistoryFollows, Kept
  <2> QED
    BY <2>4, <2>5
<1> QED
  BY <1>2, <1>3, <1>4, <1>5, <1>6, <1>7

LEMMA InitDelivers == Init => DeliveryInv
BY DEF Init, DeliveryInv, Quiet, Recovering, JobInv, HelperFollows, SettledLast, StageKnows,
   QuotaFollows, HistoryFollows, BeforePublication, Live, Awaiting

LEMMA StepDelivers ==
  ASSUME TypeOK, DeliveryInv, [Next]_vars
  PROVE  DeliveryInv' /\ \A j \in Jobs : Kept(j)
<1>1. ASSUME NEW j \in Jobs,
             Request(j) \/ Task(j) \/ Thread(j) \/ Delivery(j) \/ ForceEnd(j) \/ AdminSettle(j) \/ Reap(j)
      PROVE  DeliveryInv' /\ \A i \in Jobs : Kept(i)
  <2>1. StepOf(j) /\ JobInv(j)' /\ Kept(j)
    BY <1>1, RequestDelivers, ThreadDelivers, DeliveryDelivers, TaskDelivers, ShutdownDelivers DEF Task
  <2> QED
    BY <2>1, OneJob
<1> QED
  BY <1>1, ServerDelivers DEF Next

JobIInv == TypeOK /\ DeliveryInv

(* The inductive invariant of the delivery.                                *)
THEOREM JobDelivery == Spec => []JobIInv
<1>1. Init => JobIInv
  BY InitTypes, InitDelivers DEF JobIInv
<1>2. JobIInv /\ [Next]_vars => JobIInv'
  BY StepTypes, StepDelivers DEF JobIInv
<1> QED
  BY <1>1, <1>2, PTL DEF Spec

(* A member's daily use is what was delivered to it.                       *)
THEOREM JobQuota == Spec => []QuotaFollowsDelivery
<1>1. JobIInv => QuotaFollowsDelivery
  BY DEF JobIInv, DeliveryInv, JobInv, QuotaFollows, QuotaFollowsDelivery
<1> QED
  BY <1>1, JobDelivery, PTL

(* The history of a link names exactly the published reports, and that of  *)
(* the runs no FULL report that was not published.                         *)
THEOREM JobHistory == Spec => []HistoryFollowsDelivery
<1>1. JobIInv => HistoryFollowsDelivery
  BY JobAssumption DEF JobIInv, DeliveryInv, JobInv, HistoryFollows, HistoryFollowsDelivery
<1> QED
  BY <1>1, JobDelivery, PTL

(* What was said of a run is not taken back.                               *)
THEOREM JobFinal == Spec => FinalIsFinal
<1>1. JobIInv /\ [Next]_vars =>
        [\A j \in Jobs :
           /\ obs[j] \in {"CONFIRM", "FAILED", "REPORT"} => obs'[j] = obs[j]
           /\ member[j] \in {"USED", "RETURNED"} => member'[j] = member[j]
           /\ intent[j] = "COMPLETE" => intent'[j] = "COMPLETE"]_vars
  BY StepDelivers DEF JobIInv, Kept
<1> QED
  BY <1>1, JobDelivery, PTL DEF Spec, FinalIsFinal

-----------------------------------------------------------------------------
(* What is closed.                                                         *)

\* Up to its task a request has opened nothing but its run, its LINK row and its quota.
Early == {"idle", "confirm", "starting", "booked", "scheduled"}

Fresh(j) ==
  /\ pc[j] \in Early \cup {"away", "old"} => worker[j] = "none" /\ helper[j] = "none"
  /\ pc[j] \in Early => phase[j] = "none" /\ intent[j] = "none" /\ j \notin closed
  /\ pc[j] \in {"idle", "confirm", "starting"} => link[j] = "none" /\ member[j] = "none"
  /\ pc[j] = "idle" => obs[j] = "none"
  /\ pc[j] \in {"starting", "booked", "scheduled"} => obs[j] # "PENDING"

\* A phase the job does not know of belongs to a thread that is about to tell it.
ThreadKnows(j) ==
  /\ j \in closed => pc[j] = "done"
  /\ pc[j] = "running" /\ worker[j] \in {"preflight", "calling", "report", "failed"} =>
       phase[j] # "held"
  /\ pc[j] \in Awaiting \ {"running"} => worker[j] \notin Working /\ phase[j] \notin {"held", "installed"}
  /\ pc[j] = "done" /\ (worker[j] \in Working \/ phase[j] \in {"held", "installed"}) => j \in closed

\* Which duty may still stand where the job waits for its helper thread.
DutyKnown(j) ==
  /\ pc[j] = "running" => helper[j] = "none" /\ intent[j] # "REQUIRED"
  /\ pc[j] = "requiring" =>
       /\ helper[j] \in {"require", "ok", "error"}
       /\ helper[j] # "ok" => intent[j] # "REQUIRED"
  /\ pc[j] = "delivering" => helper[j] \in {"deliver", "blocked", "ok", "error"}
  /\ pc[j] = "failing" => helper[j] \in {"fail", "ok"} /\ (helper[j] = "ok" => intent[j] # "REQUIRED")
  /\ pc[j] \in {"available", "unavailable", "done"} => helper[j] = "none" /\ intent[j] # "REQUIRED"

\* Which rows are open where the job stands, and how far a start has got.
RowsKnown(j) ==
  /\ pc[j] \in Live => obs[j] # "PENDING"
  /\ pc[j] \in {"available", "unavailable"} => obs[j] # "RUNNING"
  /\ pc[j] \in Awaiting \ {"running"} /\ j \notin FullJobs => obs[j] # "RUNNING"
  /\ pc[j] = "done" => ~Open(j) /\ link[j] # "AWAITING"
  /\ pc[j] = "away" => link[j] # "RUNNING" /\ member[j] # "RESERVED"
  /\ pc[j] = "old" /\ process \notin {"down", "recover obs"} => obs[j] \notin {"PENDING", "RUNNING"}
  /\ pc[j] = "old" /\ process \notin {"down", "recover obs", "recover link"} => link[j] # "RUNNING"
  /\ pc[j] = "old" /\ process \notin {"down", "recover obs", "recover link", "recover member"} =>
       member[j] # "RESERVED"

Tidy(j) == ThreadKnows(j) /\ DutyKnown(j) /\ RowsKnown(j)

Clean(j) == Fresh(j) /\ (j \notin spoiled => Tidy(j))

CloseInv == \A j \in Jobs : Clean(j)

\* Nothing of a job that these facts look at changes; a spoiled one stays so.
Untouched(j) ==
  /\ Same(j) /\ worker'[j] = worker[j] /\ phase'[j] = phase[j]
  /\ j \in closed' <=> j \in closed
  /\ j \in spoiled => j \in spoiled'

LEMMA CleanFrame ==
  ASSUME NEW j \in Jobs, Clean(j), Untouched(j), UNCHANGED process
  PROVE  Clean(j)'
<1>1. Fresh(j)'
  BY DEF Clean, Fresh, Untouched, Same
<1>2. ASSUME j \notin spoiled' PROVE Tidy(j)'
  <2>1. Tidy(j)
    BY <1>2 DEF Clean, Untouched
  <2>2. ThreadKnows(j)'
    BY <2>1 DEF Tidy, ThreadKnows, Untouched, Same
  <2>3. DutyKnown(j)'
    BY <2>1 DEF Tidy, DutyKnown, Untouched, Same
  <2>4. RowsKnown(j)'
    BY <2>1 DEF Tidy, RowsKnown, Open, Untouched, Same
  <2> QED
    BY <2>2, <2>3, <2>4 DEF Tidy
<1> QED
  BY <1>1, <1>2 DEF Clean

(* A write that fails spoils the job.                                      *)
LEMMA SpoilAt ==
  ASSUME NEW j \in Jobs, NEW bad, Spoil(j, bad)
  PROVE  /\ \A i \in Jobs \ {j} : i \in spoiled' <=> i \in spoiled
         /\ j \in spoiled => j \in spoiled'
         /\ j \notin spoiled' => bad = {}
BY DEF Spoil

(* A write that does not fail.                                             *)
LEMMA RunRecorded ==
  ASSUME TypeOK, NEW j \in Jobs, NEW outcome, RecordRun(j, outcome, {})
  PROVE  obs'[j] = IF obs[j] = "RUNNING" THEN outcome ELSE obs[j]
<1>1. DOMAIN obs = Jobs
  BY Parts DEF ObsOK
<1> QED
  BY <1>1 DEF RecordRun

LEMMA PhaseAt ==
  ASSUME TypeOK, NEW j \in Jobs, NEW bad, SettlePhase(j, bad)
  PROVE  /\ phase'[j] \in {phase[j], "settled"}
         /\ bad = {} => phase'[j] = IF phase[j] = "installed" THEN "settled" ELSE phase[j]
         /\ \A i \in Jobs \ {j} : phase'[i] = phase[i]
<1>1. DOMAIN phase = Jobs
  BY Parts DEF PhaseOK
<1> QED
  BY <1>1 DEF SettlePhase

LEMMA LinkFinished ==
  ASSUME TypeOK, NEW j \in Jobs, NEW status \in {"STOPPED", "INTERRUPTED"}, FinishLink(j, status, {})
  PROVE  link'[j] \notin {"RUNNING", "AWAITING"}
<1>1. DOMAIN link = Jobs /\ link[j] \in {"none", "RUNNING", "AWAITING", "STOPPED", "INTERRUPTED", "COMPLETED"}
  BY Parts DEF LinkOK
<1> QED
  BY <1>1 DEF FinishLink

LEMMA LinkEnsured ==
  ASSUME TypeOK, NEW j \in Jobs, EnsureLinkClosed(j, {})
  PROVE  link'[j] = IF link[j] = "RUNNING" THEN "STOPPED" ELSE link[j]
<1>1. DOMAIN link = Jobs
  BY Parts DEF LinkOK
<1> QED
  BY <1>1 DEF EnsureLinkClosed

LEMMA MemberSettled ==
  ASSUME TypeOK, NEW j \in Jobs, NEW state \in {"USED", "RETURNED"}, SettleMember(j, state, {})
  PROVE  member'[j] # "RESERVED"
<1>1. DOMAIN member = Jobs
  BY Parts DEF MemberOK
<1> QED
  BY <1>1 DEF SettleMember

LEMMA DutyFailed ==
  ASSUME NEW j \in Jobs, FailIntents({j})
  PROVE  intent'[j] = IF intent[j] = "REQUIRED" THEN "FAILED" ELSE intent[j]
BY DEF FailIntents

(* A failed run that is closed with every write done.                      *)
LEMMA FailedIsClosed ==
  ASSUME TypeOK, NEW j \in Jobs, CloseFailed(j, {}), obs[j] # "PENDING"
  PROVE  pc'[j] = "done" /\ Open(j)' = FALSE /\ link'[j] # "AWAITING"
<1>1. RecordRun(j, "FAILED", {}) /\ Close(j, FALSE, {})
  BY DEF CloseFailed
<1>2. SettleMember(j, "RETURNED", {}) /\ FinishLink(j, "STOPPED", {}) /\ Goto(j, "done")
  BY <1>1 DEF Close
<1>3. obs'[j] \notin {"PENDING", "RUNNING"}
  BY <1>1, RunRecorded
<1>4. link'[j] \notin {"RUNNING", "AWAITING"}
  BY <1>2, LinkFinished
<1>5. member'[j] # "RESERVED"
  BY <1>2, MemberSettled
<1>6. pc'[j] = "done"
  BY <1>2, PcAt
<1> QED
  BY <1>3, <1>4, <1>5, <1>6 DEF Open

(* A step of one job leaves the others as they are.                        *)
LEMMA OthersUntouched ==
  ASSUME TypeOK, DeliveryInv, NEW j \in Jobs,
         Request(j) \/ Task(j) \/ Thread(j) \/ Delivery(j) \/ ForceEnd(j) \/ AdminSettle(j) \/ Reap(j)
  PROVE  UNCHANGED process /\ \A i \in Jobs \ {j} : Untouched(i)
<1>1. StepOf(j)
  BY RequestDelivers, ThreadDelivers, DeliveryDelivers, TaskDelivers, ShutdownDelivers DEF Task
<1>0. DOMAIN worker = Jobs /\ DOMAIN phase = Jobs
  BY Parts DEF WorkerOK, PhaseOK
<1>2. \A i \in Jobs \ {j} : worker'[i] = worker[i]
  <2>1. CASE Request(j)
    BY <2>1 DEF Request, Ask, Abandon, Expire, TakeSlot, ConsumeFails, memory
  <2>2. CASE Task(j)
    BY <1>0, <2>2 DEF Task, Book, TurnAway, Schedule, StartTask, Collect, Deadline, AfterRequire,
       AfterDeliver, AfterFail, AfterSession, Cancelled
  <2>3. CASE Thread(j)
    BY <1>0, <2>3 DEF Thread, ReservePhase, CheckSession, InstallPhase, EndWorker
  <2>4. CASE Delivery(j)
    BY <2>4 DEF Delivery, Require, Publish, Blocked, StopBlocked, Fail
  <2>5. CASE ForceEnd(j) \/ AdminSettle(j) \/ Reap(j)
    BY <2>5 DEF ForceEnd, AdminSettle, Reap, memory
  <2> QED
    BY <2>1, <2>2, <2>3, <2>4, <2>5
<1>3. \A i \in Jobs \ {j} : phase'[i] = phase[i]
  <2>1. CASE Request(j)
    BY <2>1 DEF Request, Ask, Abandon, Expire, TakeSlot, ConsumeFails
  <2>2. CASE Collect(j) \/ Deadline(j) \/ Cancelled(j) \/ ForceEnd(j)
    <3>1. UNCHANGED phase \/ \E bad : SettlePhase(j, bad)
      BY <2>2 DEF Collect, Deadline, Cancelled, ForceEnd, ForceCleanup
    <3> QED
      BY <3>1, PhaseAt
  <2>3. CASE Book(j) \/ TurnAway(j) \/ Schedule(j) \/ StartTask(j)
    BY <2>3 DEF Book, TurnAway, Schedule, StartTask, rows
  <2>4. CASE AfterRequire(j) \/ AfterDeliver(j) \/ AfterFail(j) \/ AfterSession(j)
    BY <2>4 DEF AfterRequire, AfterDeliver, AfterFail, AfterSession
  <2>5. CASE Thread(j)
    BY <1>0, <2>5 DEF Thread, ReservePhase, CheckSession, InstallPhase, EndWorker, rows
  <2>6. CASE Delivery(j)
    BY <2>6 DEF Delivery, Require, Publish, Blocked, StopBlocked, Fail
  <2>7. CASE AdminSettle(j) \/ Reap(j)
    BY <1>0, <2>7 DEF AdminSettle, Reap
  <2> QED
    BY <2>1, <2>2, <2>3, <2>4, <2>5, <2>6, <2>7 DEF Task
<1>4. closed' = closed \/ closed' = closed \cup {j}
  <2>1. CASE Request(j)
    BY <2>1 DEF Request, Ask, Abandon, Expire, TakeSlot, ConsumeFails, memory
  <2>2. CASE Task(j)
    BY <2>2 DEF Task, Book, TurnAway, Schedule, StartTask, Collect, Deadline, AfterRequire,
       AfterDeliver, AfterFail, AfterSession, Cancelled, RecordEnd, ForceCleanup
  <2>3. CASE Thread(j)
    BY <2>3 DEF Thread, ReservePhase, CheckSession, InstallPhase, EndWorker
  <2>4. CASE Delivery(j)
    BY <2>4 DEF Delivery, Require, Publish, Blocked, StopBlocked, Fail
  <2>5. CASE ForceEnd(j) \/ AdminSettle(j) \/ Reap(j)
    BY <2>5 DEF ForceEnd, AdminSettle, Reap, memory, ForceCleanup
  <2> QED
    BY <2>1, <2>2, <2>3, <2>4, <2>5
<1>5. spoiled \subseteq spoiled'
  <2>1. CASE Request(j)
    BY <2>1 DEF Request, Ask, Abandon, Expire, TakeSlot, ConsumeFails, Spoil
  <2>2. CASE Task(j)
    BY <2>2 DEF Task, Book, TurnAway, Schedule, StartTask, Collect, Deadline, AfterRequire,
       AfterDeliver, AfterFail, AfterSession, Cancelled, RecordEnd, Spoil
  <2>3. CASE Thread(j)
    BY <2>3 DEF Thread, ReservePhase, CheckSession, InstallPhase, EndWorker, Spoil
  <2>4. CASE Delivery(j)
    BY <2>4 DEF Delivery, Require, Publish, Blocked, StopBlocked, Fail, Spoil
  <2>5. CASE ForceEnd(j) \/ AdminSettle(j) \/ Reap(j)
    BY <2>5 DEF ForceEnd, AdminSettle, Reap, Spoil
  <2> QED
    BY <2>1, <2>2, <2>3, <2>4, <2>5
<1> QED
  BY <1>1, <1>2, <1>3, <1>4, <1>5 DEF StepOf, Untouched

(* Up to the job there is no more to say; a request that went away closed  *)
(* what it booked.                                                         *)
LEMMA EarlyIsClean ==
  ASSUME NEW j \in Jobs, Fresh(j)', pc'[j] \in Early
  PROVE  Clean(j)'
BY DEF Clean, Fresh, Tidy, ThreadKnows, DutyKnown, RowsKnown, Early, Live, Awaiting

LEMMA AwayIsClean ==
  ASSUME NEW j \in Jobs, Clean(j), pc[j] \in Early, pc'[j] = "away",
         UNCHANGED <<worker, helper, phase, intent, closed>>,
         j \notin spoiled' => link'[j] # "RUNNING" /\ member'[j] # "RESERVED"
  PROVE  Clean(j)'
<1>1. Fresh(j)'
  BY DEF Clean, Fresh, Early
<1>2. j \notin closed'
  BY DEF Clean, Fresh
<1> QED
  BY <1>1, <1>2 DEF Clean, Tidy, ThreadKnows, DutyKnown, RowsKnown, Live, Awaiting

LEMMA RequestCleans ==
  ASSUME TypeOK, CloseInv, DeliveryInv, NEW j \in Jobs,
         Request(j) \/ Book(j) \/ TurnAway(j) \/ Schedule(j)
  PROVE  Clean(j)'
<1>0. Clean(j) /\ DOMAIN obs = Jobs /\ DOMAIN link = Jobs /\ DOMAIN member = Jobs
  BY Parts DEF CloseInv, ObsOK, LinkOK, MemberOK
<1>01. Fresh(j)
  BY <1>0 DEF Clean
<1>1. CASE Ask(j)
  <2>1. Fresh(j)' /\ pc'[j] \in Early
    BY <1>0, <1>01, <1>1, PcAt DEF Ask, Fresh, Early
  <2> QED
    BY <2>1, EarlyIsClean
<1>2. CASE Abandon(j)
  <2>1. /\ pc[j] = "confirm" /\ pc'[j] = "away"
        /\ UNCHANGED <<worker, helper, phase, intent, closed, link, member>>
    BY <1>2, PcAt DEF Abandon
  <2> QED
    BY <1>0, <1>01, <2>1, AwayIsClean DEF Fresh, Early
<1>3. CASE Expire(j)
  <2>1. /\ obs[j] = "PENDING" /\ obs'[j] = "CONFIRM" /\ process' = process
        /\ UNCHANGED <<pc, worker, helper, phase, intent, closed, link, member, spoiled>>
    BY <1>0, <1>3 DEF Expire, memory, RecordConfirm
  <2>2. Fresh(j)'
    BY <1>01, <2>1 DEF Fresh
  <2>3. ASSUME j \notin spoiled' PROVE ThreadKnows(j)' /\ DutyKnown(j)' /\ RowsKnown(j)'
    BY <1>0, <2>1, <2>3 DEF Clean, Tidy, ThreadKnows, DutyKnown, RowsKnown, Open
  <2> QED
    BY <2>2, <2>3 DEF Clean, Tidy
<1>4. CASE TakeSlot(j)
  <2>1. Fresh(j)' /\ pc'[j] \in Early
    BY <1>0, <1>01, <1>4, PcAt DEF TakeSlot, Fresh, Early
  <2> QED
    BY <2>1, EarlyIsClean
<1>5. CASE ConsumeFails(j)
  <2>1. /\ pc[j] = "confirm" /\ pc'[j] = "away"
        /\ UNCHANGED <<worker, helper, phase, intent, closed, link, member>>
    BY <1>5, PcAt DEF ConsumeFails
  <2> QED
    BY <1>0, <1>01, <2>1, AwayIsClean DEF Fresh, Early
<1>6. CASE Book(j)
  <2>1. /\ pc[j] = "starting" /\ pc'[j] = "booked"
        /\ UNCHANGED <<worker, helper, phase, intent, closed, obs>>
    BY <1>6, PcAt DEF Book
  <2>2. Fresh(j)' /\ pc'[j] \in Early
    BY <1>01, <2>1 DEF Fresh, Early
  <2> QED
    BY <2>2, EarlyIsClean
<1>7. CASE TurnAway(j)
  <2>1. PICK bad \in Failing(j, {"obs", "link", "member"}) :
          /\ \E status \in {"STOPPED", "INTERRUPTED"} : FinishLink(j, status, bad)
          /\ SettleMember(j, "RETURNED", bad) /\ Spoil(j, bad)
    BY <1>7, Zenon DEF TurnAway
  <2>2. /\ pc[j] \in Early /\ pc'[j] = "away"
        /\ UNCHANGED <<worker, helper, phase, intent, closed>>
    BY <1>7, PcAt DEF TurnAway, Early
  <2>3. ASSUME j \notin spoiled' PROVE link'[j] # "RUNNING" /\ member'[j] # "RESERVED"
    <3>1. bad = {}
      BY <2>1, <2>3, SpoilAt
    <3>2. link'[j] # "RUNNING"
      BY <2>1, <3>1, LinkFinished
    <3>3. member'[j] # "RESERVED"
      BY <2>1, <3>1, MemberSettled
    <3> QED
      BY <3>2, <3>3
  <2> QED
    BY <1>0, <2>2, <2>3, AwayIsClean
<1>8. CASE Schedule(j)
  <2>1. /\ pc[j] = "booked" /\ pc'[j] = "scheduled"
        /\ UNCHANGED <<worker, helper, phase, intent, closed, obs>>
    BY <1>8, PcAt DEF Schedule, rows
  <2>2. Fresh(j)' /\ pc'[j] \in Early
    BY <1>01, <2>1 DEF Fresh, Early
  <2> QED
    BY <2>2, EarlyIsClean
<1> QED
  BY <1>1, <1>2, <1>3, <1>4, <1>5, <1>6, <1>7, <1>8 DEF Request

(* The pipeline thread, and the lease of a phase.                          *)
LEMMA ThreadCleans ==
  ASSUME TypeOK, CloseInv, DeliveryInv, NEW j \in Jobs, Thread(j) \/ Reap(j)
  PROVE  Clean(j)'
<1>0. /\ Clean(j) /\ DOMAIN worker = Jobs /\ DOMAIN phase = Jobs /\ pc[j] \in {"idle", "confirm", "done", "away", "old"} \cup Live
      /\ UNCHANGED <<process, pc, helper, closed, obs, link, member, intent>>
      /\ spoiled \subseteq spoiled'
  <2>1. Clean(j) /\ DOMAIN worker = Jobs /\ DOMAIN phase = Jobs /\ pc[j] \in {"idle", "confirm", "done", "away", "old"} \cup Live
    BY Parts DEF CloseInv, WorkerOK, PhaseOK, PcOK
  <2>2. UNCHANGED <<process, pc, helper, closed, obs, link, member, intent>> /\ spoiled \subseteq spoiled'
    BY DEF Thread, ReservePhase, CheckSession, InstallPhase, EndWorker, Reap, memory, rows, Spoil
  <2> QED
    BY <2>1, <2>2
<1> USE DEF Clean, Fresh, Tidy, Early, Live, Awaiting, Working
<1>1. Fresh(j)'
  <2>1. CASE Thread(j)
    <3>1. worker[j] # "none"
      BY <2>1 DEF Thread, ReservePhase, CheckSession, InstallPhase, EndWorker
    <3> QED
      BY <1>0, <3>1
  <2>2. CASE Reap(j)
    BY <1>0, <2>2 DEF Reap, memory
  <2> QED
    BY <2>1, <2>2
<1>2. ASSUME j \notin spoiled' PROVE DutyKnown(j)' /\ RowsKnown(j)'
  <2>1. Tidy(j)
    BY <1>0, <1>2
  <2> QED
    BY <1>0, <2>1 DEF DutyKnown, RowsKnown, Open
<1>3. ASSUME j \notin spoiled' PROVE ThreadKnows(j)'
  <2>1. ThreadKnows(j)
    BY <1>0, <1>3
  <2> USE <1>0, <2>1 DEF ThreadKnows
  <2>2. CASE ReservePhase(j)
    BY <2>2 DEF ReservePhase
  <2>3. CASE CheckSession(j)
    BY <2>3 DEF CheckSession
  <2>4. CASE InstallPhase(j)
    BY <2>4 DEF InstallPhase
  <2>5. CASE EndWorker(j)
    BY <2>5 DEF EndWorker, rows
  <2>6. CASE Reap(j)
    BY <2>6 DEF Reap, memory
  <2> QED
    BY <2>2, <2>3, <2>4, <2>5, <2>6 DEF Thread
<1> QED
  BY <1>1, <1>2, <1>3

(* A job that runs, or ended, is past what Fresh speaks of.                *)
LEMMA LateIsClean ==
  ASSUME NEW j \in Jobs, pc'[j] \in Awaiting \cup {"done"}, j \notin spoiled' => Tidy(j)'
  PROVE  Clean(j)'
BY DEF Clean, Fresh, Early, Awaiting

(* The delivery: the helper thread moves the duty, the job the rows.       *)
LEMMA HelperCleans ==
  ASSUME TypeOK, CloseInv, DeliveryInv, NEW j \in Jobs, Delivery(j)
  PROVE  Clean(j)'
<1>0. /\ Clean(j) /\ HelperFollows(j)
      /\ DOMAIN helper = Jobs /\ DOMAIN intent = Jobs
  BY Parts DEF CloseInv, DeliveryInv, JobInv, HelperOK, IntentOK
<1>1. UNCHANGED <<process, pc, worker, phase, closed, obs, member>> /\ spoiled \subseteq spoiled'
  BY DEF Delivery, Require, Publish, Blocked, StopBlocked, Fail, Spoil
<1>2. helper[j] \in {"require", "deliver", "blocked", "fail"} /\ pc[j] \in {"requiring", "delivering", "failing", "done"}
  BY <1>0 DEF Delivery, Require, Publish, Blocked, StopBlocked, Fail, HelperFollows
<1>3. ASSUME j \notin spoiled' PROVE Tidy(j)'
  <2>1. Tidy(j)
    BY <1>0, <1>1, <1>3 DEF Clean
  <2>2. pc[j] \in {"requiring", "delivering", "failing"}
    BY <1>2, <2>1 DEF Tidy, DutyKnown
  <2>3. ThreadKnows(j)'
    BY <1>1, <2>1 DEF Tidy, ThreadKnows
  <2>4. RowsKnown(j)'
    BY <1>1, <2>1, <2>2 DEF Tidy, RowsKnown, Live, Awaiting
  <2>5. DutyKnown(j)'
    <3> USE <1>0, <1>1, <2>1, <2>2 DEF Tidy, DutyKnown
    <3>1. CASE Require(j)
      BY <3>1, HelperAt DEF Require, HelperFollows
    <3>2. CASE Publish(j)
      BY <3>2, HelperAt DEF Publish, HelperFollows
    <3>3. CASE Blocked(j)
      BY <3>3, HelperAt DEF Blocked, HelperFollows
    <3>4. CASE StopBlocked(j)
      BY <3>4, HelperAt DEF StopBlocked, HelperFollows
    <3>5. CASE Fail(j)
      <4>1. FailIntents({j}) /\ Helper(j, "ok") /\ helper[j] = "fail"
        <5>1. PICK bad \in Failing(j, {"intent"}) :
                (IF "intent" \in bad THEN UNCHANGED intent ELSE FailIntents({j})) /\ Spoil(j, bad)
          BY <3>5 DEF Fail
        <5>2. bad = {}
          BY <1>3, <5>1, SpoilAt
        <5> QED
          BY <3>5, <5>1, <5>2 DEF Fail
      <4>2. intent'[j] # "REQUIRED" /\ helper'[j] = "ok"
        BY <4>1, DutyFailed, HelperAt
      <4> QED
        BY <4>1, <4>2 DEF HelperFollows
    <3> QED
      BY <3>1, <3>2, <3>3, <3>4, <3>5 DEF Delivery
  <2> QED
    BY <2>3, <2>4, <2>5 DEF Tidy
<1> QED
  BY <1>1, <1>2, <1>3, LateIsClean DEF Awaiting

LEMMA StageAt ==
  ASSUME TypeOK, NEW j \in Jobs, NEW to, NEW h, Goto(j, to), Helper(j, h)
  PROVE  pc'[j] = to /\ helper'[j] = h
BY PcAt, HelperAt

LEMMA DeliveryCleans ==
  ASSUME TypeOK, CloseInv, DeliveryInv, NEW j \in Jobs,
         AfterRequire(j) \/ AfterDeliver(j) \/ AfterFail(j)
  PROVE  Clean(j)'
<1>0. Clean(j) /\ JobInv(j)
  BY DEF CloseInv, DeliveryInv
<1>1. /\ UNCHANGED <<process, worker, phase, closed, member, intent>> /\ spoiled \subseteq spoiled'
      /\ pc[j] \in {"requiring", "delivering", "failing"}
  BY DEF AfterRequire, AfterDeliver, AfterFail, RecordEnd, Spoil
<1>2. pc'[j] \in {"delivering", "failing", "available", "unavailable"}
  BY PcAt DEF AfterRequire, AfterDeliver, AfterFail
<1>3. ASSUME j \notin spoiled' PROVE Tidy(j)'
  <2>1. Tidy(j) /\ j \notin spoiled
    BY <1>0, <1>1, <1>3 DEF Clean
  <2>2. ThreadKnows(j)'
    BY <1>1, <1>2, <2>1 DEF Tidy, ThreadKnows, Awaiting
  <2>3. obs[j] # "PENDING" /\ (j \notin FullJobs => obs[j] # "RUNNING")
    BY <1>1, <2>1 DEF Tidy, RowsKnown, Live, Awaiting
  <2>8. ASSUME NEW outcome \in {"FAILED", "REPORT"}, RecordEnd(j, outcome)
        PROVE  obs'[j] \notin {"PENDING", "RUNNING"}
    <3>1. CASE j \notin FullJobs /\ UNCHANGED obs
      BY <2>3, <3>1
    <3>2. CASE \E bad : RecordRun(j, outcome, bad) /\ Spoil(j, bad)
      <4>1. RecordRun(j, outcome, {})
        BY <1>3, <3>2, SpoilAt
      <4> QED
        BY <2>3, <4>1, RunRecorded
    <3> QED
      BY <2>8, <3>1, <3>2, EndObs
  <2>4. CASE AfterRequire(j)
    <3>1. CASE helper[j] = "ok" /\ Goto(j, "delivering") /\ Helper(j, "deliver") /\ UNCHANGED obs
      <4>1. pc'[j] = "delivering" /\ helper'[j] = "deliver"
        BY <3>1, StageAt
      <4> QED
        BY <1>1, <2>2, <2>3, <3>1, <4>1 DEF Tidy, DutyKnown, RowsKnown
    <3>2. CASE helper[j] = "ok" /\ Goto(j, "failing") /\ Helper(j, "fail") /\ UNCHANGED obs
      <4>1. pc'[j] = "failing" /\ helper'[j] = "fail"
        BY <3>2, StageAt
      <4> QED
        BY <1>1, <2>2, <2>3, <3>2, <4>1 DEF Tidy, DutyKnown, RowsKnown
    <3>3. CASE /\ helper[j] = "error" /\ Goto(j, "unavailable") /\ Helper(j, "none")
               /\ RecordEnd(j, "FAILED")
      <4>2. obs'[j] \notin {"PENDING", "RUNNING"}
        BY <2>8, <3>3
      <4>3. intent[j] # "REQUIRED"
        BY <2>1, <2>4, <3>3 DEF AfterRequire, Tidy, DutyKnown
      <4>4. pc'[j] = "unavailable" /\ helper'[j] = "none"
        BY <3>3, StageAt
      <4> QED
        BY <1>1, <2>2, <3>3, <4>2, <4>3, <4>4 DEF Tidy, DutyKnown, RowsKnown
    <3> QED
      BY <2>4, <3>1, <3>2, <3>3 DEF AfterRequire
  <2>5. CASE AfterDeliver(j)
    <3>1. CASE helper[j] = "ok"
      <4>1. Goto(j, "available") /\ Helper(j, "none") /\ pc[j] = "delivering"
        BY <2>5, <3>1 DEF AfterDeliver
      <4>2. RecordEnd(j, "REPORT")
        BY <2>5, <3>1 DEF AfterDeliver
      <4>3. obs'[j] \notin {"PENDING", "RUNNING"}
        BY <2>8, <4>2
      <4>4. intent[j] = "COMPLETE"
        BY <1>0, <3>1, <4>1 DEF JobInv, StageKnows
      <4>5. pc'[j] = "available" /\ helper'[j] = "none"
        BY <4>1, StageAt
      <4> QED
        BY <1>1, <2>2, <4>1, <4>3, <4>4, <4>5 DEF Tidy, DutyKnown, RowsKnown
    <3>2. CASE helper[j] # "ok"
      <4>1. Goto(j, "failing") /\ Helper(j, "fail") /\ UNCHANGED obs
        BY <2>5, <3>2 DEF AfterDeliver
      <4>2. pc'[j] = "failing" /\ helper'[j] = "fail"
        BY <4>1, StageAt
      <4> QED
        BY <1>1, <2>2, <2>3, <4>1, <4>2 DEF Tidy, DutyKnown, RowsKnown
    <3> QED
      BY <3>1, <3>2
  <2>6. CASE AfterFail(j)
    <3>1. Goto(j, "unavailable") /\ Helper(j, "none") /\ pc[j] = "failing" /\ helper[j] = "ok"
      BY <2>6 DEF AfterFail
    <3>2. RecordEnd(j, "FAILED")
      BY <2>6 DEF AfterFail
    <3>3. obs'[j] \notin {"PENDING", "RUNNING"}
      BY <2>8, <3>2
    <3>4. intent[j] # "REQUIRED"
      BY <2>1, <3>1 DEF Tidy, DutyKnown
    <3>5. pc'[j] = "unavailable" /\ helper'[j] = "none"
      BY <3>1, StageAt
    <3> QED
      BY <1>1, <2>2, <3>1, <3>3, <3>4, <3>5 DEF Tidy, DutyKnown, RowsKnown
  <2> QED
    BY <2>4, <2>5, <2>6
<1> QED
  BY <1>2, <1>3, LateIsClean DEF Awaiting

(* An administrator ends a duty where it stands.                           *)
LEMMA AdminCleans ==
  ASSUME TypeOK, CloseInv, DeliveryInv, NEW j \in Jobs, AdminSettle(j)
  PROVE  Clean(j)'
<1>0. Clean(j) /\ DOMAIN intent = Jobs
  BY Parts DEF CloseInv, IntentOK
<1>1. /\ UNCHANGED <<process, pc, worker, helper, phase, closed, obs, member>>
      /\ intent[j] = "REQUIRED" /\ intent'[j] = "FAILED" /\ process = "serving"
  BY DutyFailed DEF AdminSettle, memory, Serving
<1>2. PICK bad \in Failing(j, {"link"}) :
        (IF "link" \in bad THEN UNCHANGED link ELSE StopRelease({j})) /\ Spoil(j, bad)
  BY DEF AdminSettle
<1>3. link'[j] = link[j] \/ (link[j] \in {"AWAITING", "INTERRUPTED"} /\ link'[j] = "STOPPED")
  BY <1>2 DEF StopRelease
<1>4. Fresh(j)'
  BY <1>0, <1>1, <1>3 DEF Clean, Fresh
<1>5. ASSUME j \notin spoiled' PROVE Tidy(j)'
  <2>1. Tidy(j)
    BY <1>0, <1>2, <1>5, SpoilAt DEF Clean
  <2>2. ThreadKnows(j)'
    BY <1>1, <2>1 DEF Tidy, ThreadKnows
  <2>3. DutyKnown(j)'
    BY <1>1, <2>1 DEF Tidy, DutyKnown
  <2>4. RowsKnown(j)'
    BY <1>1, <1>3, <2>1 DEF Tidy, RowsKnown, Open
  <2> QED
    BY <2>2, <2>3, <2>4 DEF Tidy
<1> QED
  BY <1>4, <1>5 DEF Clean

(* The job: on the way to its end it closes what its stage has open.       *)
LEMMA TaskCleans ==
  ASSUME TypeOK, CloseInv, DeliveryInv, NEW j \in Jobs,
         StartTask(j) \/ Collect(j) \/ Deadline(j) \/ AfterSession(j)
  PROVE  Clean(j)'
<1>0. Clean(j) /\ JobInv(j) /\ DOMAIN worker = Jobs
  BY Parts DEF CloseInv, DeliveryInv, WorkerOK
<1>1. CASE StartTask(j)
  <2>1. pc[j] = "scheduled" /\ UNCHANGED <<closed, helper, phase, intent>>
    BY <1>1 DEF StartTask
  <2>2. /\ phase[j] = "none" /\ intent[j] = "none" /\ j \notin closed /\ worker[j] = "none"
        /\ helper[j] = "none" /\ obs[j] # "PENDING"
    BY <1>0, <2>1 DEF Clean, Fresh, Early
  <2>3. CASE Serving
    <3>1. pc'[j] = "running" /\ worker'[j] = "preflight" /\ UNCHANGED obs
      BY <1>0, <1>1, <2>3, PcAt DEF StartTask
    <3>2. Tidy(j)'
      BY <2>1, <2>2, <3>1 DEF Tidy, ThreadKnows, DutyKnown, RowsKnown, Awaiting, Live
    <3> QED
      BY <3>1, <3>2, LateIsClean DEF Awaiting
  <2>4. CASE ~Serving
    <3>1. UNCHANGED worker /\ \E bad \in Failing(j, {"cost", "obs", "link", "member"}) :
            (IF "cost" \in bad THEN CutShort(j, bad) ELSE CloseFailed(j, bad)) /\ Spoil(j, bad)
      BY <1>1, <2>4, Zenon DEF StartTask
    <3>2. PICK bad \in Failing(j, {"cost", "obs", "link", "member"}) :
            (IF "cost" \in bad THEN CutShort(j, bad) ELSE CloseFailed(j, bad)) /\ Spoil(j, bad)
      BY <3>1
    <3>3. pc'[j] = "done"
      BY <3>2, CutShortAt, CloseFailedAt
    <3>4. ASSUME j \notin spoiled' PROVE Tidy(j)'
      <4>1. CloseFailed(j, {})
        BY <3>2, <3>4, SpoilAt
      <4>2. ~Open(j)' /\ link'[j] # "AWAITING"
        BY <2>2, <4>1, FailedIsClosed
      <4> QED
        BY <2>1, <2>2, <3>1, <3>3, <4>2
        DEF Tidy, ThreadKnows, DutyKnown, RowsKnown, Awaiting, Live, Working
    <3> QED
      BY <3>3, <3>4, LateIsClean DEF Awaiting
  <2> QED
    BY <2>3, <2>4
<1>2. CASE Collect(j)
  <2>1. /\ pc[j] = "running" /\ worker[j] \in {"report", "failed"}
        /\ UNCHANGED <<closed, worker, intent>>
    BY <1>2 DEF Collect
  <2>2. PICK bad \in Failing(j, {"phase", "cost", "obs"}) :
          /\ SettlePhase(j, bad) /\ Spoil(j, bad)
          /\ \/ "cost" \in bad /\ CutShort(j, bad)
             \/ Goto(j, "requiring") /\ Helper(j, "require") /\ RecordWritten(j, bad)
             \/ Goto(j, "unavailable") /\ RecordRun(j, "FAILED", bad) /\ UNCHANGED helper
    BY <1>2 DEF Collect
  <2>3. pc'[j] \in {"requiring", "unavailable", "done"}
    BY <2>2, PcAt, CutShortAt
  <2>4. ASSUME j \notin spoiled' PROVE Tidy(j)'
    <3>1. bad = {} /\ j \notin spoiled
      BY <2>2, <2>4, SpoilAt
    <3>2. Tidy(j)
      BY <1>0, <3>1 DEF Clean
    <3>3. /\ phase'[j] \notin {"held", "installed"} /\ j \notin closed'
          /\ intent'[j] # "REQUIRED" /\ helper[j] = "none" /\ obs[j] # "PENDING"
          /\ worker'[j] \notin Working
      <4>1. phase[j] # "held" /\ j \notin closed /\ intent[j] # "REQUIRED" /\ helper[j] = "none"
        BY <2>1, <3>2 DEF Tidy, ThreadKnows, DutyKnown
      <4>2. obs[j] # "PENDING"
        BY <2>1, <3>2 DEF Tidy, RowsKnown, Live, Awaiting
      <4>3. phase'[j] = IF phase[j] = "installed" THEN "settled" ELSE phase[j]
        BY <2>2, <3>1, PhaseAt
      <4> QED
        BY <2>1, <4>1, <4>2, <4>3 DEF Working
    <3>4. CASE Goto(j, "requiring") /\ Helper(j, "require") /\ RecordWritten(j, {})
      <4>1. pc'[j] = "requiring" /\ helper'[j] = "require"
        BY <3>4, StageAt
      <4>2. obs'[j] # "PENDING" /\ (j \notin FullJobs => obs'[j] # "RUNNING")
        BY <3>3, <3>4, WrittenObs, RunRecorded
      <4> QED
        BY <3>3, <4>1, <4>2 DEF Tidy, ThreadKnows, DutyKnown, RowsKnown, Awaiting
    <3>5. CASE Goto(j, "unavailable") /\ RecordRun(j, "FAILED", {}) /\ UNCHANGED helper
      <4>1. pc'[j] = "unavailable" /\ obs'[j] \notin {"PENDING", "RUNNING"}
        BY <3>3, <3>5, PcAt, RunRecorded
      <4> QED
        BY <3>3, <3>5, <4>1 DEF Tidy, ThreadKnows, DutyKnown, RowsKnown, Awaiting
    <3> QED
      BY <2>2, <3>1, <3>4, <3>5
  <2> QED
    BY <2>3, <2>4, LateIsClean DEF Awaiting
<1>3. CASE Deadline(j)
  <2>1. pc[j] = "running" /\ closed' = closed \cup {j} /\ UNCHANGED <<helper, intent>>
    BY <1>3 DEF Deadline
  <2>2. PICK bad \in Failing(j, Rows) :
          (IF "cost" \in bad THEN CutShort(j, bad) ELSE CloseFailed(j, bad)) /\ Spoil(j, bad)
    BY <1>3 DEF Deadline
  <2>3. pc'[j] = "done"
    BY <2>2, CutShortAt, CloseFailedAt
  <2>4. ASSUME j \notin spoiled' PROVE Tidy(j)'
    <3>1. CloseFailed(j, {}) /\ j \notin spoiled
      BY <2>2, <2>4, SpoilAt
    <3>2. helper[j] = "none" /\ intent[j] # "REQUIRED" /\ obs[j] # "PENDING"
      BY <1>0, <2>1, <3>1 DEF Clean, Tidy, DutyKnown, RowsKnown, Live, Awaiting
    <3>3. ~Open(j)' /\ link'[j] # "AWAITING"
      BY <3>1, <3>2, FailedIsClosed
    <3> QED
      BY <2>1, <2>3, <3>2, <3>3 DEF Tidy, ThreadKnows, DutyKnown, RowsKnown, Awaiting, Live
  <2> QED
    BY <2>3, <2>4, LateIsClean DEF Awaiting
<1>4. CASE AfterSession(j)
  <2>1. /\ pc[j] \in {"available", "unavailable"}
        /\ UNCHANGED <<closed, worker, helper, phase, obs, intent>>
    BY <1>4 DEF AfterSession
  <2>2. PICK bad \in Failing(j, {"link", "member"}) : Close(j, pc[j] = "available", bad) /\ Spoil(j, bad)
    BY <1>4 DEF AfterSession
  <2>3. pc'[j] = "done"
    BY <2>2, PcAt DEF Close
  <2>4. ASSUME j \notin spoiled' PROVE Tidy(j)'
    <3>1. Close(j, pc[j] = "available", {}) /\ j \notin spoiled
      BY <2>2, <2>4, SpoilAt
    <3>2. Tidy(j)
      BY <1>0, <3>1 DEF Clean
    <3>3. /\ helper[j] = "none" /\ intent[j] # "REQUIRED" /\ obs[j] \notin {"PENDING", "RUNNING"}
          /\ worker[j] \notin Working /\ phase[j] \notin {"held", "installed"} /\ j \notin closed
      BY <2>1, <3>2 DEF Tidy, ThreadKnows, DutyKnown, RowsKnown, Live, Awaiting
    <3>4. member'[j] # "RESERVED"
      BY <3>1, MemberSettled DEF Close
    <3>5. link'[j] \notin {"RUNNING", "AWAITING"}
      <4>1. CASE pc[j] = "available"
        <5>1. j \in LinkJobs => link[j] = "COMPLETED"
          BY <1>0, <4>1 DEF JobInv, StageKnows, HistoryFollows
        <5>2. j \notin LinkJobs => link[j] = "none"
          BY Parts DEF LinkOK
        <5>3. EnsureLinkClosed(j, {})
          BY <3>1, <4>1 DEF Close
        <5> QED
          BY <5>1, <5>2, <5>3, LinkEnsured
      <4>2. CASE pc[j] # "available"
        <5>1. FinishLink(j, "STOPPED", {})
          BY <3>1, <4>2 DEF Close
        <5> QED
          BY <5>1, LinkFinished
      <4> QED
        BY <4>1, <4>2
    <3> QED
      BY <2>1, <2>3, <3>3, <3>4, <3>5 DEF Tidy, ThreadKnows, DutyKnown, RowsKnown, Open, Awaiting, Live
  <2> QED
    BY <2>3, <2>4, LateIsClean DEF Awaiting
<1> QED
  BY <1>1, <1>2, <1>3, <1>4

(* A forced end, or a cancellation, spoils the job.                        *)
LEMMA ShutdownCleans ==
  ASSUME TypeOK, NEW j \in Jobs, ForceEnd(j) \/ Cancelled(j)
  PROVE  Clean(j)'
<1>1. pc'[j] \in Awaiting \cup {"done"}
  <2>1. CASE ForceEnd(j)
    BY <2>1 DEF ForceEnd
  <2>2. CASE Cancelled(j)
    <3>1. Goto(j, "done")
      BY <2>2 DEF Cancelled, CutShort
    <3> QED
      BY <3>1, PcAt
  <2> QED
    BY <2>1, <2>2
<1>2. j \in spoiled'
  BY DEF ForceEnd, Cancelled
<1> QED
  BY <1>1, <1>2, LateIsClean

(* The server: a stop clears what the process knew, a start closes the     *)
(* rows step by step.                                                      *)
LEMMA RecoveryCleans ==
  ASSUME TypeOK, CloseInv, DeliveryInv, RecoverObs \/ RecoverLink \/ RecoverMember \/ RecoverStale
  PROVE  CloseInv'
<1>0. /\ UNCHANGED <<pc, worker, helper, phase, closed>> /\ spoiled \subseteq spoiled'
      /\ \A j \in Jobs : pc[j] \in {"idle", "old"}
  <2>1. UNCHANGED <<pc, worker, helper, phase, closed>> /\ Recovering
    BY DEF RecoverObs, RecoverLink, RecoverMember, RecoverStale, memory, Recovering
  <2>2. spoiled \subseteq spoiled'
    BY Zenon DEF RecoverObs, RecoverLink, RecoverMember, RecoverStale
  <2> QED
    BY <2>1, <2>2 DEF DeliveryInv, Quiet
<1>1. SUFFICES ASSUME NEW j \in Jobs PROVE Clean(j)'
  BY DEF CloseInv
<1>2. Clean(j) /\ pc[j] \in {"idle", "old"} /\ pc'[j] = pc[j]
  BY <1>0 DEF CloseInv
<1>3. SUFFICES /\ obs'[j] = obs[j] \/ obs[j] # "none"
               /\ link'[j] = link[j] \/ link[j] # "none"
               /\ member'[j] = member[j] \/ member[j] # "none"
               /\ intent'[j] = intent[j] \/ intent[j] # "none"
               /\ pc[j] = "old" /\ j \notin spoiled' => RowsKnown(j)'
  <2>1. Fresh(j)'
    BY <1>0, <1>2, <1>3 DEF Clean, Fresh, Early
  <2>2. ASSUME j \notin spoiled' PROVE Tidy(j)'
    <3>1. j \notin closed
      BY <1>0, <1>2, <2>2 DEF Clean, Tidy, ThreadKnows
    <3> QED
      BY <1>0, <1>2, <1>3, <2>2, <3>1
      DEF Tidy, ThreadKnows, DutyKnown, RowsKnown, Live, Awaiting
  <2> QED
    BY <2>1, <2>2 DEF Clean
<1>4. ASSUME pc[j] = "old", j \notin spoiled' PROVE RowsKnown(j)
  BY <1>0, <1>2, <1>4 DEF Clean, Tidy
<1>5. CASE RecoverObs
  <2> DEFINE open == {i \in Jobs : obs[i] \in {"PENDING", "RUNNING"}}
  <2>1. PICK S \in {open, {}} :
          /\ obs' = [i \in Jobs |-> IF i \notin S THEN obs[i]
                                    ELSE IF obs[i] = "PENDING" THEN "CONFIRM" ELSE "FAILED"]
          /\ spoiled' = spoiled \cup (open \ S)
    BY <1>5, Zenon DEF RecoverObs
  <2>2. UNCHANGED <<link, member, intent>> /\ process' = "recover link"
    BY <1>5 DEF RecoverObs
  <2>3. obs'[j] = obs[j] \/ obs[j] # "none"
    BY <2>1
  <2>4. ASSUME j \notin spoiled' PROVE obs'[j] \notin {"PENDING", "RUNNING"}
    BY <2>1, <2>4
  <2> QED
    BY <1>2, <2>2, <2>3, <2>4 DEF RowsKnown, Live, Awaiting
<1>6. CASE RecoverLink
  <2>1. /\ link'[j] = IF link[j] = "RUNNING" THEN "INTERRUPTED" ELSE link[j]
        /\ UNCHANGED <<obs, member, intent>>
        /\ process = "recover link" /\ process' = "recover member"
    BY <1>6 DEF RecoverLink
  <2> QED
    BY <1>2, <1>4, <2>1 DEF RowsKnown, Live, Awaiting
<1>7. CASE RecoverMember
  <2> DEFINE open == {i \in Jobs : member[i] = "RESERVED"}
  <2>1. PICK S \in SUBSET open :
          \E unread :
            /\ member' = [i \in Jobs |->
                            IF i \notin S THEN member[i]
                            ELSE IF intent[i] = "COMPLETE" /\ i \notin unread THEN "USED"
                            ELSE "RETURNED"]
            /\ spoiled' = spoiled \cup (open \ S)
    <3>1. PICK S \in (IF Faults = {{}} THEN {open} ELSE SUBSET open) :
            \E unread :
              /\ member' = [i \in Jobs |->
                              IF i \notin S THEN member[i]
                              ELSE IF intent[i] = "COMPLETE" /\ i \notin unread THEN "USED"
                              ELSE "RETURNED"]
              /\ spoiled' = spoiled \cup (open \ S)
      BY <1>7, Zenon DEF RecoverMember
    <3>2. S \subseteq open
      BY <3>1
    <3> QED
      BY <3>1, <3>2
  <2>2. UNCHANGED <<obs, link, intent>> /\ process = "recover member" /\ process' = "recover stale"
    BY <1>7 DEF RecoverMember
  <2>3. member'[j] = member[j] \/ member[j] # "none"
    BY <2>1
  <2>4. ASSUME j \notin spoiled' PROVE member'[j] # "RESERVED"
    BY <2>1, <2>4
  <2> QED
    BY <1>2, <1>4, <2>2, <2>3, <2>4 DEF RowsKnown, Live, Awaiting
<1>8. CASE RecoverStale
  <2>1. PICK stale, S : FailIntents(stale) /\ StopRelease(S)
    BY <1>8 DEF RecoverStale
  <2>2. UNCHANGED <<obs, member>> /\ process = "recover stale" /\ process' = "serving"
    BY <1>8 DEF RecoverStale
  <2>3. intent'[j] = intent[j] \/ intent[j] = "REQUIRED"
    BY <2>1 DEF FailIntents
  <2>4. link'[j] = link[j] \/ (link[j] \in {"AWAITING", "INTERRUPTED"} /\ link'[j] = "STOPPED")
    BY <2>1 DEF StopRelease
  <2> QED
    BY <1>2, <1>4, <2>2, <2>3, <2>4 DEF RowsKnown, Live, Awaiting
<1> QED
  BY <1>5, <1>6, <1>7, <1>8

LEMMA ServerCleans ==
  ASSUME TypeOK, CloseInv, DeliveryInv,
         BeginShutdown \/ CancelJobs \/ Stop \/ Start \/ UNCHANGED vars
  PROVE  CloseInv'
<1>1. SUFFICES ASSUME NEW j \in Jobs PROVE Clean(j)'
  BY DEF CloseInv
<1>2. Clean(j)
  BY DEF CloseInv
<1>3. CASE UNCHANGED vars
  BY <1>2, <1>3, CleanFrame DEF vars, memory, rows, Untouched, Same
<1>4. CASE Stop
  <2>1. /\ pc'[j] = IF pc[j] = "idle" THEN "idle" ELSE "old"
        /\ worker'[j] = "none" /\ helper'[j] = "none" /\ closed' = {}
        /\ phase'[j] = (IF phase[j] = "installed" THEN "held" ELSE phase[j])
        /\ UNCHANGED <<obs, link, member, intent>> /\ process' = "down"
    BY <1>4 DEF Stop
  <2>2. Fresh(j)'
    BY <1>2, <2>1 DEF Clean, Fresh, Early
  <2>3. Tidy(j)'
    BY <2>1 DEF Tidy, ThreadKnows, DutyKnown, RowsKnown, Live, Awaiting
  <2> QED
    BY <2>2, <2>3 DEF Clean
<1>5. CASE BeginShutdown \/ CancelJobs \/ Start
  <2>1. /\ UNCHANGED <<pc, worker, helper, phase, closed, obs, link, member, intent, spoiled>>
        /\ \/ process = "serving" /\ process' = "draining"
           \/ process = "draining" /\ process' = "cancelling"
           \/ process = "down" /\ process' = "recover obs"
    BY <1>5 DEF BeginShutdown, CancelJobs, Start, memory, rows, Serving
  <2>2. Fresh(j)'
    BY <1>2, <2>1 DEF Clean, Fresh
  <2>3. ASSUME j \notin spoiled' PROVE ThreadKnows(j)' /\ DutyKnown(j)'
    BY <1>2, <2>1, <2>3 DEF Clean, Tidy, ThreadKnows, DutyKnown
  <2>4. ASSUME j \notin spoiled' PROVE RowsKnown(j)'
    BY <1>2, <2>1, <2>4 DEF Clean, Tidy, RowsKnown, Open
  <2> QED
    BY <2>2, <2>3, <2>4 DEF Clean, Tidy
<1> QED
  BY <1>3, <1>4, <1>5

LEMMA StepCleans ==
  ASSUME TypeOK, CloseInv, DeliveryInv, [Next]_vars
  PROVE  CloseInv'
<1>1. ASSUME NEW j \in Jobs,
             Request(j) \/ Task(j) \/ Thread(j) \/ Delivery(j) \/ ForceEnd(j) \/ AdminSettle(j) \/ Reap(j)
      PROVE  CloseInv'
  <2>1. UNCHANGED process /\ \A i \in Jobs \ {j} : Untouched(i)
    BY <1>1, OthersUntouched
  <2>2. Clean(j)'
    BY <1>1, RequestCleans, ThreadCleans, HelperCleans, DeliveryCleans, AdminCleans, TaskCleans,
       ShutdownCleans DEF Task
  <2>3. ASSUME NEW i \in Jobs \ {j} PROVE Clean(i)'
    BY <2>1, <2>3, CleanFrame DEF CloseInv
  <2> QED
    BY <2>2, <2>3 DEF CloseInv
<1> QED
  BY <1>1, RecoveryCleans, ServerCleans DEF Next

LEMMA InitCleans == Init => CloseInv
BY DEF Init, CloseInv, Clean, Fresh, Tidy, ThreadKnows, DutyKnown, RowsKnown, Early, Live, Awaiting

(* A job that ended with all its writes done leaves no row open.           *)
THEOREM JobRowsClosed == Spec => []EveryRowClosed
<1>1. Init => CloseInv
  BY InitCleans
<1>2. JobIInv /\ CloseInv /\ [Next]_vars => CloseInv'
  BY StepCleans DEF JobIInv
<1>3. CloseInv => EveryRowClosed
  BY DEF CloseInv, Clean, Tidy, ThreadKnows, DutyKnown, RowsKnown, Open, EveryRowClosed, Serving
<1> QED
  BY <1>1, <1>2, <1>3, JobDelivery, PTL DEF Spec

-----------------------------------------------------------------------------
(* The way of a slot back.                                                 *)

\* What the holder of a slot waits for is there: an answer or an alarm, a helper
\* thread that works or has answered, or the cancellation of a shutdown.
Stands(j) ==
  /\ pc[j] = "running" => worker[j] # "none"
  /\ pc[j] = "requiring" => helper[j] \in {"require", "ok", "error"}
  /\ pc[j] = "delivering" => helper[j] \in {"deliver", "blocked", "ok", "error"}
  /\ pc[j] = "failing" => helper[j] \in {"fail", "ok"}
  /\ process = "cancelling" => pc[j] # "scheduled"

WaitInv == \A j \in Jobs : Stands(j)

\* The guard of one of its own steps, or of its helper thread's, holds. None of
\* them is a guard on the pipeline thread.
CanGoOn(j) ==
  \/ Up /\ pc[j] \in {"starting", "booked"}
  \/ Going /\ pc[j] \in {"scheduled", "available", "unavailable"}
  \/ Going /\ pc[j] = "running" /\ worker[j] \in {"report", "failed"} \cup Working
  \/ Going /\ pc[j] \in {"requiring", "delivering"} /\ helper[j] \in {"ok", "error"}
  \/ Going /\ pc[j] = "failing" /\ helper[j] = "ok"
  \/ process = "cancelling" /\ pc[j] \in Awaiting
  \/ Up /\ helper[j] \in {"require", "deliver", "blocked", "fail"}

\* How far the holder of a slot has come.
Stage(j) ==
  CASE pc[j] = "starting"   -> 1
    [] pc[j] = "booked"     -> 2
    [] pc[j] = "scheduled"  -> 3
    [] pc[j] = "running"    -> 4
    [] pc[j] = "requiring"  -> IF helper[j] = "require" THEN 5 ELSE 6
    [] pc[j] = "delivering" -> IF helper[j] = "deliver" THEN 7
                               ELSE IF helper[j] = "blocked" THEN 8 ELSE 9
    [] pc[j] = "failing"    -> IF helper[j] = "fail" THEN 10 ELSE 11
    [] OTHER                -> 12

\* A step of a request that keeps its slot: not back, and forward if it is its own.
GoesForward(j) ==
  j \in held' =>
    /\ Stage(j)' >= Stage(j)
    /\ Task(j) \/ Delivery(j) => Stage(j)' > Stage(j)

\* The steps of a request, of its job and of its helper thread, one by one.
OwnMove(j) ==
  \/ pc'[j] \in {"done", "away"} /\ j \notin held'
  \/ pc[j] = "starting" /\ pc'[j] = "booked" /\ helper'[j] = helper[j]
  \/ pc[j] = "booked" /\ pc'[j] = "scheduled" /\ process # "cancelling"
  \/ pc[j] = "scheduled" /\ pc'[j] = "running" /\ worker'[j] = "preflight"
  \/ pc[j] = "running" /\ pc'[j] = "requiring" /\ helper'[j] = "require"
  \/ pc[j] = "running" /\ pc'[j] = "unavailable"
  \/ pc[j] = "requiring" /\ helper[j] # "require" /\ pc'[j] = "delivering" /\ helper'[j] = "deliver"
  \/ pc[j] = "requiring" /\ helper[j] # "require" /\ pc'[j] = "failing" /\ helper'[j] = "fail"
  \/ pc[j] = "requiring" /\ pc'[j] = "unavailable"
  \/ pc[j] = "delivering" /\ pc'[j] = "available"
  \/ /\ pc[j] = "delivering" /\ helper[j] \in {"ok", "error"}
     /\ pc'[j] = "failing" /\ helper'[j] = "fail"
  \/ pc[j] = "failing" /\ pc'[j] = "unavailable"
  \/ /\ pc'[j] = pc[j] /\ worker'[j] = worker[j]
     /\ \/ helper[j] = "require" /\ helper'[j] \in {"ok", "error"}
        \/ helper[j] = "deliver" /\ helper'[j] \in {"ok", "blocked"}
        \/ helper[j] = "blocked" /\ helper'[j] = "error"
        \/ helper[j] = "fail" /\ helper'[j] = "ok"

(* Whoever ends gives its slot back; whoever goes on goes on one step.     *)
LEMMA EndsOrMoves ==
  ASSUME TypeOK, NEW j \in Jobs, Task(j) \/ Delivery(j)
  PROVE  OwnMove(j) /\ UNCHANGED process
<1>1. ASSUME NEW bad, CutShort(j, bad) \/ (\E published : Close(j, published, bad))
      PROVE  pc'[j] = "done" /\ j \notin held'
  <2>1. ReleaseJobSlot(j) /\ Goto(j, "done")
    BY <1>1 DEF CutShort, Close
  <2> QED
    BY <2>1, PcAt DEF ReleaseJobSlot
<1>2. CASE Book(j) \/ Schedule(j)
  <2>1. CASE Book(j)
    BY <2>1, PcAt DEF Book, OwnMove
  <2>2. CASE Schedule(j)
    BY <2>2, PcAt DEF Schedule, Serving, OwnMove
  <2> QED
    BY <1>2, <2>1, <2>2
<1>3. CASE TurnAway(j)
  BY <1>3, PcAt DEF TurnAway, ReleaseJobSlot, OwnMove
<1>4. CASE StartTask(j)
  <2>1. CASE Serving
    <3>1. DOMAIN worker = Jobs
      BY Parts DEF WorkerOK
    <3> QED
      BY <1>4, <2>1, <3>1, PcAt DEF StartTask, OwnMove
  <2>2. CASE ~Serving
    <3>1. UNCHANGED process /\ \E bad : CutShort(j, bad) \/ Close(j, FALSE, bad)
      BY <1>4, <2>2 DEF StartTask, CloseFailed
    <3> QED
      BY <1>1, <3>1 DEF OwnMove
  <2> QED
    BY <2>1, <2>2
<1>5. CASE Collect(j)
  <2>1. /\ UNCHANGED process /\ pc[j] = "running"
        /\ \/ \E bad : CutShort(j, bad)
           \/ Goto(j, "requiring") /\ Helper(j, "require")
           \/ Goto(j, "unavailable")
    BY <1>5 DEF Collect
  <2> QED
    BY <1>1, <2>1, PcAt, HelperAt DEF OwnMove
<1>6. CASE Deadline(j)
  <2>1. UNCHANGED process /\ \E bad : CutShort(j, bad) \/ Close(j, FALSE, bad)
    BY <1>6 DEF Deadline, CloseFailed
  <2> QED
    BY <1>1, <2>1 DEF OwnMove
<1>7. CASE AfterRequire(j)
  <2>1. /\ UNCHANGED process /\ pc[j] = "requiring" /\ helper[j] # "require"
        /\ \/ Goto(j, "delivering") /\ Helper(j, "deliver")
           \/ Goto(j, "failing") /\ Helper(j, "fail")
           \/ Goto(j, "unavailable")
    BY <1>7 DEF AfterRequire
  <2> QED
    BY <2>1, PcAt, HelperAt DEF OwnMove
<1>8. CASE AfterDeliver(j)
  <2>1. /\ UNCHANGED process /\ pc[j] = "delivering" /\ helper[j] \in {"ok", "error"}
        /\ \/ Goto(j, "available")
           \/ Goto(j, "failing") /\ Helper(j, "fail")
    BY <1>8 DEF AfterDeliver
  <2> QED
    BY <2>1, PcAt, HelperAt DEF OwnMove
<1>9. CASE AfterFail(j)
  BY <1>9, PcAt DEF AfterFail, OwnMove
<1>10. CASE AfterSession(j)
  <2>1. UNCHANGED process /\ \E bad, published : Close(j, published, bad)
    BY <1>10 DEF AfterSession
  <2> QED
    BY <1>1, <2>1 DEF OwnMove
<1>11. CASE Cancelled(j)
  <2>1. /\ UNCHANGED process
        /\ \/ Goto(j, "done") /\ ReleaseJobSlot(j)
           \/ Goto(j, "done") /\ j \notin held /\ UNCHANGED held
    BY <1>11 DEF Cancelled, ForceCleanup, CutShort
  <2> QED
    BY <2>1, PcAt DEF ReleaseJobSlot, OwnMove
<1>12. CASE Delivery(j)
  BY <1>12, HelperAt DEF Delivery, Require, Publish, Blocked, StopBlocked, Fail, OwnMove
<1> QED
  BY <1>2, <1>3, <1>4, <1>5, <1>6, <1>7, <1>8, <1>9, <1>10, <1>11, <1>12 DEF Task

\* Neither the place of a request nor its helper thread changes.
Rests(j) == pc'[j] = pc[j] /\ helper'[j] = helper[j] /\ (worker[j] # "none" => worker'[j] # "none")

LEMMA RestsStands ==
  ASSUME NEW j \in Jobs, Stands(j), Rests(j), process' = process \/ process' # "cancelling"
  PROVE  Stands(j)'
BY DEF Stands, Rests

LEMMA OthersRest ==
  ASSUME TypeOK, DeliveryInv, NEW j \in Jobs,
         Request(j) \/ Task(j) \/ Thread(j) \/ Delivery(j) \/ ForceEnd(j) \/ AdminSettle(j) \/ Reap(j)
  PROVE  UNCHANGED process /\ \A i \in Jobs \ {j} : Rests(i)
BY OthersUntouched DEF Untouched, Same, Rests

(* What others do for a request leaves it where it is, but for its first steps. *)
LEMMA RestsOrBegins ==
  ASSUME TypeOK, NEW j \in Jobs,
         Request(j) \/ Thread(j) \/ ForceEnd(j) \/ AdminSettle(j) \/ Reap(j)
  PROVE  \/ Rests(j)
         \/ pc[j] \in {"idle", "confirm"} /\ pc'[j] \in {"confirm", "away", "starting"}
<1>0. DOMAIN worker = Jobs
  BY Parts DEF WorkerOK
<1>1. CASE Ask(j) \/ Abandon(j) \/ TakeSlot(j) \/ ConsumeFails(j)
  BY <1>1, PcAt DEF Ask, Abandon, TakeSlot, ConsumeFails
<1>2. CASE Expire(j) \/ ForceEnd(j) \/ AdminSettle(j) \/ Reap(j)
  BY <1>2 DEF Expire, ForceEnd, AdminSettle, Reap, memory, Rests
<1>3. CASE Thread(j)
  BY <1>0, <1>3 DEF Thread, ReservePhase, CheckSession, InstallPhase, EndWorker, Rests
<1> QED
  BY <1>1, <1>2, <1>3 DEF Request

LEMMA InitWaits == Init => WaitInv
BY DEF Init, WaitInv, Stands

LEMMA MoveStands ==
  ASSUME NEW j \in Jobs, Stands(j), HelperFollows(j), OwnMove(j), UNCHANGED process
  PROVE  Stands(j)'
BY DEF Stands, HelperFollows, OwnMove

LEMMA StepWaits ==
  ASSUME TypeOK, DeliveryInv, WaitInv, [Next]_vars
  PROVE  WaitInv'
<1>1. ASSUME NEW j \in Jobs,
             Request(j) \/ Task(j) \/ Thread(j) \/ Delivery(j) \/ ForceEnd(j) \/ AdminSettle(j) \/ Reap(j)
      PROVE  WaitInv'
  <2>1. UNCHANGED process /\ \A i \in Jobs \ {j} : Rests(i)
    BY <1>1, OthersRest
  <2>2. Stands(j)'
    <3>1. CASE Task(j) \/ Delivery(j)
      BY <3>1, EndsOrMoves, MoveStands DEF WaitInv, DeliveryInv, JobInv
    <3>2. CASE Request(j) \/ Thread(j) \/ ForceEnd(j) \/ AdminSettle(j) \/ Reap(j)
      <4>1. CASE Rests(j)
        BY <2>1, <4>1, RestsStands DEF WaitInv
      <4>2. CASE pc'[j] \in {"confirm", "away", "starting"}
        BY <4>2 DEF Stands
      <4> QED
        BY <3>2, <4>1, <4>2, RestsOrBegins
    <3> QED
      BY <1>1, <3>1, <3>2
  <2>3. ASSUME NEW i \in Jobs \ {j} PROVE Stands(i)'
    BY <2>1, <2>3, RestsStands DEF WaitInv
  <2> QED
    BY <2>2, <2>3 DEF WaitInv
<1>2. CASE CancelJobs
  BY <1>2 DEF CancelJobs, WaitInv, Stands, memory
<1>3. CASE Stop
  BY <1>3 DEF Stop, WaitInv, Stands
<1>4. CASE \/ BeginShutdown \/ Start \/ RecoverObs \/ RecoverLink \/ RecoverMember \/ RecoverStale
           \/ UNCHANGED vars
  <2>1. UNCHANGED <<pc, helper, worker>> /\ (process' = process \/ process' # "cancelling")
    BY <1>4 DEF BeginShutdown, Start, RecoverObs, RecoverLink, RecoverMember, RecoverStale, vars, memory
  <2> QED
    BY <2>1, RestsStands DEF WaitInv, Rests
<1> QED
  BY <1>1, <1>2, <1>3, <1>4 DEF Next

LEMMA HolderGoesOn ==
  ASSUME TypeOK, HeldIsLive, DeliveryInv, WaitInv, NEW j \in held
  PROVE  CanGoOn(j) /\ Stage(j) \in 1..12
<1>1. j \in Jobs /\ pc[j] \in Live /\ Stands(j) /\ worker[j] \in {"none", "report", "failed"} \cup Working
  BY Parts DEF HeldIsLive, WaitInv, SlotsOK, WorkerOK
<1>2. Up
  BY <1>1 DEF DeliveryInv, Quiet, Recovering, Up, Live, Awaiting
<1>3. CanGoOn(j)
  BY <1>1, <1>2 DEF CanGoOn, Stands, Up, Going, Live, Awaiting
<1>4. Stage(j) \in 1..12
  BY <1>1 DEF Stage, Live, Awaiting
<1> QED
  BY <1>3, <1>4

LEMMA HolderForward ==
  ASSUME TypeOK, HeldIsLive, DeliveryInv, WaitInv, [Next]_vars, NEW j \in held, j \in held'
  PROVE  /\ Stage(j)' >= Stage(j)
         /\ Task(j) \/ Delivery(j) => Stage(j)' > Stage(j)
<1>1. j \in Jobs /\ pc[j] \in Live /\ HelperFollows(j) /\ Stands(j)
  BY Parts DEF HeldIsLive, SlotsOK, DeliveryInv, JobInv, WaitInv
<1>2. Stage(j) \in 1..12
  BY HolderGoesOn
<1>3. CASE Task(j) \/ Delivery(j)
  <2>1. OwnMove(j)
    BY <1>1, <1>3, EndsOrMoves
  <2>2. Stage(j)' > Stage(j)
    BY <1>1, <2>1 DEF OwnMove, Stage, HelperFollows, Stands, Live, Awaiting
  <2>3. Stage(j)' \in 1..12
    BY DEF Stage
  <2> QED
    BY <1>2, <2>2, <2>3
<1>4. ASSUME Rests(j), ~(Task(j) \/ Delivery(j))
      PROVE  Stage(j)' >= Stage(j)
  <2>1. Stage(j)' = Stage(j)
    BY <1>4 DEF Rests, Stage
  <2> QED
    BY <1>2, <2>1
<1>5. ASSUME NEW i \in Jobs \ {j},
             Request(i) \/ Task(i) \/ Thread(i) \/ Delivery(i) \/ ForceEnd(i) \/ AdminSettle(i) \/ Reap(i)
      PROVE  Rests(j)
  BY <1>1, <1>5, OthersRest
<1>6. ASSUME Request(j) \/ Thread(j) \/ ForceEnd(j) \/ AdminSettle(j) \/ Reap(j) PROVE Rests(j)
  <2>1. pc[j] \notin {"idle", "confirm"}
    BY <1>1 DEF Live, Awaiting
  <2> QED
    BY <1>1, <1>6, <2>1, RestsOrBegins
<1>7. ASSUME \/ BeginShutdown \/ CancelJobs \/ Start \/ RecoverObs \/ RecoverLink \/ RecoverMember
             \/ RecoverStale \/ UNCHANGED vars
      PROVE  Rests(j)
  BY <1>7 DEF BeginShutdown, CancelJobs, Start, RecoverObs, RecoverLink, RecoverMember, RecoverStale,
     vars, memory, Rests
<1>8. ~Stop
  BY DEF Stop
<1> QED
  BY <1>1, <1>3, <1>4, <1>5, <1>6, <1>7, <1>8 DEF Next

(* Why a slot comes back: whoever holds one can always go on, with a step  *)
(* of its own or of its helper thread and without the pipeline thread; no  *)
(* step sets it back, each of these brings it nearer to its end, and there *)
(* are twelve stages.                                                      *)
THEOREM JobSlotRunsOut ==
  Spec => /\ [](\A j \in held : CanGoOn(j) /\ Stage(j) \in 1..12)
          /\ [][\A j \in held : GoesForward(j)]_vars
<1> DEFINE Inv == TypeOK /\ HeldIsLive /\ DeliveryInv /\ WaitInv
<1> DEFINE Forward == \A j \in held : GoesForward(j)
<1>1. Init => Inv
  BY InitTypes, InitSlots, InitDelivers, InitWaits DEF SlotInv
<1>2. Inv /\ [Next]_vars => Inv'
  BY StepTypes, StepSlots, StepDelivers, StepWaits
<1>3. Inv => \A j \in held : CanGoOn(j) /\ Stage(j) \in 1..12
  BY HolderGoesOn
<1>4. Inv /\ [Next]_vars => [Forward]_vars
  BY HolderForward DEF GoesForward
<1> HIDE DEF Inv
<1>5. Spec => [][Forward]_vars
  <2> HIDE DEF Forward
  <2> QED
    BY <1>1, <1>2, <1>4, PTL DEF Spec
<1>6. Spec => [](\A j \in held : CanGoOn(j) /\ Stage(j) \in 1..12)
  BY <1>1, <1>2, <1>3, PTL DEF Spec
<1> QED
  BY <1>5, <1>6 DEF Forward
=============================================================================
