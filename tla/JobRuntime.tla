----------------------------- MODULE JobRuntime -----------------------------
(***************************************************************************)
(* One paid report from the confirmation page to its published address:    *)
(* the slot it holds, the background job that runs it, the thread the job  *)
(* waits for, and the five rows the job has to close in the database       *)
(* (web/job_runtime.py, web/paid_runtime.py, web/runtime.py).              *)
(*                                                                         *)
(* A job gives way to others only where it awaits; a shutdown cancels it   *)
(* exactly there, while the thread it waited for runs on. Any write may    *)
(* fail. The process may stop anywhere; the next one closes what it finds. *)
(*                                                                         *)
(* The report is one all-or-nothing publication: its delivery intent turns *)
(* COMPLETE, and its LINK row COMPLETED, in one transaction.               *)
(***************************************************************************)
EXTENDS RunSlots

CONSTANTS
  Jobs,        \* requests that ask for a paid report, each with its run id
  NameOf,      \* [Jobs -> Names]
  LinkJobs,    \* asked through an invite link; they have a LINK row
  MemberJobs,  \* asked by a member; they have a row of the daily quota
  FullJobs,    \* whose report, if one is written, is of release mode FULL;
               \* the others write a v1, SHADOW or ENFORCE_NO_PARTIAL one
  Faults,      \* sets of rows that cannot be written at one time
  MaxStarts    \* bound of the model: starts of the server after the first

Rows == {"phase", "cost", "obs", "member", "link", "intent"}

ASSUME JobAssumption ==
  /\ IsFiniteSet(Jobs)
  /\ NameOf \in [Jobs -> Names]
  /\ LinkJobs \subseteq Jobs /\ MemberJobs \subseteq Jobs
  /\ LinkJobs \cap MemberJobs = {}
  /\ FullJobs \subseteq Jobs
  /\ {} \in Faults /\ Faults \subseteq SUBSET Rows
  /\ MaxStarts \in Nat

VARIABLES
  process,  \* the server: a step of its start, serving, shutting down, or down
  starts,   \* starts so far
  pc,       \* where the request or its job stands
  held,     \* requests that own a slot they have not given back (slot_released)
  closed,   \* those whose session was cancelled: no new phase
  worker,   \* the pipeline thread
  helper,   \* the thread of the delivery step the job awaits
  phase,    \* the paid phase: its row, and whether the job knows it
  obs,      \* run_lifecycle: the outcome the run is remembered by
  link,     \* share_link_run_history
  member,   \* the member's usage row
  intent,   \* delivery_intents
  spoiled,  \* jobs one of whose writes failed, or that a shutdown cut short
  lost      \* jobs whose published PDF a start could not read

memory == <<pc, held, closed, worker, helper>>
rows == <<phase, obs, link, member, intent>>
vars == <<process, starts, slots, memory, rows, spoiled, lost>>

Awaiting == {"running", "requiring", "delivering", "failing", "available", "unavailable"}
Live == {"starting", "booked", "scheduled"} \cup Awaiting

Working == {"preflight", "reserved", "checked", "calling"}

TypeOK ==
  /\ process \in {"serving", "draining", "cancelling", "down", "recover obs",
                  "recover link", "recover member", "recover stale"}
  /\ starts \in 0..MaxStarts
  /\ running \in Nat /\ byName \in [Names -> Nat]
  /\ pc \in [Jobs -> {"idle", "confirm", "done", "away", "old"} \cup Live]
  /\ held \subseteq Jobs /\ closed \subseteq Jobs
  /\ worker \in [Jobs -> {"none", "report", "failed"} \cup Working]
  /\ helper \in [Jobs -> {"none", "require", "deliver", "blocked", "fail", "ok", "error"}]
  /\ phase \in [Jobs -> {"none", "held", "installed", "settled"}]
  /\ obs \in [Jobs -> {"none", "PENDING", "RUNNING", "CONFIRM", "FAILED", "REPORT"}]
  /\ link \in [Jobs -> {"none", "RUNNING", "AWAITING", "STOPPED", "INTERRUPTED", "COMPLETED"}]
  /\ member \in [Jobs -> {"none", "RESERVED", "USED", "RETURNED"}]
  /\ intent \in [Jobs -> {"none", "REQUIRED", "FAILED", "COMPLETE"}]
  /\ spoiled \subseteq Jobs /\ lost \subseteq Jobs
  /\ \A j \in Jobs \ LinkJobs : link[j] = "none"
  /\ \A j \in Jobs \ MemberJobs : member[j] = "none"

Init ==
  /\ process = "serving" /\ starts = 0
  /\ NoSlots
  /\ pc = [j \in Jobs |-> "idle"]
  /\ held = {} /\ closed = {}
  /\ worker = [j \in Jobs |-> "none"] /\ helper = [j \in Jobs |-> "none"]
  /\ phase = [j \in Jobs |-> "none"] /\ obs = [j \in Jobs |-> "none"]
  /\ link = [j \in Jobs |-> "none"] /\ member = [j \in Jobs |-> "none"]
  /\ intent = [j \in Jobs |-> "none"]
  /\ spoiled = {} /\ lost = {}

-----------------------------------------------------------------------------
(* The writes. `bad` is the set of rows that cannot be written now.        *)

\* Mutant: the last writer decides what the run is remembered by.
RecordRunAgain(j, outcome, bad) ==
  obs' = [obs EXCEPT ![j] = IF "obs" \notin bad THEN outcome ELSE @]

\* record_run and record_end with expected_state running: once, or not at all.
RecordRun(j, outcome, bad) ==
  obs' = [obs EXCEPT ![j] = IF @ = "RUNNING" /\ "obs" \notin bad THEN outcome ELSE @]

\* record_end with expected_state pending
RecordConfirm(j, bad) ==
  obs' = [obs EXCEPT ![j] = IF @ = "PENDING" /\ "obs" \notin bad THEN "CONFIRM" ELSE @]

\* Mutant: who has no row is not looked at.
FinishLinkOfAll(j, status, bad) ==
  link' = [link EXCEPT ![j] = IF @ = "COMPLETED" \/ "link" \in bad THEN @ ELSE status]

\* finish_run: a row that is completed stays so.
FinishLink(j, status, bad) ==
  link' = [link EXCEPT ![j] =
             IF @ \in {"none", "COMPLETED"} \/ "link" \in bad THEN @ ELSE status]

\* _ensure_link_job_closed
EnsureLinkClosed(j, bad) ==
  link' = [link EXCEPT ![j] = IF @ = "RUNNING" /\ "link" \notin bad THEN "STOPPED" ELSE @]

\* mark_release_stopped: by report id, which a row has since the report was saved.
StopRelease(S) ==
  link' = [j \in Jobs |-> IF j \in S /\ link[j] \in {"AWAITING", "INTERRUPTED"}
                          THEN "STOPPED" ELSE link[j]]

\* settle_member_run: only what is still reserved.
SettleMember(j, state, bad) ==
  member' = [member EXCEPT ![j] = IF @ = "RESERVED" /\ "member" \notin bad THEN state ELSE @]

\* mark_delivery_failed: a published report stays published.
FailIntents(S) ==
  intent' = [j \in Jobs |-> IF j \in S /\ intent[j] = "REQUIRED" THEN "FAILED" ELSE intent[j]]

\* _settle_paid_phase: it swallows its own failure; nothing to do before install.
SettlePhase(j, bad) ==
  phase' = [phase EXCEPT ![j] = IF @ = "installed" /\ "phase" \notin bad THEN "settled" ELSE @]

\* _release_job_slot, under slot_release_lock
ReleaseJobSlot(j) ==
  /\ held' = held \ {j}
  /\ IF j \in held THEN ReleaseSlot(NameOf[j]) ELSE UNCHANGED slots

\* What can fail of the writes S of a run.
Failing(j, S) ==
  {bad \cap {row \in S : (row = "link" => j \in LinkJobs) /\ (row = "member" => j \in MemberJobs)} :
     bad \in Faults}

Spoil(j, bad) == spoiled' = IF bad = {} THEN spoiled ELSE spoiled \cup {j}

Goto(j, step) == pc' = [pc EXCEPT ![j] = step]
Helper(j, step) == helper' = [helper EXCEPT ![j] = step]

Serving == process = "serving"
Up == process \in {"serving", "draining", "cancelling"}
\* A task that was cancelled goes no further than the await it stands at.
Going == process \in {"serving", "draining"}

-----------------------------------------------------------------------------
(* The request: routers/analysis.py and _start_with_reserved_slot          *)

\* The confirmation page: the attempt in memory, its pending row.
Ask(j) ==
  /\ Serving /\ pc[j] = "idle"
  /\ Goto(j, "confirm") /\ obs' = [obs EXCEPT ![j] = "PENDING"]
  /\ UNCHANGED <<process, starts, slots, held, closed, worker, helper, phase, link, member,
                 intent, spoiled, lost>>

\* _abandon_confirmation_attempt: rejected, or swept after an hour.
Abandon(j) ==
  /\ Serving /\ pc[j] = "confirm"
  /\ \E bad \in Failing(j, {"obs"}) : RecordConfirm(j, bad) /\ Spoil(j, bad)
  /\ Goto(j, "away")
  /\ UNCHANGED <<process, starts, slots, held, closed, worker, helper, phase, link, member,
                 intent, lost>>

\* _expire_observation_pending: by the wall clock, whoever asks.
Expire(j) ==
  /\ Serving /\ obs[j] = "PENDING" /\ RecordConfirm(j, {})
  /\ UNCHANGED <<process, starts, slots, memory, phase, link, member, intent, spoiled, lost>>

\* The start page: slot first, then the pending row is consumed.
TakeSlot(j) ==
  /\ Serving /\ pc[j] = "confirm" /\ obs[j] = "PENDING"
  /\ ReserveSlot(NameOf[j]) /\ held' = held \cup {j}
  /\ obs' = [obs EXCEPT ![j] = "RUNNING"] /\ Goto(j, "starting")
  /\ UNCHANGED <<process, starts, closed, worker, helper, phase, link, member, intent,
                 spoiled, lost>>

\* The pending row is gone or cannot be written: slot back, attempt abandoned.
ConsumeFails(j) ==
  /\ Serving /\ pc[j] = "confirm" /\ HasRoom(NameOf[j])
  /\ \E bad \in Failing(j, {"obs"}) :
       /\ obs[j] = "PENDING" => "obs" \in bad
       /\ Spoil(j, bad)
       /\ RecordConfirm(j, {}) \/ UNCHANGED obs
  /\ Goto(j, "away")
  /\ UNCHANGED <<process, starts, slots, held, closed, worker, helper, phase, link, member,
                 intent, lost>>

\* start_run, or reserve_member_run; an administrator has neither row.
Book(j) ==
  /\ Serving /\ pc[j] = "starting"
  /\ link' = [link EXCEPT ![j] = IF j \in LinkJobs THEN "RUNNING" ELSE @]
  /\ member' = [member EXCEPT ![j] = IF j \in MemberJobs THEN "RESERVED" ELSE @]
  /\ Goto(j, "booked")
  /\ UNCHANGED <<process, starts, slots, held, closed, worker, helper, phase, obs, intent,
                 spoiled, lost>>

\* The outermost finally of a request that was not handed over. Some of the
\* ways out record the end of the run; some (a closed link, a LINK row that
\* cannot start, maintenance) do not.
TurnAway(j) ==
  /\ Up /\ pc[j] \in {"starting", "booked"}
  /\ \E bad \in Failing(j, {"obs", "link", "member"}) :
       /\ \/ RecordRun(j, "FAILED", bad)
          \/ (pc[j] = "starting" \/ j \in LinkJobs) /\ UNCHANGED obs
       /\ \E status \in {"STOPPED"} \cup (IF Serving THEN {} ELSE {"INTERRUPTED"}) :
            FinishLink(j, status, bad)
       /\ SettleMember(j, "RETURNED", bad)
       /\ Spoil(j, bad)
  /\ ReleaseJobSlot(j) /\ Goto(j, "away")
  /\ UNCHANGED <<process, starts, closed, worker, helper, phase, intent, lost>>

\* _schedule_job: from here the slot is the job's.
Schedule(j) ==
  /\ Serving /\ pc[j] = "booked" /\ Goto(j, "scheduled")
  /\ UNCHANGED <<process, starts, slots, held, closed, worker, helper, rows, spoiled, lost>>

-----------------------------------------------------------------------------
(* The ends of a job                                                       *)

\* Mutant: the slot is given back only on the way through all of it.
CutShortKeepsSlot(j, bad) ==
  /\ EnsureLinkClosed(j, bad) /\ Goto(j, "done")
  /\ UNCHANGED <<slots, held, obs, member>>

\* The outermost finally alone: what remains when something above it raised.
CutShort(j, bad) ==
  /\ EnsureLinkClosed(j, bad) /\ ReleaseJobSlot(j) /\ Goto(j, "done")
  /\ UNCHANGED <<obs, member>>

\* Mutant: a report that was written counts, published or not.
CloseByAnswer(j, published, bad) ==
  /\ SettleMember(j, IF worker[j] = "report" THEN "USED" ELSE "RETURNED", bad)
  /\ IF published THEN EnsureLinkClosed(j, bad) ELSE FinishLink(j, "STOPPED", bad)
  /\ ReleaseJobSlot(j) /\ Goto(j, "done")

\* From the last await on: quota, LINK row, slot.
Close(j, published, bad) ==
  /\ SettleMember(j, IF published THEN "USED" ELSE "RETURNED", bad)
  /\ IF published THEN EnsureLinkClosed(j, bad) ELSE FinishLink(j, "STOPPED", bad)
  /\ ReleaseJobSlot(j) /\ Goto(j, "done")

\* A failed run that has nothing to await.
CloseFailed(j, bad) == RecordRun(j, "FAILED", bad) /\ Close(j, FALSE, bad)

\* _run_job's first check; a job that finds the server closing ends at once.
StartTask(j) ==
  /\ Going /\ pc[j] = "scheduled"
  /\ IF Serving
     THEN /\ Goto(j, "running") /\ worker' = [worker EXCEPT ![j] = "preflight"]
          /\ UNCHANGED <<slots, held, obs, link, member, spoiled>>
     ELSE /\ UNCHANGED worker
          /\ \E bad \in Failing(j, {"cost", "obs", "link", "member"}) :
               /\ IF "cost" \in bad THEN CutShort(j, bad) ELSE CloseFailed(j, bad)
               /\ Spoil(j, bad)
  /\ UNCHANGED <<process, starts, closed, helper, phase, intent, lost>>

\* Mutant: the release mode is not looked at.
RecordWrittenInAnyMode(j, bad) == RecordRun(j, "REPORT", bad)

\* _report_requires_atomic_completion: the run of a FULL report is remembered
\* when it is known whether it was delivered, any other one when it is written.
RecordWritten(j, bad) ==
  IF j \in FullJobs THEN UNCHANGED obs ELSE RecordRun(j, "REPORT", bad)

RecordEnd(j, outcome) ==
  IF j \in FullJobs
  THEN \E bad \in Failing(j, {"obs"}) : RecordRun(j, outcome, bad) /\ Spoil(j, bad)
  ELSE UNCHANGED <<obs, spoiled>>

\* The worker has answered: money, costs, then the duty to deliver or the end.
Collect(j) ==
  /\ Going /\ pc[j] = "running" /\ worker[j] \in {"report", "failed"}
  /\ \E bad \in Failing(j, {"phase", "cost", "obs"}) :
       /\ SettlePhase(j, bad) /\ Spoil(j, bad)
       /\ IF "cost" \in bad THEN CutShort(j, bad) /\ UNCHANGED helper
          ELSE /\ UNCHANGED <<slots, held, link, member>>
               /\ IF worker[j] = "report"
                  THEN Goto(j, "requiring") /\ Helper(j, "require") /\ RecordWritten(j, bad)
                  ELSE Goto(j, "unavailable") /\ RecordRun(j, "FAILED", bad) /\ UNCHANGED helper
  /\ UNCHANGED <<process, starts, closed, worker, intent, lost>>

\* _mark_job_execution_deadline and the rest of _run_job: the thread is alive,
\* the session is closed first, and nothing is awaited any more.
Deadline(j) ==
  /\ Going /\ pc[j] = "running" /\ worker[j] \in Working
  /\ closed' = closed \cup {j}
  /\ \E bad \in Failing(j, Rows) :
       /\ SettlePhase(j, bad) /\ Spoil(j, bad)
       /\ IF "cost" \in bad THEN CutShort(j, bad) ELSE CloseFailed(j, bad)
  /\ UNCHANGED <<process, starts, worker, helper, intent, lost>>

-----------------------------------------------------------------------------
(* The pipeline thread: ensure_paid_phase, then provider calls             *)

\* begin_phase, after a look at the session
ReservePhase(j) ==
  /\ Up /\ worker[j] = "preflight" /\ j \notin closed
  /\ phase' = [phase EXCEPT ![j] = "held"] /\ worker' = [worker EXCEPT ![j] = "reserved"]
  /\ UNCHANGED <<process, starts, slots, pc, held, closed, helper, obs, link, member, intent,
                 spoiled, lost>>

\* The second look. A phase that is not kept is cancelled before any call.
CheckSession(j) ==
  /\ Up /\ worker[j] = "reserved"
  /\ IF j \in closed
     THEN /\ worker' = [worker EXCEPT ![j] = "failed"]
          /\ \E bad \in Failing(j, {"phase"}) :
               /\ phase' = [phase EXCEPT ![j] = IF "phase" \in bad THEN @ ELSE "none"]
               /\ Spoil(j, bad)
     ELSE worker' = [worker EXCEPT ![j] = "checked"] /\ UNCHANGED <<phase, spoiled>>
  /\ UNCHANGED <<process, starts, slots, pc, held, closed, helper, obs, link, member, intent, lost>>

\* on_paid_phase: the job learns of its phase, even one that has ended by now.
InstallPhase(j) ==
  /\ Up /\ worker[j] = "checked"
  /\ phase' = [phase EXCEPT ![j] = "installed"] /\ worker' = [worker EXCEPT ![j] = "calling"]
  /\ UNCHANGED <<process, starts, slots, pc, held, closed, helper, obs, link, member, intent,
                 spoiled, lost>>

\* A report comes of paid calls or, for a waiter, of another owner's report.
EndWorker(j) ==
  /\ Up /\ worker[j] \in {"preflight", "calling"}
  /\ \E answer \in {"report", "failed"} : worker' = [worker EXCEPT ![j] = answer]
  /\ UNCHANGED <<process, starts, slots, pc, held, closed, helper, rows, spoiled, lost>>

-----------------------------------------------------------------------------
(* The delivery: duty, saved report, publication; each in a transaction of *)
(* its own, the first and the last on a helper thread the job awaits.      *)

\* mark_delivery_required: renews a failed duty.
Require(j) ==
  /\ Up /\ helper[j] = "require"
  /\ \/ /\ intent' = [intent EXCEPT ![j] = IF @ \in {"none", "FAILED"} THEN "REQUIRED" ELSE @]
        /\ Helper(j, "ok")
     \/ Helper(j, "error") /\ UNCHANGED intent
  /\ UNCHANGED <<process, starts, slots, pc, held, closed, worker, phase, obs, link, member,
                 spoiled, lost>>

\* The duty stands: the report is saved with the LINK row, or neither is.
AfterRequire(j) ==
  /\ Going /\ pc[j] = "requiring" /\ helper[j] \in {"ok", "error"}
  /\ \/ /\ helper[j] = "ok"
        /\ FinishLink(j, "AWAITING", {})
        /\ Goto(j, "delivering") /\ Helper(j, "deliver")
        /\ UNCHANGED <<obs, spoiled>>
     \/ /\ helper[j] = "ok"
        /\ Goto(j, "failing") /\ Helper(j, "fail") /\ UNCHANGED <<obs, link, spoiled>>
     \/ /\ helper[j] = "error"
        /\ Goto(j, "unavailable") /\ Helper(j, "none")
        /\ RecordEnd(j, "FAILED")
        /\ UNCHANGED link
  /\ UNCHANGED <<process, starts, slots, held, closed, worker, phase, member, intent, lost>>

\* finalize_new_report_delivery: report, PDF, charge, duty and LINK row at once.
Publish(j) ==
  /\ Up /\ helper[j] = "deliver"
  /\ intent[j] = "REQUIRED"
  /\ j \in LinkJobs => link[j] \in {"RUNNING", "AWAITING", "STOPPED"}
  /\ intent' = [intent EXCEPT ![j] = "COMPLETE"]
  /\ link' = [link EXCEPT ![j] = IF j \in LinkJobs THEN "COMPLETED" ELSE @]
  /\ Helper(j, "ok")
  /\ UNCHANGED <<process, starts, slots, pc, held, closed, worker, phase, obs, member,
                 spoiled, lost>>

\* It is rolled back; the duty is marked failed,
Blocked(j) ==
  /\ Up /\ helper[j] = "deliver"
  /\ \E bad \in Failing(j, {"intent"}) :
       /\ IF "intent" \in bad THEN UNCHANGED intent ELSE FailIntents({j})
       /\ Spoil(j, bad)
  /\ Helper(j, "blocked")
  /\ UNCHANGED <<process, starts, slots, pc, held, closed, worker, phase, obs, link, member, lost>>

\* ... and then, in another transaction, the LINK row.
StopBlocked(j) ==
  /\ Up /\ helper[j] = "blocked"
  /\ \E bad \in Failing(j, {"link"}) :
       /\ IF "link" \in bad THEN UNCHANGED link ELSE StopRelease({j})
       /\ Spoil(j, bad)
  /\ Helper(j, "error")
  /\ UNCHANGED <<process, starts, slots, pc, held, closed, worker, phase, obs, member, intent, lost>>

\* The run of a FULL report is remembered as one only now that it is published.
AfterDeliver(j) ==
  /\ Going /\ pc[j] = "delivering" /\ helper[j] \in {"ok", "error"}
  /\ IF helper[j] = "ok"
     THEN /\ Goto(j, "available") /\ Helper(j, "none")
          /\ RecordEnd(j, "REPORT")
     ELSE Goto(j, "failing") /\ Helper(j, "fail") /\ UNCHANGED <<obs, spoiled>>
  /\ UNCHANGED <<process, starts, slots, held, closed, worker, phase, link, member, intent, lost>>

\* _fail_report_delivery
Fail(j) ==
  /\ Up /\ helper[j] = "fail"
  /\ \E bad \in Failing(j, {"intent"}) :
       /\ IF "intent" \in bad THEN UNCHANGED intent ELSE FailIntents({j})
       /\ Spoil(j, bad)
  /\ Helper(j, "ok")
  /\ UNCHANGED <<process, starts, slots, pc, held, closed, worker, phase, obs, link, member, lost>>

\* Whether or not the duty could be marked: it is not published.
AfterFail(j) ==
  /\ Going /\ pc[j] = "failing" /\ helper[j] = "ok"
  /\ RecordEnd(j, "FAILED")
  /\ Goto(j, "unavailable") /\ Helper(j, "none")
  /\ UNCHANGED <<process, starts, slots, held, closed, worker, phase, link, member, intent, lost>>

\* The generation session is told; then the last rows and the slot.
AfterSession(j) ==
  /\ Going /\ pc[j] \in {"available", "unavailable"}
  /\ \E bad \in Failing(j, {"link", "member"}) :
       Close(j, pc[j] = "available", bad) /\ Spoil(j, bad)
  /\ UNCHANGED <<process, starts, closed, worker, helper, phase, obs, intent, lost>>

-----------------------------------------------------------------------------
(* Shutdown: _begin_job_shutdown, _drain_job_tasks                         *)

BeginShutdown ==
  /\ Serving /\ process' = "draining"
  /\ UNCHANGED <<starts, slots, memory, rows, spoiled, lost>>

\* After the wait, in which every scheduled task has begun.
CancelJobs ==
  /\ process = "draining" /\ process' = "cancelling"
  /\ \A j \in Jobs : pc[j] # "scheduled"
  /\ \E j \in Jobs : pc[j] \in Awaiting
  /\ UNCHANGED <<starts, slots, memory, rows, spoiled, lost>>

\* _force_shutdown_cleanup, once per job. The quota is left to the next start.
ForceCleanup(j, bad) ==
  /\ closed' = closed \cup {j}
  /\ SettlePhase(j, bad)
  /\ IF phase[j] \in {"installed", "settled"} THEN RecordRun(j, "FAILED", bad) ELSE UNCHANGED obs
  /\ FinishLink(j, "INTERRUPTED", bad)
  /\ ReleaseJobSlot(j)

\* A task that does not end in the grace period: from outside, and it goes on.
ForceEnd(j) ==
  /\ process = "cancelling" /\ pc[j] \in Awaiting /\ j \in held
  /\ \E bad \in Failing(j, {"phase", "obs", "link"}) : ForceCleanup(j, bad)
  /\ spoiled' = spoiled \cup {j}
  /\ UNCHANGED <<process, starts, pc, worker, helper, member, intent, lost>>

\* The cancellation arrives: a waiting job cleans up, a delivering one only
\* leaves; its helper thread runs on.
Cancelled(j) ==
  /\ process = "cancelling" /\ pc[j] \in Awaiting
  /\ \/ /\ pc[j] = "running" /\ j \in held
        /\ \E bad \in Failing(j, {"phase", "obs", "link"}) : ForceCleanup(j, bad)
        /\ Goto(j, "done") /\ UNCHANGED member
     \/ /\ pc[j] = "running" /\ j \notin held
        /\ Goto(j, "done") /\ UNCHANGED <<slots, held, closed, phase, obs, link, member>>
     \/ /\ pc[j] # "running"
        /\ \E bad \in Failing(j, {"link"}) : CutShort(j, bad)
        /\ UNCHANGED <<closed, phase>>
  /\ spoiled' = spoiled \cup {j}
  /\ UNCHANGED <<process, starts, worker, helper, intent, lost>>

\* The process ends or crashes, at any point, its threads with it.
Stop ==
  /\ process # "down" /\ process' = "down"
  /\ running' = 0 /\ byName' = [n \in Names |-> 0]
  /\ pc' = [j \in Jobs |-> IF pc[j] = "idle" THEN "idle" ELSE "old"]
  /\ held' = {} /\ closed' = {}
  /\ worker' = [j \in Jobs |-> "none"] /\ helper' = [j \in Jobs |-> "none"]
  /\ phase' = [j \in Jobs |-> IF phase[j] = "installed" THEN "held" ELSE phase[j]]
  /\ spoiled' = {}
  /\ UNCHANGED <<starts, obs, link, member, intent, lost>>

-----------------------------------------------------------------------------
(* The start: _lifespan, one step after the other before anyone is served  *)

Start ==
  /\ process = "down" /\ starts < MaxStarts
  /\ process' = "recover obs" /\ starts' = starts + 1
  /\ UNCHANGED <<slots, memory, rows, spoiled, lost>>

\* _recover_observation_lifecycle: run by run, each may fail.
RecoverObs ==
  /\ process = "recover obs" /\ process' = "recover link"
  /\ LET open == {j \in Jobs : obs[j] \in {"PENDING", "RUNNING"}}
     IN  \E S \in (IF Faults = {{}} THEN {open} ELSE {open, {}}) :
           /\ obs' = [j \in Jobs |-> IF j \notin S THEN obs[j]
                                     ELSE IF obs[j] = "PENDING" THEN "CONFIRM" ELSE "FAILED"]
           /\ spoiled' = spoiled \cup (open \ S)
  /\ UNCHANGED <<starts, slots, memory, phase, link, member, intent, lost>>

\* _recover_link_run_history: all at once; if it fails the server does not start.
RecoverLink ==
  /\ process = "recover link" /\ process' = "recover member"
  /\ link' = [j \in Jobs |-> IF link[j] = "RUNNING" THEN "INTERRUPTED" ELSE link[j]]
  /\ UNCHANGED <<starts, slots, memory, phase, obs, member, intent, spoiled, lost>>

\* Mutant: only the runs with a published report are settled.
RecoverMemberUsed ==
  /\ process = "recover member" /\ process' = "recover stale"
  /\ member' = [j \in Jobs |-> IF member[j] = "RESERVED" /\ intent[j] = "COMPLETE"
                               THEN "USED" ELSE member[j]]
  /\ UNCHANGED <<starts, slots, memory, phase, obs, link, intent, spoiled, lost>>

\* _recover_member_run_history: a report that is published counts if its PDF
\* can be read, one by one, each settlement may fail.
RecoverMember ==
  /\ process = "recover member" /\ process' = "recover stale"
  /\ LET open == {j \in Jobs : member[j] = "RESERVED"}
     IN  \E S \in (IF Faults = {{}} THEN {open} ELSE SUBSET open) :
         \E unread \in SUBSET {j \in S : intent[j] = "COMPLETE"} :
           /\ member' = [j \in Jobs |->
                           IF j \notin S THEN member[j]
                           ELSE IF intent[j] = "COMPLETE" /\ j \notin unread THEN "USED"
                           ELSE "RETURNED"]
           /\ lost' = lost \cup unread
           /\ spoiled' = spoiled \cup (open \ S)
  /\ UNCHANGED <<starts, slots, memory, phase, obs, link, intent>>

\* _recover_stale_report_deliveries: duties older than ten minutes, the duty
\* first and the LINK row after it; then _start_job_runtime.
RecoverStale ==
  /\ process = "recover stale" /\ process' = "serving"
  /\ \E stale \in SUBSET {j \in Jobs : intent[j] = "REQUIRED"} :
       /\ FailIntents(stale)
       /\ \E S \in (IF Faults = {{}} THEN {stale} ELSE {stale, {}}) : StopRelease(S)
  /\ UNCHANGED <<starts, slots, memory, phase, obs, member, spoiled, lost>>

\* admin_delivery_settle: any duty that still stands, also one being delivered.
AdminSettle(j) ==
  /\ Serving /\ intent[j] = "REQUIRED" /\ FailIntents({j})
  /\ \E bad \in Failing(j, {"link"}) :
       /\ IF "link" \in bad THEN UNCHANGED link ELSE StopRelease({j})
       /\ Spoil(j, bad)
  /\ UNCHANGED <<process, starts, slots, memory, phase, obs, member, lost>>

\* reap_expired_paid_phases: the lease of a phase outlives its job's deadline.
Reap(j) ==
  /\ Serving /\ pc[j] \in {"done", "old"} /\ phase[j] \in {"held", "installed"}
  /\ phase' = [phase EXCEPT ![j] = "settled"]
  /\ UNCHANGED <<process, starts, slots, memory, obs, link, member, intent, spoiled, lost>>

-----------------------------------------------------------------------------
Thread(j) ==
  \/ ReservePhase(j) \/ CheckSession(j) \/ InstallPhase(j) \/ EndWorker(j)

Delivery(j) ==
  \/ Require(j) \/ Publish(j) \/ Blocked(j) \/ StopBlocked(j) \/ Fail(j)

Request(j) ==
  \/ Ask(j) \/ Abandon(j) \/ Expire(j) \/ TakeSlot(j) \/ ConsumeFails(j)

\* What the event loop runs for a request that has its slot, and for its job.
Task(j) ==
  \/ Book(j) \/ TurnAway(j) \/ Schedule(j) \/ StartTask(j)
  \/ Collect(j) \/ Deadline(j)
  \/ AfterRequire(j) \/ AfterDeliver(j) \/ AfterFail(j) \/ AfterSession(j)
  \/ Cancelled(j)

Next ==
  \/ \E j \in Jobs :
       \/ Request(j) \/ Task(j) \/ Thread(j) \/ Delivery(j)
       \/ ForceEnd(j) \/ AdminSettle(j) \/ Reap(j)
  \/ BeginShutdown \/ CancelJobs \/ Stop \/ Start
  \/ RecoverObs \/ RecoverLink \/ RecoverMember \/ RecoverStale

Spec == Init /\ [][Next]_vars

\* The event loop runs what is ready, a helper thread ends (its work is local),
\* and the deadline is an alarm: none waits for the pipeline thread.
Fairness == \A j \in Jobs : WF_vars(Task(j)) /\ WF_vars(Delivery(j))

FairSpec == Spec /\ Fairness

-----------------------------------------------------------------------------
(* Properties                                                              *)

\* The counters say who holds a slot, through handing over, deadlines and
\* forced ends, and no limit (all, per name, per link) is ever exceeded.
SlotsExact ==
  /\ running = Cardinality(held)
  /\ \A n \in Names : byName[n] = Cardinality({j \in held : NameOf[j] = n})
  /\ running <= MaxRuns
  /\ \A n \in Names : byName[n] <= NameLimit[n]
  /\ \A n \in LinkNames : LinkRunning(n) <= LinkLimit

\* A member's daily use is what was delivered: a run counts only if its report
\* is published, and a published one is handed back only where a start could
\* not read its PDF. Cancellation, deadline and restart race the helper thread.
QuotaFollowsDelivery ==
  \A j \in Jobs :
    /\ member[j] = "USED" => intent[j] = "COMPLETE"
    /\ member[j] = "RETURNED" /\ intent[j] = "COMPLETE" => j \in lost

\* The history of a link says "completed" of exactly the published reports, and
\* no run of a FULL report is remembered as one that nobody can open, whoever
\* else (forced end, finally, recovery, administrator) writes the rows. Outside
\* FULL the run is remembered by what the worker wrote, published or not.
HistoryFollowsDelivery ==
  /\ \A j \in LinkJobs : link[j] = "COMPLETED" <=> intent[j] = "COMPLETE"
  /\ \A j \in FullJobs : obs[j] = "REPORT" => intent[j] = "COMPLETE"

Open(j) == obs[j] \in {"PENDING", "RUNNING"} \/ link[j] = "RUNNING" \/ member[j] = "RESERVED"

\* A job that ended, with all its writes done, leaves no row open: not the run,
\* its LINK row, the quota, nor a duty to deliver; only a deadline leaves a
\* phase to its lease. A served restart has closed what the last process left.
EveryRowClosed ==
  \A j \in Jobs \ spoiled :
    /\ pc[j] = "done" => ~Open(j) /\ link[j] # "AWAITING" /\ intent[j] # "REQUIRED"
    /\ pc[j] = "done" /\ phase[j] \in {"held", "installed"} => j \in closed
    /\ pc[j] = "away" => link[j] # "RUNNING" /\ member[j] # "RESERVED"
    /\ pc[j] = "old" /\ Serving => ~Open(j)

\* What was said of a run is not taken back: its outcome, the quota, the
\* publication; two writers of one row may both come last.
FinalIsFinal ==
  [][\A j \in Jobs :
       /\ obs[j] \in {"CONFIRM", "FAILED", "REPORT"} => obs'[j] = obs[j]
       /\ member[j] \in {"USED", "RETURNED"} => member'[j] = member[j]
       /\ intent[j] = "COMPLETE" => intent'[j] = "COMPLETE"]_vars

\* Whatever happens to the pipeline thread, the slot comes back.
SlotComesBack == \A j \in Jobs : j \in held ~> j \notin held
=============================================================================
