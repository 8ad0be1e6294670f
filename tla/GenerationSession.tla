-------------------------- MODULE GenerationSession --------------------------
(***************************************************************************)
(* The sessions of web/generation_singleflight.py over the lease table:    *)
(* one background job each, that waits for another's report or becomes the *)
(* owner, refreshes its lease before every provider call, and hands the    *)
(* finished report to the waiters.                                         *)
(*                                                                         *)
(* Each action is one SQLite write transaction or one step of a thread     *)
(* between two of them; the sessions may sit in different processes.       *)
(* clock[s] counts down the request's one absolute deadline (OWNER_MAX_AGE *)
(* and WAITER_MAX_AGE_SEC are both PAID_PHASE_LEASE_SEC) and call[s] the   *)
(* longest time the calls already sent may still take.  Results are not    *)
(* eligible for the long-term cache, so nothing is found there.            *)
(*                                                                         *)
(* Before it asks for its generation, a request may prepare it with paid   *)
(* calls under a lease of its own (paid_preparation). The preparation is a *)
(* session here, with its key, handle and calls; the deadline, the         *)
(* cancellation and the heartbeat's error are those of its request.        *)
(***************************************************************************)
EXTENDS SingleFlight

CONSTANTS
    KeyOf,     \* the key each session generates
    Preparing, \* the sessions that are the preparation of a request
    RequestOf, \* the request each of them prepares
    Revocable, \* bound of the model: whose result may lose its authority
    OwnerMax,  \* ticks of the absolute deadline
    Grace,     \* PROVIDER_IN_FLIGHT_GRACE: no new call this close to it
    CallTicks  \* the longest provider timeout

ASSUME SessionAssumption ==
    /\ KeyOf \in [Sessions -> Keys]
    /\ Preparing \subseteq Sessions
    /\ RequestOf \in [Preparing -> Sessions \ Preparing]
    /\ \A p \in Preparing : \A s \in Sessions \ Preparing : KeyOf[p] # KeyOf[s]
    /\ OwnerMax \in Nat \ {0}
    /\ CallTicks \in 1..LeaseTtl
    /\ Grace \in Nat /\ CallTicks <= Grace

VARIABLES
    st,        \* where each session stands
    fence,     \* the fencing token of its handle, 0 without one
    clock,     \* ticks left of its deadline
    call,      \* ticks its provider calls may still run
    beat,      \* its heartbeat thread
    abandoned, \* the sessions whose abandon() was called
    revoked    \* the sessions whose result lost its owner's authority

session == <<st, fence, clock, call, beat, abandoned>>
vars == <<lease, session, revoked>>

SessionStates ==
    {"absent", "new", "preparing", "owner", "confirming", "overtaken", "quarantining", "disowning",
     "completed", "reused", "failed", "cancelled", "timed_out", "left"}

TypeOK ==
    /\ lease \in [Keys -> LeaseRow]
    /\ st \in [Sessions -> SessionStates]
    /\ fence \in [Sessions -> Nat]
    /\ clock \in [Sessions -> 0..OwnerMax]
    /\ call \in [Sessions -> 0..CallTicks]
    /\ beat \in [Sessions -> {"off", "on", "stopping", "error"}]
    /\ abandoned \subseteq Sessions
    /\ revoked \subseteq Sessions

Init ==
    /\ LeaseInit
    /\ st = [s \in Sessions |-> "absent"]
    /\ fence = [s \in Sessions |-> 0]
    /\ clock = [s \in Sessions |-> 0]
    /\ call = [s \in Sessions |-> 0]
    /\ beat = [s \in Sessions |-> "off"]
    /\ abandoned = {}
    /\ revoked = {}

Enter(s, to) == st' = [st EXCEPT ![s] = to]

Owns(s) == st[s] = "owner" /\ s \notin abandoned

\* A request and its preparation are one object with one _cancel_wait, one
\* _lease_error and one process.
Roles(s) == {s} \cup {p \in Preparing : RequestOf[p] = s}

Requests == Sessions \ Preparing

\* An error raised in a preparation ends its request.
Exit(s, to) ==
    st' = [t \in Sessions |->
             IF t = s THEN to
             ELSE IF s \in Preparing /\ t = RequestOf[s] THEN "left" ELSE st[t]]

HolderOf(s) == Holds(s, KeyOf[s], fence[s])

\* _bounded_owner_ttl: no lease outlives the request's deadline.
BoundedTtl(s) == IF clock[s] < LeaseTtl THEN clock[s] ELSE LeaseTtl

OwnerTtl(s) == BoundedTtl(s)

-----------------------------------------------------------------------------
(* Waiting *)

Create(s) ==
    /\ s \in Requests /\ st[s] = "absent"
    /\ Enter(s, "new")
    /\ clock' = [clock EXCEPT ![s] = OwnerMax]
    /\ UNCHANGED <<lease, fence, call, beat, abandoned, revoked>>

Polls(s) == st[s] = "new" /\ s \notin abandoned /\ clock[s] > 0

BecomeOwner(s) ==
    LET k == KeyOf[s] IN
    /\ TakeLease(s, k, OwnerTtl(s))
    /\ fence' = [fence EXCEPT ![s] = lease[k].fence + 1]
    /\ Enter(s, "owner")
    /\ beat' = [beat EXCEPT ![s] = "on"]

\* One turn of coordinate's loop that ends the wait: the acquire transaction,
\* and for a result that lost its authority the second acquire inside it.
Coordinate(s) ==
    LET k == KeyOf[s]
        answer == Disposition(k)
        distrusted == answer = "COMPLETED" /\ lease[k].result \in revoked
    IN
    /\ s \in Requests /\ Polls(s)
    /\ \/ /\ Claims(k) \/ distrusted
          /\ BecomeOwner(s)
       \/ /\ answer = "COMPLETED" /\ ~distrusted
          /\ CloseExpired(k)
          /\ Enter(s, "reused")
          /\ UNCHANGED <<fence, beat>>
       \/ /\ answer = "FAILED"
          /\ Enter(s, "failed")
          \* GenerationOwnerFailed leaves the connection's context: rollback.
          /\ UNCHANGED <<lease, fence, beat>>
    /\ UNCHANGED <<clock, call, abandoned, revoked>>

\* The turn that finds someone else running and sleeps on.
StillWaiting(s) ==
    /\ Polls(s)
    /\ Disposition(KeyOf[s]) = "WAIT"
    /\ CloseExpired(KeyOf[s])
    /\ UNCHANGED <<session, revoked>>

\* The store failed, or refused the result it found: no provider is called.
CoordinateFails(s) ==
    /\ Polls(s)
    /\ Exit(s, "left")
    /\ UNCHANGED <<lease, fence, clock, call, beat, abandoned, revoked>>

\* Mutant: a cancelled waiter is woken and sleeps on.
WaitEndsLate(s) ==
    /\ st[s] = "new" /\ s \notin abandoned /\ clock[s] = 0
    /\ Exit(s, "timed_out")
    /\ UNCHANGED <<lease, fence, clock, call, beat, abandoned, revoked>>

WaitEnds(s) ==
    /\ st[s] = "new"
    /\ \/ s \in abandoned /\ Exit(s, "cancelled")
       \/ s \notin abandoned /\ clock[s] = 0 /\ Exit(s, "timed_out")
    /\ UNCHANGED <<lease, fence, clock, call, beat, abandoned, revoked>>

-----------------------------------------------------------------------------
(* Preparing: paid_preparation *)

\* The request waits in it; a lease error or a cancellation stops it at once.
Prepare(p) ==
    LET s == RequestOf[p] IN
    /\ p \in Preparing /\ st[p] = "absent" /\ Polls(s)
    /\ st' = [st EXCEPT ![p] = "new", ![s] = "preparing"]
    /\ clock' = [clock EXCEPT ![p] = clock[s]]
    /\ UNCHANGED <<lease, fence, call, beat, abandoned, revoked>>

\* A turn of its loop that ends the wait. Whoever prepared the same input, and
\* with what success, the request goes on: it reads what that one has saved.
PreparationTurn(p) ==
    /\ p \in Preparing /\ Polls(p)
    /\ \/ Claims(KeyOf[p]) /\ BecomeOwner(p)
       \/ /\ Disposition(KeyOf[p]) = "FAILED"
          /\ CloseExpired(KeyOf[p])
          /\ st' = [st EXCEPT ![p] = "reused", ![RequestOf[p]] = "new"]
          /\ UNCHANGED <<fence, beat>>
    /\ UNCHANGED <<clock, call, abandoned, revoked>>

\* The finally of paid_preparation: it is never COMPLETED, its end is shared as
\* a failure. When that cannot be seen to be stored, it is a lease error of the
\* request, which goes on if its own error was none of the coordination's.
EndPreparation(p) ==
    /\ p \in Preparing /\ st[p] = "owner" /\ call[p] = 0
    /\ \/ /\ HolderOf(p)
          /\ ShareFailure(KeyOf[p])
          /\ beat' = [beat EXCEPT ![p] = IF @ = "error" THEN @ ELSE "off"]
       \/ /\ UNCHANGED lease
          /\ beat' = [beat EXCEPT ![p] = "error"]
    /\ \E next \in {"new", "left"} :
         st' = [st EXCEPT ![p] = "failed", ![RequestOf[p]] = next]
    /\ UNCHANGED <<fence, clock, call, abandoned, revoked>>

-----------------------------------------------------------------------------
(* Owning: the heartbeat thread and the provider calls *)

\* A stop set meanwhile lets one last beat through; its error is read by no one.
BeatEnds(s, as) ==
    beat' = [beat EXCEPT ![s] = IF @ = "on" THEN as ELSE "off"]

\* Mutant: the heartbeat does not know the request's deadline.
BeatForever(s) ==
    /\ beat[s] \in {"on", "stopping"}
    /\ \/ HolderOf(s) /\ Extend(KeyOf[s], LeaseTtl) /\ BeatEnds(s, "on")
       \/ BeatEnds(s, "error") /\ UNCHANGED lease
    /\ UNCHANGED <<st, fence, clock, call, abandoned, revoked>>

\* One turn of _heartbeat_loop: the lease is extended, or was lost, or the
\* store could not be written; an error ends the thread and is kept.
Beat(s) ==
    /\ beat[s] \in {"on", "stopping"}
    /\ \/ /\ HolderOf(s) /\ clock[s] > 0
          /\ Extend(KeyOf[s], OwnerTtl(s))
          /\ BeatEnds(s, "on")
       \/ /\ BeatEnds(s, "error")
          /\ UNCHANGED lease
    /\ UNCHANGED <<st, fence, clock, call, abandoned, revoked>>

StopBeats(S) ==
    beat' = [s \in Sessions |->
               IF s \notin S THEN beat[s] ELSE IF beat[s] = "on" THEN "stopping" ELSE "off"]

StopBeat(s) == StopBeats({s})

MaySend(s) ==
    Owns(s) /\ clock[s] > Grace /\ \A r \in Roles(s) : beat[r] # "error"

\* Mutant: an owner that opened its paid phase once is not fenced again.
SendUnfenced(s) ==
    /\ MaySend(s)
    /\ call' = [call EXCEPT ![s] = CallTicks]
    /\ UNCHANGED <<lease, st, fence, clock, beat, abandoned, revoked>>

\* ensure_paid_phase before a call: the lease is refreshed under the fence,
\* and the call goes out unless the money is refused after that.
SendProvider(s) ==
    /\ MaySend(s)
    /\ HolderOf(s)
    /\ Extend(KeyOf[s], OwnerTtl(s))
    /\ \/ call' = [call EXCEPT ![s] = CallTicks]
       \/ UNCHANGED call
    /\ UNCHANGED <<st, fence, clock, beat, abandoned, revoked>>

ProviderReturns(s) ==
    /\ call[s] > 0
    /\ call' = [call EXCEPT ![s] = 0]
    /\ UNCHANGED <<lease, st, fence, clock, beat, abandoned, revoked>>

-----------------------------------------------------------------------------
(* Finishing *)

\* Mutant: complete's UPDATE without the owner, token and fence columns.
FinishesByKey(s) == Running(KeyOf[s])

\* complete's UPDATE changes the row of the session's own acquisition only.
Finishes(s) == HolderOf(s)

\* complete, up to and including the commit, whose answer may be lost or which
\* may fail.  A lost lease (`completed' is False) is not looked at yet: the
\* receipt is read first, does not match, and the row is to be quarantined.
Complete(s) ==
    /\ s \in Requests /\ Owns(s) /\ call[s] = 0
    /\ \/ Finishes(s) /\ Publish(s, KeyOf[s]) /\ Enter(s, "confirming")
       \/ Finishes(s) /\ UNCHANGED lease /\ Enter(s, "confirming")
       \/ ~Finishes(s) /\ UNCHANGED lease /\ Enter(s, "overtaken")
    /\ StopBeat(s)
    /\ UNCHANGED <<fence, clock, call, abandoned, revoked>>

\* The content, its artifact or the build identity did not pass: the job
\* abandons the session, and nothing of it acts again but a last beat.
CompleteRefused(s) ==
    /\ s \in Requests /\ Owns(s) /\ call[s] = 0
    /\ Enter(s, "left")
    /\ StopBeat(s)
    /\ UNCHANGED <<lease, fence, clock, call, abandoned, revoked>>

\* Mutant: a commit error is believed to have been only a lost answer.
ConfirmUnread(s) ==
    /\ st[s] = "confirming"
    /\ Enter(s, "completed")
    /\ UNCHANGED <<lease, fence, clock, call, beat, abandoned, revoked>>

\* The receipt is read again; if it matches, so must the build identity.
ConfirmReceipt(s) ==
    /\ st[s] = "confirming"
    /\ \/ ReceiptOf(s, KeyOf[s]) /\ Enter(s, "completed")
       \/ ReceiptOf(s, KeyOf[s]) /\ Enter(s, "disowning")
       \/ ~ReceiptOf(s, KeyOf[s]) /\ Enter(s, "quarantining")
    /\ UNCHANGED <<lease, fence, clock, call, beat, abandoned, revoked>>

\* _quarantine_completion_receipt, after which the job abandons the session.
Quarantine(s) ==
    /\ st[s] \in {"overtaken", "quarantining", "disowning"}
    /\ QuarantineCompleted(KeyOf[s])
    /\ Enter(s, "left")
    /\ UNCHANGED <<fence, clock, call, beat, abandoned, revoked>>

\* fail: the failure is shared, or the job abandons the session.
Fail(s) ==
    /\ s \in Requests /\ Owns(s) /\ call[s] = 0
    /\ StopBeat(s)
    /\ \/ /\ HolderOf(s)
          /\ ShareFailure(KeyOf[s])
          /\ Enter(s, "failed")
       \/ /\ Enter(s, "left")
          /\ UNCHANGED lease
    /\ UNCHANGED <<fence, clock, call, abandoned, revoked>>

\* The job's deadline or a shutdown: the thread in a call cannot be stopped.
Abandon(s) ==
    /\ s \in Requests \ abandoned /\ st[s] \in {"new", "preparing", "owner"}
    /\ abandoned' = abandoned \cup Roles(s)
    /\ StopBeats(Roles(s))
    /\ UNCHANGED <<lease, st, fence, clock, call, revoked>>

\* The process of s dies.
Crash(s) ==
    /\ s \in Requests
    /\ st[s] \in {"new", "preparing", "owner", "confirming", "overtaken", "quarantining",
                  "disowning"}
    /\ st' = [t \in Sessions |-> IF t \in Roles(s) THEN "left" ELSE st[t]]
    /\ call' = [t \in Sessions |-> IF t \in Roles(s) THEN 0 ELSE call[t]]
    /\ beat' = [t \in Sessions |-> IF t \in Roles(s) THEN "off" ELSE beat[t]]
    /\ UNCHANGED <<lease, fence, clock, abandoned, revoked>>

\* The owner of a shared result loses its authority over it.
RevokeAuthority(s) ==
    /\ \E k \in Keys : ReceiptOf(s, k)
    /\ s \in Revocable \ revoked
    /\ revoked' = revoked \cup {s}
    /\ UNCHANGED <<lease, session>>

Less(n) == IF n > 0 THEN n - 1 ELSE 0

Tick ==
    /\ (\E s \in Sessions : clock[s] > 0) \/ (\E k \in Keys : Live(k))
    /\ LeaseTick
    /\ clock' = [s \in Sessions |-> Less(clock[s])]
    /\ call' = [s \in Sessions |-> Less(call[s])]
    /\ UNCHANGED <<st, fence, beat, abandoned, revoked>>

Next ==
    \/ \E s \in Sessions :
        \/ Create(s) \/ Coordinate(s) \/ StillWaiting(s) \/ CoordinateFails(s) \/ WaitEnds(s)
        \/ Prepare(s) \/ PreparationTurn(s) \/ EndPreparation(s)
        \/ Beat(s) \/ SendProvider(s) \/ ProviderReturns(s)
        \/ Complete(s) \/ CompleteRefused(s)
        \/ ConfirmReceipt(s) \/ Quarantine(s) \/ Fail(s)
        \/ Abandon(s) \/ Crash(s) \/ RevokeAuthority(s)
    \/ Tick

\* Time passes, and a waiting thread looks at its deadline and its
\* cancellation; nothing is asked of owners, nor that a wait finds an answer.
Fairness == WF_vars(Tick) /\ \A s \in Sessions : WF_vars(WaitEnds(s))

Spec == Init /\ [][Next]_vars

FairSpec == Spec /\ Fairness

-----------------------------------------------------------------------------
(* Properties *)

\* A cost scope has at most one generation ACTIVE, whichever namespace or build
\* wrote the row: acquire never needs the partial unique index to stop it.
OneActivePerScope ==
    \A j, k \in Keys :
        /\ lease[j].state = "ACTIVE" /\ lease[k].state = "ACTIVE"
        /\ ScopeOf[j] = ScopeOf[k]
        => j = k

\* No two sessions pay providers for the same scope at the same time, although
\* a heartbeat may have died, a process stopped or an abandoned thread still be
\* in its call: a takeover waits longer than any call of the old owner can last.
CallsInOneHand ==
    \A s, t \in Sessions :
        call[s] > 0 /\ call[t] > 0 /\ ScopeOf[KeyOf[s]] = ScopeOf[KeyOf[t]] => s = t

\* The two facts behind it.  A row's owner is the one session whose handle
\* carries the row's fencing token.
OwnerHoldsHandle ==
    \A k \in Keys : LET s == lease[k].owner IN
        /\ lease[k].state = "ABSENT" \/ s \in Sessions
        /\ s \in Sessions =>
             /\ KeyOf[s] = k /\ fence[s] = lease[k].fence
             /\ st[s] \notin {"absent", "new", "preparing"}

\* And a call that may still run is covered by the lease and by the deadline.
CallsCovered ==
    \A s \in Sessions : call[s] > 0 =>
        HolderOf(s) /\ call[s] <= lease[KeyOf[s]].left /\ call[s] <= clock[s]

\* What waiters are given was published by the very session that held the key's
\* last lease, under that lease's fencing token: never by an owner taken over.
ResultIsTheHolders ==
    \A k \in Keys : lease[k].state = "COMPLETED" =>
        LET s == lease[k].result IN
        s \in Sessions /\ s = lease[k].owner /\ KeyOf[s] = k /\ fence[s] = lease[k].fence

\* A session that reports success did publish: its row, as long as nobody took
\* the key over, is its completed row, a commit whose answer was lost included.
CompletedWasPublished ==
    \A s \in Sessions : st[s] = "completed" =>
        lease[KeyOf[s]].fence > fence[s] \/ ReceiptOf(s, KeyOf[s])

\* Fencing tokens only grow, one owner at a time, and a new one is given only
\* after the old lease or fan-out lapsed or its result lost its authority.
TakeoverAfterLapse ==
    [][\A k \in Keys :
        /\ lease'[k].fence >= lease[k].fence
        /\ lease'[k].fence # lease[k].fence =>
             /\ lease'[k].fence = lease[k].fence + 1
             /\ ~Live(k) \/ lease[k].result \in revoked]_vars

Waits(s) == \E r \in Roles(s) : st[r] = "new"

\* Whatever owner, heartbeat or thread hangs, a running generation ends or its
\* lease lapses: no heartbeat reaches beyond the request's own deadline.
EveryLeaseEnds == \A k \in Keys : Running(k) ~> ~Running(k)

\* A request that waits for another's report, or for the end of another's
\* preparation, gets an answer or gives up, though it may do both in turn.
EveryWaitEnds == \A s \in Requests : Waits(s) ~> ~Waits(s)

\* An owner whose lease was taken over before it finished cannot touch the row
\* with its old token (the comment at the end of singleflight.acquire): the step
\* that gives up its complete leaves the others' results as they are.
StaleOwnerTouchesNothing ==
    [][\A s \in Sessions : st[s] = "overtaken" /\ st'[s] # st[s] => UNCHANGED lease]_vars

=============================================================================
