----------------------- MODULE GenerationSessionProofs -----------------------
(***************************************************************************)
(* Proofs about GenerationSession for any keys, scopes and sessions and    *)
(* any timings that satisfy LeaseAssumption and SessionAssumption.         *)
(*                                                                         *)
(* CallsInOneHand is not inductive.  It follows from two invariants that   *)
(* are, together with the types: a call that may still run is covered by   *)
(* its session's live lease, and a scope has one ACTIVE row, whose owner   *)
(* is the one session that holds its fencing token.                        *)
(* CompletedWasPublished and TakeoverAfterLapse follow from how rows go on *)
(* from step to step (RowsGoOn): one is given to a session with the next   *)
(* token, or every row keeps its token and its result.                     *)
(*                                                                         *)
(* The last parts are about time: leases within deadlines, deadlines that  *)
(* come nearer, waits that see them; and about what an owner that was taken *)
(* over can still do.                                                      *)
(***************************************************************************)
EXTENDS GenerationSession, TLAPS

\* Where a session has no handle of a lease yet.
Handless == {"absent", "new", "preparing"}
USE DEF Handless

\* Who prepares has a request that waits for it, and for no other.
PreparationFits ==
    \A p \in Preparing : st[p] \in {"new", "owner"} =>
        /\ st[RequestOf[p]] = "preparing"
        /\ \A q \in Preparing \ {p} :
             RequestOf[q] = RequestOf[p] => st[q] \notin {"new", "owner"}

IInv ==
    /\ TypeOK
    /\ OneActivePerScope
    /\ OwnerHoldsHandle
    /\ CallsCovered
    /\ ResultIsTheHolders

(* A lease is taken only in a scope where nothing runs: not the key itself, *)
(* not a rival of another namespace or build (acquire's two checks).        *)
LEMMA ClaimInQuietScope ==
    ASSUME TypeOK, NEW k \in Keys, NEW j \in Keys,
           Claims(k) \/ Disposition(k) = "COMPLETED",
           ScopeOf[j] = ScopeOf[k]
    PROVE  ~Running(j)
<1>1. CASE j # k
  BY <1>1 DEF Claims, Disposition, Rivals
<1>2. CASE j = k
  BY <1>2 DEF Claims, Disposition, Running, Live
<1> QED
  BY <1>1, <1>2

(* The time to live of a lease is one the table can hold, and is no longer  *)
(* than what is left of the request.                                        *)
LEMMA OwnerTtlBounded ==
    ASSUME TypeOK, NEW s \in Sessions
    PROVE  OwnerTtl(s) \in 0..LeaseTtl
  BY LeaseAssumption, SessionAssumption DEF TypeOK, OwnerTtl, BoundedTtl

(* Closing an expired row keeps everything of it but an ACTIVE state.       *)
LEMMA ClosedRow ==
    ASSUME TypeOK, NEW j \in Keys, NEW k \in Keys
    PROVE  LET row == ClosedIfExpired(j, k) IN
           /\ row \in LeaseRow
           /\ row.owner = lease[j].owner /\ row.fence = lease[j].fence
           /\ row.result = lease[j].result /\ row.left = lease[j].left
           /\ row.state = lease[j].state \/ (lease[j].state = "ACTIVE" /\ row.state = "FAILED")
           /\ ScopeOf[j] = ScopeOf[k] /\ ~Running(j) => row.state # "ACTIVE"
  BY DEF ClosedIfExpired, TypeOK, LeaseRow, LeaseStates, Running

(* Taking a lease keeps every part of the invariant: the scope was quiet,   *)
(* and no call of another session ran under the row that is replaced.       *)
LEMMA BecomeOwnerStep ==
    ASSUME IInv, NEW s \in Sessions, Polls(s), BecomeOwner(s),
           Claims(KeyOf[s]) \/ Disposition(KeyOf[s]) = "COMPLETED",
           UNCHANGED <<clock, call, abandoned, revoked>>
    PROVE  IInv'
<1> DEFINE k == KeyOf[s]
<1>0. k \in Keys /\ st[s] = "new" /\ OwnerTtl(s) \in 0..LeaseTtl
  BY OwnerTtlBounded, SessionAssumption DEF Polls, IInv
<1>1. \A j \in Keys : lease[j].owner # s
  BY <1>0 DEF IInv, OwnerHoldsHandle
<1>2. /\ lease'[k].state = "ACTIVE" /\ lease'[k].owner = s
      /\ lease'[k].fence = lease[k].fence + 1
      /\ fence' = [fence EXCEPT ![s] = lease[k].fence + 1]
      /\ st' = [st EXCEPT ![s] = "owner"]
  BY <1>0 DEF BecomeOwner, TakeLease, Enter
<1>3. \A j \in Keys \ {k} :
        /\ lease'[j] = ClosedIfExpired(j, k)
        /\ lease'[j].owner = lease[j].owner /\ lease'[j].fence = lease[j].fence
        /\ lease'[j].result = lease[j].result /\ lease'[j].left = lease[j].left
        /\ lease'[j].state = lease[j].state
           \/ (lease[j].state = "ACTIVE" /\ lease'[j].state = "FAILED")
  BY <1>0, ClosedRow DEF BecomeOwner, TakeLease, IInv
<1>4. \A j \in Keys \ {k} :
        ScopeOf[j] = ScopeOf[k] => lease'[j].state # "ACTIVE"
  <2> SUFFICES ASSUME NEW j \in Keys \ {k}, ScopeOf[j] = ScopeOf[k]
               PROVE  lease'[j].state # "ACTIVE"
    OBVIOUS
  <2>1. ~Running(j)
    BY <1>0, ClaimInQuietScope DEF IInv
  <2> QED
    BY <2>1, <1>0, <1>3, ClosedRow DEF IInv
<1>5. \A j \in Keys : lease'[j].state = "ACTIVE" /\ j # k => lease[j].state = "ACTIVE"
  BY <1>3
<1>6. TypeOK'
  <2>1. lease' \in [Keys -> LeaseRow]
    <3>1. \A j \in Keys : ClosedIfExpired(j, k) \in LeaseRow
      BY <1>0, ClosedRow DEF IInv
    <3>2. [state |-> "ACTIVE", owner |-> s, fence |-> lease[k].fence + 1,
           left |-> OwnerTtl(s), result |-> None] \in LeaseRow
      BY <1>0 DEF IInv, TypeOK, LeaseRow, LeaseStates
    <3> QED
      BY <3>1, <3>2 DEF BecomeOwner, TakeLease
  <2>2. /\ st' \in [Sessions -> SessionStates]
        /\ fence' \in [Sessions -> Nat]
        /\ beat' \in [Sessions -> {"off", "on", "stopping", "error"}]
    BY <1>0, <1>2 DEF BecomeOwner, IInv, TypeOK, SessionStates, LeaseRow
  <2> QED
    BY <2>1, <2>2 DEF IInv, TypeOK
<1>7. OneActivePerScope'
  BY <1>4, <1>5 DEF IInv, OneActivePerScope
<1>8. OwnerHoldsHandle'
  <2> SUFFICES ASSUME NEW j \in Keys
               PROVE  LET o == lease'[j].owner IN
                      /\ lease'[j].state = "ABSENT" \/ o \in Sessions
                      /\ o \in Sessions =>
                           KeyOf[o] = j /\ fence'[o] = lease'[j].fence /\ st'[o] \notin Handless
    BY DEF OwnerHoldsHandle
  <2>1. CASE j = k
    BY <2>1, <1>0, <1>2 DEF IInv, TypeOK
  <2>2. CASE j # k
    <3>1. /\ lease'[j].owner = lease[j].owner /\ lease'[j].fence = lease[j].fence
          /\ lease[j].state = "ABSENT" => lease'[j].state = "ABSENT"
      BY <2>2, <1>3
    <3>2. lease[j].owner # s
      BY <1>1
    <3>3. \A o \in Sessions \ {s} : fence'[o] = fence[o] /\ st'[o] = st[o]
      BY <1>2 DEF IInv, TypeOK
    <3> QED
      BY <3>1, <3>2, <3>3 DEF IInv, OwnerHoldsHandle
  <2> QED
    BY <2>1, <2>2
<1>9. CallsCovered'
  <2> SUFFICES ASSUME NEW t \in Sessions, call[t] > 0
               PROVE  HolderOf(t)' /\ call[t] <= lease'[KeyOf[t]].left /\ call[t] <= clock[t]
    BY DEF CallsCovered
  <2>1. HolderOf(t) /\ call[t] <= lease[KeyOf[t]].left /\ call[t] <= clock[t] /\ KeyOf[t] \in Keys
    BY SessionAssumption DEF IInv, CallsCovered
  <2>2. t # s
    BY <2>1, <1>1 DEF HolderOf, Holds
  <2>3. ScopeOf[KeyOf[t]] # ScopeOf[k] /\ KeyOf[t] # k
    BY <2>1, <1>0, ClaimInQuietScope DEF IInv, HolderOf, Holds
  <2>4. lease'[KeyOf[t]] = lease[KeyOf[t]] /\ fence'[t] = fence[t]
    BY <2>1, <2>2, <2>3, <1>2, <1>3 DEF ClosedIfExpired, IInv, TypeOK
  <2> QED
    BY <2>1, <2>4 DEF HolderOf, Holds, Running, Live
<1>10. ResultIsTheHolders'
  <2> SUFFICES ASSUME NEW j \in Keys, lease'[j].state = "COMPLETED"
               PROVE  LET o == lease'[j].result IN
                      /\ o \in Sessions /\ o = lease'[j].owner
                      /\ KeyOf[o] = j /\ fence'[o] = lease'[j].fence
    BY DEF ResultIsTheHolders
  <2>1. j # k
    BY <1>2
  <2>2. lease[j].state = "COMPLETED" /\ lease[j].result # s
    BY <2>1, <1>1, <1>3 DEF IInv, ResultIsTheHolders
  <2> QED
    BY <2>1, <2>2, <1>2, <1>3 DEF IInv, TypeOK, ResultIsTheHolders
<1> QED
  BY <1>6, <1>7, <1>8, <1>9, <1>10 DEF IInv

(* Every other step leaves the owners and fencing tokens of the rows alone,  *)
(* starts no lease, and shares as a result only the owner's own.  The        *)
(* invariant is then kept if the calls stay covered.                         *)
LEMMA SameOwnersStep ==
    ASSUME IInv, TypeOK', CallsCovered', UNCHANGED fence,
           \A j \in Keys :
             /\ lease'[j].owner = lease[j].owner /\ lease'[j].fence = lease[j].fence
             /\ lease'[j].state = "ACTIVE" => lease[j].state = "ACTIVE"
             /\ lease[j].state = "ABSENT" => lease'[j].state = "ABSENT"
             /\ lease'[j].state = "COMPLETED" => lease'[j].result = lease[j].owner,
           \A t \in Sessions : st'[t] \in Handless => st[t] \in Handless
    PROVE  IInv'
<1>1. OneActivePerScope'
  BY DEF IInv, OneActivePerScope
<1>2. OwnerHoldsHandle'
  BY DEF IInv, OwnerHoldsHandle
<1>3. ResultIsTheHolders'
  <2> SUFFICES ASSUME NEW j \in Keys, lease'[j].state = "COMPLETED"
               PROVE  LET o == lease'[j].result IN
                      /\ o \in Sessions /\ o = lease'[j].owner
                      /\ KeyOf[o] = j /\ fence'[o] = lease'[j].fence
    BY DEF ResultIsTheHolders
  <2>1. lease[j].state # "ABSENT" /\ lease'[j].result = lease[j].owner
    OBVIOUS
  <2> QED
    BY <2>1 DEF IInv, OwnerHoldsHandle
<1> QED
  BY <1>1, <1>2, <1>3 DEF IInv

(* A result in the table is its row's owner's.                               *)
LEMMA ResultOfOwner ==
    ASSUME IInv, NEW j \in Keys, lease[j].state = "COMPLETED"
    PROVE  lease[j].result = lease[j].owner
  BY DEF IInv, ResultIsTheHolders

(* Steps of a session's thread that touch neither the table nor the calls.   *)
LEMMA ThreadStep ==
    ASSUME IInv, TypeOK', UNCHANGED <<lease, fence, clock>>,
           \A t \in Sessions : call'[t] = call[t] \/ call'[t] = 0,
           \A t \in Sessions : st'[t] \in Handless => st[t] \in Handless
    PROVE  IInv'
<1>1. CallsCovered'
  BY DEF IInv, CallsCovered, HolderOf, Holds, Running, Live
<1> QED
  BY <1>1, SameOwnersStep, ResultOfOwner

(* A waiting session closes what expired in its scope: no row that covers a  *)
(* call is among those.                                                      *)
LEMMA CloseExpiredStep ==
    ASSUME IInv, NEW k \in Keys, CloseExpired(k), UNCHANGED <<fence, clock, call, beat, abandoned, revoked>>,
           st' \in [Sessions -> SessionStates],
           \A t \in Sessions : st'[t] \in Handless => st[t] \in Handless
    PROVE  IInv'
<1>1. \A j \in Keys : lease'[j] = ClosedIfExpired(j, k)
  BY DEF CloseExpired
<1>2. TypeOK'
  BY <1>1, ClosedRow DEF CloseExpired, IInv, TypeOK
<1>3. \A j \in Keys : Running(j) => lease'[j] = lease[j]
  BY <1>1 DEF ClosedIfExpired, Running
<1>4. CallsCovered'
  BY <1>3, SessionAssumption DEF IInv, CallsCovered, HolderOf, Holds, Running, Live
<1>5. \A j \in Keys :
         /\ lease'[j].owner = lease[j].owner /\ lease'[j].fence = lease[j].fence
         /\ lease'[j].state = "ACTIVE" => lease[j].state = "ACTIVE"
         /\ lease[j].state = "ABSENT" => lease'[j].state = "ABSENT"
         /\ lease'[j].state = "COMPLETED" => lease'[j].result = lease[j].owner
  BY <1>1, ClosedRow, ResultOfOwner DEF IInv
<1> QED
  BY <1>2, <1>4, <1>5, SameOwnersStep

(* Two sessions never hold the same key: a row has one owner.                *)
LEMMA OneHolder ==
    ASSUME NEW s \in Sessions, NEW t \in Sessions, HolderOf(s), HolderOf(t), KeyOf[s] = KeyOf[t]
    PROVE  s = t
  BY DEF HolderOf, Holds

(* A heartbeat, or the refresh before a call, covers the longest call and    *)
(* stays within the request's deadline.                                      *)
LEMMA ExtendStep ==
    ASSUME IInv, NEW s \in Sessions, HolderOf(s), Extend(KeyOf[s], OwnerTtl(s)),
           UNCHANGED <<st, fence, clock, abandoned, revoked>>,
           beat' \in [Sessions -> {"off", "on", "stopping", "error"}],
           \/ UNCHANGED call
           \/ clock[s] > Grace /\ call' = [call EXCEPT ![s] = CallTicks]
    PROVE  IInv'
<1> DEFINE k == KeyOf[s]
<1>0. k \in Keys /\ OwnerTtl(s) \in 0..LeaseTtl
  BY OwnerTtlBounded, SessionAssumption DEF IInv
<1>1. /\ \A j \in Keys \ {k} : lease'[j] = lease[j]
      /\ lease'[k] = [lease[k] EXCEPT !.left = OwnerTtl(s)]
  BY <1>0 DEF Extend, IInv, TypeOK
<1>2. /\ lease'[k].state = lease[k].state /\ lease'[k].owner = lease[k].owner
      /\ lease'[k].fence = lease[k].fence /\ lease'[k].result = lease[k].result
      /\ lease'[k].left = OwnerTtl(s) /\ lease'[k] \in LeaseRow
  BY <1>0, <1>1 DEF IInv, TypeOK, LeaseRow
<1>3. TypeOK'
  <2>1. lease' \in [Keys -> LeaseRow]
    BY <1>0, <1>1, <1>2 DEF Extend, IInv, TypeOK
  <2>2. call' \in [Sessions -> 0..CallTicks]
    BY SessionAssumption, LeaseAssumption DEF IInv, TypeOK
  <2> QED
    BY <2>1, <2>2 DEF IInv, TypeOK
<1>4. CallsCovered'
  <2> SUFFICES ASSUME NEW t \in Sessions, call'[t] > 0
               PROVE  HolderOf(t)' /\ call'[t] <= lease'[KeyOf[t]].left /\ call'[t] <= clock[t]
    BY DEF CallsCovered
  <2>1. CASE t = s
    <3>1. call'[s] <= clock[s] /\ call'[s] <= LeaseTtl
      BY <2>1, SessionAssumption, LeaseAssumption DEF IInv, TypeOK, CallsCovered
    <3>2. call'[s] <= OwnerTtl(s)
      BY <3>1 DEF OwnerTtl, BoundedTtl
    <3>3. OwnerTtl(s) > 0
      BY <3>2, <2>1, <1>0, <1>3, LeaseAssumption, SessionAssumption DEF TypeOK
    <3> QED
      BY <2>1, <3>1, <3>2, <3>3, <1>2 DEF HolderOf, Holds, Running, Live
  <2>2. CASE t # s
    <3>1. call'[t] = call[t]
      BY <2>2 DEF IInv, TypeOK
    <3>2. /\ HolderOf(t) /\ KeyOf[t] # k /\ KeyOf[t] \in Keys
          /\ call[t] <= lease[KeyOf[t]].left /\ call[t] <= clock[t]
      BY <2>2, <3>1, OneHolder, SessionAssumption DEF IInv, CallsCovered
    <3>3. lease'[KeyOf[t]] = lease[KeyOf[t]]
      BY <3>2, <1>1
    <3>4. HolderOf(t)'
      BY <3>2, <3>3 DEF HolderOf, Holds, Running, Live
    <3> QED
      BY <3>1, <3>2, <3>3, <3>4
  <2> QED
    BY <2>1, <2>2
<1>5. \A j \in Keys :
         /\ lease'[j].owner = lease[j].owner /\ lease'[j].fence = lease[j].fence
         /\ lease'[j].state = "ACTIVE" => lease[j].state = "ACTIVE"
         /\ lease[j].state = "ABSENT" => lease'[j].state = "ABSENT"
         /\ lease'[j].state = "COMPLETED" => lease'[j].result = lease[j].owner
  <2> TAKE j \in Keys
  <2>1. /\ lease'[j].state = lease[j].state /\ lease'[j].owner = lease[j].owner
        /\ lease'[j].fence = lease[j].fence /\ lease'[j].result = lease[j].result
    BY <1>1, <1>2
  <2> QED
    BY <2>1, ResultOfOwner
<1>6. \A t \in Sessions : st'[t] \in Handless => st[t] \in Handless
  OBVIOUS
<1> QED
  BY <1>6, <1>3, <1>4, <1>5, SameOwnersStep

(* The holder ends its generation, by a result or a failure, once its calls  *)
(* are over: no other session's call ran under that row.                     *)
LEMMA FinishStep ==
    ASSUME IInv, NEW s \in Sessions, HolderOf(s), call[s] = 0,
           Publish(s, KeyOf[s]) \/ ShareFailure(KeyOf[s]),
           UNCHANGED <<fence, clock, call, abandoned, revoked>>,
           st' \in [Sessions -> SessionStates],
           beat' \in [Sessions -> {"off", "on", "stopping", "error"}],
           \A t \in Sessions : st'[t] \in Handless => st[t] \in Handless
    PROVE  IInv'
<1> DEFINE k == KeyOf[s]
<1>0. k \in Keys /\ lease[k].state = "ACTIVE" /\ lease[k].owner = s
  BY SessionAssumption DEF HolderOf, Holds, Running
<1>1. \A j \in Keys \ {k} : lease'[j] = lease[j]
  BY <1>0 DEF Publish, ShareFailure, IInv, TypeOK
<1>2. /\ lease'[k].owner = s /\ lease'[k].fence = lease[k].fence
      /\ lease'[k].state \in {"COMPLETED", "FAILED"} /\ lease'[k] \in LeaseRow
      /\ lease'[k].state = "COMPLETED" => lease'[k].result = s
  BY <1>0, LeaseAssumption DEF Publish, ShareFailure, IInv, TypeOK, LeaseRow, LeaseStates
<1>3. TypeOK'
  BY <1>0, <1>1, <1>2 DEF Publish, ShareFailure, IInv, TypeOK
<1>4. CallsCovered'
  <2> SUFFICES ASSUME NEW t \in Sessions, call[t] > 0
               PROVE  HolderOf(t)' /\ call[t] <= lease'[KeyOf[t]].left /\ call[t] <= clock[t]
    BY DEF CallsCovered
  <2>1. /\ HolderOf(t) /\ KeyOf[t] # k /\ KeyOf[t] \in Keys
        /\ call[t] <= lease[KeyOf[t]].left /\ call[t] <= clock[t]
    BY OneHolder, SessionAssumption DEF IInv, CallsCovered
  <2>2. lease'[KeyOf[t]] = lease[KeyOf[t]]
    BY <2>1, <1>1
  <2> QED
    BY <2>1, <2>2 DEF HolderOf, Holds, Running, Live
<1>5. \A j \in Keys :
         /\ lease'[j].owner = lease[j].owner /\ lease'[j].fence = lease[j].fence
         /\ lease'[j].state = "ACTIVE" => lease[j].state = "ACTIVE"
         /\ lease[j].state = "ABSENT" => lease'[j].state = "ABSENT"
         /\ lease'[j].state = "COMPLETED" => lease'[j].result = lease[j].owner
  BY <1>0, <1>1, <1>2, ResultOfOwner
<1> QED
  BY <1>3, <1>4, <1>5, SameOwnersStep

(* A quarantine expires a COMPLETED row, under which nothing is called.      *)
LEMMA QuarantineStep ==
    ASSUME IInv, NEW s \in Sessions, Quarantine(s)
    PROVE  IInv'
<1> DEFINE k == KeyOf[s]
<1>0. k \in Keys
  BY SessionAssumption
<1>1. \A j \in Keys :
         /\ lease'[j].state = lease[j].state /\ lease'[j].owner = lease[j].owner
         /\ lease'[j].fence = lease[j].fence /\ lease'[j].result = lease[j].result
         /\ lease'[j] \in LeaseRow
         /\ lease[j].state # "COMPLETED" => lease'[j].left = lease[j].left
  BY <1>0, LeaseAssumption DEF Quarantine, QuarantineCompleted, IInv, TypeOK, LeaseRow
<1>2. /\ st' \in [Sessions -> SessionStates]
      /\ \A t \in Sessions : st'[t] \in Handless => st[t] \in Handless
  BY DEF Quarantine, Enter, IInv, TypeOK, SessionStates
<1>3. TypeOK'
  BY <1>1, <1>2 DEF Quarantine, QuarantineCompleted, IInv, TypeOK
<1>4. CallsCovered'
  BY <1>1, SessionAssumption DEF Quarantine, IInv, CallsCovered, HolderOf, Holds, Running, Live
<1>5. UNCHANGED fence
  BY DEF Quarantine
<1> QED
  BY <1>1, <1>2, <1>3, <1>4, <1>5, SameOwnersStep, ResultOfOwner

(* The lease, the deadline and the longest call run down together.           *)
LEMMA TickStep ==
    ASSUME IInv, Tick
    PROVE  IInv'
<1>1. \A j \in Keys :
         /\ lease'[j].state = lease[j].state /\ lease'[j].owner = lease[j].owner
         /\ lease'[j].fence = lease[j].fence /\ lease'[j].result = lease[j].result
         /\ lease'[j] \in LeaseRow
         /\ lease'[j].left = IF lease[j].left > 0 THEN lease[j].left - 1 ELSE 0
  BY LeaseAssumption DEF Tick, LeaseTick, IInv, TypeOK, LeaseRow
<1>2. \A t \in Sessions :
         /\ clock'[t] = Less(clock[t]) /\ clock'[t] \in 0..OwnerMax
         /\ call'[t] = Less(call[t]) /\ call'[t] \in 0..CallTicks
  BY LeaseAssumption, SessionAssumption DEF Tick, Less, IInv, TypeOK
<1>3. TypeOK'
  BY <1>1, <1>2 DEF Tick, LeaseTick, IInv, TypeOK
<1>4. CallsCovered'
  <2> SUFFICES ASSUME NEW t \in Sessions, call'[t] > 0
               PROVE  HolderOf(t)' /\ call'[t] <= lease'[KeyOf[t]].left /\ call'[t] <= clock'[t]
    BY DEF CallsCovered
  <2>1. call[t] \in Nat /\ call'[t] = call[t] - 1 /\ call[t] > 1
    BY <1>2, SessionAssumption, LeaseAssumption DEF Less, IInv, TypeOK
  <2>2. /\ HolderOf(t) /\ call[t] <= lease[KeyOf[t]].left /\ call[t] <= clock[t]
        /\ KeyOf[t] \in Keys
    BY <2>1, SessionAssumption DEF IInv, CallsCovered
  <2>3. lease[KeyOf[t]].left \in Nat /\ clock[t] \in Nat
    BY <2>2, SessionAssumption, LeaseAssumption DEF IInv, TypeOK, LeaseRow
  <2>4. /\ lease'[KeyOf[t]].left = lease[KeyOf[t]].left - 1
        /\ clock'[t] = clock[t] - 1
    BY <2>1, <2>2, <2>3, <1>1, <1>2 DEF Less
  <2>5. HolderOf(t)'
    BY <2>1, <2>2, <2>3, <2>4, <1>1 DEF HolderOf, Holds, Running, Live, Tick
  <2> QED
    BY <2>1, <2>2, <2>3, <2>4, <2>5
<1>5. UNCHANGED <<fence, st>>
  BY DEF Tick
<1> QED
  BY <1>1, <1>3, <1>4, <1>5, SameOwnersStep, ResultOfOwner

-----------------------------------------------------------------------------
(* Every action of every session keeps the invariant.                        *)
LEMMA IInvStep == IInv /\ PreparationFits /\ [Next]_vars => IInv'
<1> SUFFICES ASSUME IInv, PreparationFits, [Next]_vars PROVE IInv'
  OBVIOUS
<1> USE DEF Enter
<1>1. ASSUME NEW s \in Sessions, Create(s) \/ Prepare(s) PROVE IInv'
  <2>0. /\ st[s] = "absent" /\ UNCHANGED <<lease, fence, call>>
        /\ \A t \in Sessions : st'[t] \in Handless => st[t] \in Handless
    BY <1>1, SessionAssumption DEF Create, Prepare, Polls, IInv, TypeOK
  <2>1. TypeOK'
    BY <1>1, SessionAssumption DEF Create, Prepare, IInv, TypeOK, SessionStates
  <2>2. ~HolderOf(s)
    BY <2>0, SessionAssumption DEF IInv, OwnerHoldsHandle, HolderOf, Holds
  <2>3. \A t \in Sessions \ {s} : clock'[t] = clock[t]
    BY <1>1 DEF Create, Prepare, IInv, TypeOK
  <2>4. \A t \in Sessions : HolderOf(t)' <=> HolderOf(t)
    BY <2>0 DEF HolderOf, Holds, Running, Live
  <2>5. CallsCovered'
    BY <2>0, <2>2, <2>3, <2>4 DEF IInv, CallsCovered
  <2> QED
    BY <2>0, <2>1, <2>5, SameOwnersStep, ResultOfOwner
<1>2. ASSUME NEW s \in Sessions, Coordinate(s) PROVE IInv'
  <2>1. KeyOf[s] \in Keys /\ Polls(s) /\ UNCHANGED <<clock, call, abandoned, revoked>>
    BY <1>2, SessionAssumption DEF Coordinate
  <2>2. CASE (Claims(KeyOf[s]) \/ Disposition(KeyOf[s]) = "COMPLETED") /\ BecomeOwner(s)
    BY <2>1, <2>2, BecomeOwnerStep
  <2>3. CASE CloseExpired(KeyOf[s]) /\ Enter(s, "reused") /\ UNCHANGED <<fence, beat>>
    <3>1. /\ st' \in [Sessions -> SessionStates]
          /\ \A t \in Sessions : st'[t] \in Handless => st[t] \in Handless
      BY <2>3 DEF IInv, TypeOK, SessionStates
    <3> QED
      BY <2>1, <2>3, <3>1, CloseExpiredStep
  <2>4. CASE Enter(s, "failed") /\ UNCHANGED <<lease, fence, beat>>
    <3>1. /\ TypeOK'
          /\ \A t \in Sessions : st'[t] \in Handless => st[t] \in Handless
      BY <2>1, <2>4 DEF IInv, TypeOK, SessionStates
    <3> QED
      BY <2>1, <2>4, <3>1, ThreadStep
  <2> QED
    BY <1>2, <2>2, <2>3, <2>4 DEF Coordinate
<1>3. ASSUME NEW s \in Sessions, StillWaiting(s) PROVE IInv'
  <2>1. KeyOf[s] \in Keys /\ st' \in [Sessions -> SessionStates]
    BY <1>3, SessionAssumption DEF StillWaiting, session, IInv, TypeOK
  <2> QED
    BY <1>3, <2>1, CloseExpiredStep DEF StillWaiting, session
<1>4. ASSUME NEW s \in Sessions, CoordinateFails(s) \/ WaitEnds(s) \/ ConfirmReceipt(s) PROVE IInv'
  <2>1. /\ TypeOK'
        /\ \A t \in Sessions : st'[t] \in Handless => st[t] \in Handless
    BY <1>4 DEF CoordinateFails, WaitEnds, ConfirmReceipt, Exit, IInv, TypeOK, SessionStates
  <2> QED
    BY <1>4, <2>1, ThreadStep DEF CoordinateFails, WaitEnds, ConfirmReceipt
<1>5. ASSUME NEW s \in Sessions, Beat(s) PROVE IInv'
  <2>1. /\ beat' \in [Sessions -> {"off", "on", "stopping", "error"}]
        /\ UNCHANGED <<st, fence, clock, call, abandoned, revoked>>
    BY <1>5 DEF Beat, BeatEnds, IInv, TypeOK
  <2>2. CASE HolderOf(s) /\ Extend(KeyOf[s], OwnerTtl(s))
    BY <2>1, <2>2, ExtendStep
  <2>3. CASE UNCHANGED lease
    <3>1. TypeOK'
      BY <2>1, <2>3 DEF IInv, TypeOK
    <3> QED
      BY <2>1, <2>3, <3>1, ThreadStep
  <2> QED
    BY <1>5, <2>2, <2>3 DEF Beat
<1>6. ASSUME NEW s \in Sessions, SendProvider(s) PROVE IInv'
  <2>1. beat' \in [Sessions -> {"off", "on", "stopping", "error"}]
    BY <1>6 DEF SendProvider, IInv, TypeOK
  <2> QED
    BY <1>6, <2>1, ExtendStep DEF SendProvider, MaySend
<1>7. ASSUME NEW s \in Sessions, ProviderReturns(s) \/ Abandon(s) \/ Crash(s) \/ CompleteRefused(s) PROVE IInv'
  <2>1. /\ TypeOK'
        /\ \A t \in Sessions : st'[t] \in Handless => st[t] \in Handless
        /\ \A t \in Sessions : call'[t] = call[t] \/ call'[t] = 0
    BY <1>7, SessionAssumption, LeaseAssumption
    DEF ProviderReturns, Abandon, Crash, CompleteRefused, StopBeat, StopBeats, Roles,
        IInv, TypeOK, SessionStates
  <2> QED
    BY <1>7, <2>1, ThreadStep DEF ProviderReturns, Abandon, Crash, CompleteRefused
<1>8. ASSUME NEW s \in Sessions, Complete(s) \/ Fail(s) PROVE IInv'
  <2>1. /\ st' \in [Sessions -> SessionStates]
        /\ beat' \in [Sessions -> {"off", "on", "stopping", "error"}]
        /\ \A t \in Sessions : st'[t] \in Handless => st[t] \in Handless
    BY <1>8 DEF Complete, Fail, StopBeat, StopBeats, IInv, TypeOK, SessionStates
  <2>2. call[s] = 0 /\ UNCHANGED <<fence, clock, call, abandoned, revoked>>
    BY <1>8 DEF Complete, Fail
  <2>3. CASE HolderOf(s) /\ (Publish(s, KeyOf[s]) \/ ShareFailure(KeyOf[s]))
    BY <2>1, <2>2, <2>3, FinishStep
  <2>4. CASE UNCHANGED lease
    <3>1. TypeOK'
      BY <2>1, <2>2, <2>4 DEF IInv, TypeOK
    <3> QED
      BY <2>1, <2>2, <2>4, <3>1, ThreadStep
  <2> QED
    BY <1>8, <2>3, <2>4 DEF Complete, Fail, Finishes
<1>11. ASSUME NEW p \in Sessions, PreparationTurn(p) PROVE IInv'
  <2>1. /\ KeyOf[p] \in Keys /\ Polls(p) /\ p \in Preparing
        /\ UNCHANGED <<clock, call, abandoned, revoked>>
    BY <1>11, SessionAssumption DEF PreparationTurn
  <2>2. CASE Claims(KeyOf[p]) /\ BecomeOwner(p)
    BY <2>1, <2>2, BecomeOwnerStep
  <2>3. CASE /\ CloseExpired(KeyOf[p]) /\ UNCHANGED <<fence, beat>>
             /\ st' = [st EXCEPT ![p] = "reused", ![RequestOf[p]] = "new"]
    <3>1. st[RequestOf[p]] = "preparing" /\ RequestOf[p] \in Sessions
      BY <2>1, SessionAssumption DEF PreparationFits, Polls
    <3>2. /\ st' \in [Sessions -> SessionStates]
          /\ \A t \in Sessions : st'[t] \in Handless => st[t] \in Handless
      BY <2>1, <2>3, <3>1 DEF IInv, TypeOK, SessionStates
    <3> QED
      BY <2>1, <2>3, <3>2, CloseExpiredStep
  <2> QED
    BY <1>11, <2>2, <2>3 DEF PreparationTurn
<1>12. ASSUME NEW p \in Sessions, EndPreparation(p) PROVE IInv'
  <2>1. /\ p \in Preparing /\ RequestOf[p] \in Sessions /\ KeyOf[p] \in Keys
        /\ st[p] = "owner" /\ st[RequestOf[p]] = "preparing"
    BY <1>12, SessionAssumption DEF EndPreparation, PreparationFits
  <2>2. /\ st' \in [Sessions -> SessionStates]
        /\ beat' \in [Sessions -> {"off", "on", "stopping", "error"}]
        /\ \A t \in Sessions : st'[t] \in Handless => st[t] \in Handless
        /\ call[p] = 0 /\ UNCHANGED <<fence, clock, call, abandoned, revoked>>
    BY <1>12, <2>1 DEF EndPreparation, IInv, TypeOK, SessionStates
  <2>3. CASE HolderOf(p) /\ ShareFailure(KeyOf[p])
    BY <2>2, <2>3, FinishStep
  <2>4. CASE UNCHANGED lease
    <3>1. TypeOK'
      BY <2>2, <2>4 DEF IInv, TypeOK
    <3> QED
      BY <2>2, <2>4, <3>1, ThreadStep
  <2> QED
    BY <1>12, <2>3, <2>4 DEF EndPreparation
<1>9. ASSUME NEW s \in Sessions, RevokeAuthority(s) PROVE IInv'
  <2>1. TypeOK'
    BY <1>9 DEF RevokeAuthority, session, IInv, TypeOK
  <2> QED
    BY <1>9, <2>1, ThreadStep DEF RevokeAuthority, session
<1>10. CASE UNCHANGED vars
  <2>1. TypeOK'
    BY <1>10 DEF vars, session, IInv, TypeOK
  <2> QED
    BY <1>10, <2>1, ThreadStep DEF vars, session
<1> QED
  BY <1>1, <1>2, <1>3, <1>4, <1>5, <1>6, <1>7, <1>8, <1>9, <1>10, <1>11, <1>12,
     TickStep, QuarantineStep DEF Next

(* A request waits in its preparation until that ends, whatever else of it   *)
(* or of others goes on.                                                     *)
LEMMA FitsStep == TypeOK /\ PreparationFits /\ [Next]_vars => PreparationFits'
<1> SUFFICES ASSUME TypeOK, PreparationFits, [Next]_vars PROVE PreparationFits'
  OBVIOUS
<1>0. \A p \in Preparing : p \in Sessions /\ RequestOf[p] \in Sessions /\ RequestOf[p] \notin Preparing
  BY SessionAssumption
<1>1. CASE UNCHANGED st
  BY <1>1 DEF PreparationFits
\* A request or a preparation that waits for nothing of its own moves.
<1>2. ASSUME NEW s \in Sessions, NEW to, Enter(s, to), st[s] # "preparing",
             s \in Preparing => st[s] \in {"new", "owner"} \/ to \notin {"new", "owner"}
      PROVE  PreparationFits'
  BY <1>0, <1>2 DEF Enter, TypeOK, PreparationFits
<1>3. ASSUME NEW s \in Sessions, NEW to \in {"left", "cancelled", "timed_out"},
             Exit(s, to), st[s] = "new"
      PROVE  PreparationFits'
  BY <1>0, <1>3 DEF Exit, TypeOK, PreparationFits
<1>4. ASSUME NEW s \in Sessions, Prepare(s) PROVE PreparationFits'
  BY <1>0, <1>4 DEF Prepare, Polls, TypeOK, PreparationFits
<1>5. ASSUME NEW s \in Sessions, PreparationTurn(s) PROVE PreparationFits'
  <2>1. CASE Enter(s, "owner")
    BY <1>2, <1>5, <2>1 DEF PreparationTurn, Polls
  <2>2. CASE st' = [st EXCEPT ![s] = "reused", ![RequestOf[s]] = "new"]
    BY <1>0, <1>5, <2>2 DEF PreparationTurn, Polls, TypeOK, PreparationFits
  <2> QED
    BY <1>5, <2>1, <2>2 DEF PreparationTurn, BecomeOwner
<1>6. ASSUME NEW s \in Sessions, EndPreparation(s) PROVE PreparationFits'
  BY <1>0, <1>6 DEF EndPreparation, TypeOK, PreparationFits
<1>7. ASSUME NEW s \in Sessions, Crash(s) PROVE PreparationFits'
  BY <1>0, <1>7 DEF Crash, Roles, TypeOK, PreparationFits
<1>8. ASSUME NEW s \in Sessions, Create(s) \/ Coordinate(s) PROVE PreparationFits'
  <2>1. s \notin Preparing /\ st[s] \in {"absent", "new"}
    BY <1>8 DEF Create, Coordinate, Polls, Requests
  <2>2. \E to \in {"new", "owner", "reused", "failed"} : Enter(s, to)
    BY <1>8 DEF Create, Coordinate, BecomeOwner
  <2> QED
    BY <1>2, <2>1, <2>2
<1>9. ASSUME NEW s \in Sessions, CoordinateFails(s) \/ WaitEnds(s) PROVE PreparationFits'
  BY <1>3, <1>9 DEF CoordinateFails, WaitEnds, Polls
<1>10. ASSUME NEW s \in Sessions,
              Complete(s) \/ CompleteRefused(s) \/ Fail(s) \/ ConfirmReceipt(s) \/ Quarantine(s)
       PROVE  PreparationFits'
  <2>1. st[s] # "preparing"
    BY <1>10 DEF Complete, CompleteRefused, Fail, ConfirmReceipt, Quarantine, Owns
  <2>2. \E to \in {"confirming", "overtaken", "left", "failed", "completed", "disowning",
                    "quarantining"} : Enter(s, to)
    BY <1>10 DEF Complete, CompleteRefused, Fail, ConfirmReceipt, Quarantine
  <2> QED
    BY <1>2, <2>1, <2>2
<1>11. ASSUME NEW s \in Sessions,
              \/ StillWaiting(s) \/ Beat(s) \/ SendProvider(s) \/ ProviderReturns(s)
              \/ Abandon(s) \/ RevokeAuthority(s)
       PROVE  PreparationFits'
  BY <1>1, <1>11
  DEF StillWaiting, Beat, SendProvider, ProviderReturns, Abandon, RevokeAuthority, session
<1>12. CASE Tick \/ UNCHANGED vars
  BY <1>1, <1>12 DEF Tick, vars, session
<1> QED
  BY <1>4, <1>5, <1>6, <1>7, <1>8, <1>9, <1>10, <1>11, <1>12 DEF Next

(* The invariant holds in every reachable state.                             *)
THEOREM SessionInvariant == Spec => [](IInv /\ PreparationFits)
<1>1. Init => IInv /\ PreparationFits
  BY LeaseAssumption, SessionAssumption
  DEF Init, LeaseInit, NoLease, IInv, TypeOK, LeaseRow, LeaseStates, SessionStates,
      OneActivePerScope, OwnerHoldsHandle, CallsCovered, ResultIsTheHolders, PreparationFits
<1>2. IInv => TypeOK
  BY DEF IInv
<1> QED
  BY <1>1, <1>2, IInvStep, FitsStep, PTL DEF Spec

(* The sessions and the table only hold values of their types.               *)
THEOREM SessionTypeOK == Spec => []TypeOK
  BY SessionInvariant, PTL DEF IInv

(* acquire keeps one ACTIVE row per cost scope without help of the index.    *)
THEOREM SessionOneActivePerScope == Spec => []OneActivePerScope
  BY SessionInvariant, PTL DEF IInv

(* Waiters are given results of the key's last holder only.                  *)
THEOREM SessionResultIsTheHolders == Spec => []ResultIsTheHolders
  BY SessionInvariant, PTL DEF IInv

(* Two sessions never call providers for the same scope at the same time.    *)
THEOREM SessionCallsInOneHand == Spec => []CallsInOneHand
<1>1. IInv => CallsInOneHand
  <2> SUFFICES ASSUME IInv, NEW s \in Sessions, NEW t \in Sessions,
                      call[s] > 0, call[t] > 0, ScopeOf[KeyOf[s]] = ScopeOf[KeyOf[t]]
               PROVE  s = t
    BY DEF CallsInOneHand
  <2>1. HolderOf(s) /\ HolderOf(t) /\ KeyOf[s] \in Keys /\ KeyOf[t] \in Keys
    BY SessionAssumption DEF IInv, CallsCovered
  <2>2. KeyOf[s] = KeyOf[t]
    BY <2>1 DEF IInv, OneActivePerScope, HolderOf, Holds, Running
  <2> QED
    BY <2>1, <2>2, OneHolder
<1> QED
  BY <1>1, SessionInvariant, PTL

-----------------------------------------------------------------------------
(* How the rows of the table go on. A handle's token is never newer than    *)
(* its row, and a row nobody ever held has no time left.                    *)
HandlesAreOld ==
    /\ \A s \in Sessions : fence[s] <= lease[KeyOf[s]].fence
    /\ \A k \in Keys : lease[k].state = "ABSENT" => lease[k].left = 0

\* The row keeps its token; a result that is there stays.
Kept(k) ==
    /\ lease'[k].fence = lease[k].fence
    /\ lease[k].state = "COMPLETED" =>
         lease'[k].state = "COMPLETED" /\ lease'[k].result = lease[k].result
    /\ lease'[k].state = "ABSENT" => lease[k].state = "ABSENT"
    /\ lease[k].state = "ABSENT" /\ lease[k].left = 0 => lease'[k].left = 0

\* The row is given to s, with the next token.
Taken(s) ==
    LET k == KeyOf[s] IN
    /\ lease'[k].state = "ACTIVE" /\ lease'[k].fence = lease[k].fence + 1
    /\ Claims(k) \/ (lease[k].state = "COMPLETED" /\ lease[k].result \in revoked)
    /\ fence' = [fence EXCEPT ![s] = lease[k].fence + 1]
    /\ st' = [st EXCEPT ![s] = "owner"]
    /\ \A j \in Keys \ {k} : Kept(j)

\* No session learns a token, and who reports success has read its receipt.
Continued ==
    /\ UNCHANGED fence
    /\ \A k \in Keys : Kept(k)
    /\ \A s \in Sessions : st'[s] = "completed" =>
         st[s] = "completed" \/ (ReceiptOf(s, KeyOf[s]) /\ UNCHANGED lease)

(* Closing what expired in a scope keeps every row.                         *)
LEMMA ClosedIsKept ==
    ASSUME TypeOK, NEW j \in Keys, NEW k \in Keys, lease'[j] = ClosedIfExpired(j, k)
    PROVE  Kept(j)
  BY ClosedRow DEF Kept, ClosedIfExpired

(* A step on the one row of a session that is its ACTIVE owner, or on a row  *)
(* whose state and result stay.                                             *)
LEMMA OneRowStep ==
    ASSUME IInv, NEW k \in Keys,
           \A j \in Keys \ {k} : lease'[j] = lease[j],
           lease'[k].fence = lease[k].fence,
           \/ lease[k].state = "ACTIVE" /\ lease'[k].state # "ABSENT"
           \/ lease[k].state # "ABSENT"
              /\ lease'[k].state = lease[k].state /\ lease'[k].result = lease[k].result
           \/ lease'[k] = lease[k],
           UNCHANGED fence,
           \A t \in Sessions : st'[t] = "completed" => st[t] = "completed"
    PROVE  Continued
<1>1. \A j \in Keys : Kept(j)
  BY DEF Kept
<1> QED
  BY <1>1 DEF Continued

(* Every step gives one row to a session or lets all of them go on.         *)
LEMMA RowsGoOn ==
    ASSUME IInv, Next
    PROVE  Continued \/ \E s \in Sessions : Taken(s)
<1>0. \A s \in Sessions : KeyOf[s] \in Keys
  BY SessionAssumption
<1>1. ASSUME NEW s \in Sessions, Coordinate(s) PROVE Continued \/ Taken(s)
  <2> DEFINE k == KeyOf[s]
  <2>1. CASE BecomeOwner(s)
             /\ (Claims(k) \/ (Disposition(k) = "COMPLETED" /\ lease[k].result \in revoked))
    <3>1. /\ lease'[k].state = "ACTIVE" /\ lease'[k].fence = lease[k].fence + 1
          /\ fence' = [fence EXCEPT ![s] = lease[k].fence + 1]
          /\ st' = [st EXCEPT ![s] = "owner"]
          /\ \A j \in Keys \ {k} : lease'[j] = ClosedIfExpired(j, k)
      BY <2>1, <1>0 DEF BecomeOwner, TakeLease, Enter
    <3>2. Claims(k) \/ (lease[k].state = "COMPLETED" /\ lease[k].result \in revoked)
      BY <2>1 DEF Disposition
    <3>3. \A j \in Keys \ {k} : Kept(j)
      BY <3>1, <1>0, ClosedIsKept DEF IInv
    <3> QED
      BY <3>1, <3>2, <3>3 DEF Taken
  <2>2. CASE CloseExpired(k) /\ Enter(s, "reused") /\ UNCHANGED fence
    <3>1. \A j \in Keys : Kept(j)
      BY <2>2, <1>0, ClosedIsKept DEF CloseExpired, IInv
    <3> QED
      BY <2>2, <3>1 DEF Continued, Enter, IInv, TypeOK
  <2>3. CASE Enter(s, "failed") /\ UNCHANGED <<lease, fence>>
    BY <2>3 DEF Continued, Kept, Enter, IInv, TypeOK
  <2> QED
    BY <1>1, <2>1, <2>2, <2>3 DEF Coordinate
<1>2. ASSUME NEW s \in Sessions, StillWaiting(s) PROVE Continued
  <2>1. \A j \in Keys : Kept(j)
    BY <1>2, <1>0, ClosedIsKept DEF StillWaiting, CloseExpired, IInv
  <2> QED
    BY <1>2, <2>1 DEF StillWaiting, session, Continued
<1>3. ASSUME NEW s \in Sessions, Beat(s) \/ SendProvider(s) PROVE Continued
  <2>1. UNCHANGED <<fence, st>>
        /\ (UNCHANGED lease \/ (HolderOf(s) /\ Extend(KeyOf[s], OwnerTtl(s))))
    BY <1>3 DEF Beat, SendProvider
  <2>2. CASE UNCHANGED lease
    BY <2>1, <2>2 DEF Continued, Kept
  <2>3. CASE HolderOf(s) /\ Extend(KeyOf[s], OwnerTtl(s))
    BY <2>1, <2>3, <1>0, OneRowStep
    DEF Extend, HolderOf, Holds, Running, IInv, TypeOK, LeaseRow
  <2> QED
    BY <2>1, <2>2, <2>3
<1>4. ASSUME NEW s \in Sessions, Complete(s) \/ Fail(s) PROVE Continued
  <2>1. /\ UNCHANGED fence
        /\ \A t \in Sessions : st'[t] = "completed" => st[t] = "completed"
    BY <1>4 DEF Complete, Fail, Enter, IInv, TypeOK
  <2>2. CASE UNCHANGED lease
    BY <2>1, <2>2 DEF Continued, Kept
  <2>3. CASE HolderOf(s) /\ (Publish(s, KeyOf[s]) \/ ShareFailure(KeyOf[s]))
    <3>1. /\ \A j \in Keys \ {KeyOf[s]} : lease'[j] = lease[j]
          /\ lease'[KeyOf[s]].fence = lease[KeyOf[s]].fence
          /\ lease[KeyOf[s]].state = "ACTIVE" /\ lease'[KeyOf[s]].state # "ABSENT"
      BY <2>3, <1>0
      DEF Publish, ShareFailure, HolderOf, Holds, Running, IInv, TypeOK, LeaseRow
    <3> QED
      BY <2>1, <3>1, <1>0, OneRowStep
  <2> QED
    BY <1>4, <2>2, <2>3 DEF Complete, Fail, Finishes
<1>5. ASSUME NEW s \in Sessions, Quarantine(s) PROVE Continued
  <2>1. /\ UNCHANGED fence
        /\ \A t \in Sessions : st'[t] = "completed" => st[t] = "completed"
    BY <1>5 DEF Quarantine, Enter, IInv, TypeOK
  <2>2. /\ \A j \in Keys \ {KeyOf[s]} : lease'[j] = lease[j]
        /\ lease'[KeyOf[s]].fence = lease[KeyOf[s]].fence
        /\ lease'[KeyOf[s]].state = lease[KeyOf[s]].state
        /\ lease'[KeyOf[s]].result = lease[KeyOf[s]].result
        /\ lease[KeyOf[s]].state # "COMPLETED" => lease'[KeyOf[s]].left = lease[KeyOf[s]].left
    BY <1>5, <1>0 DEF Quarantine, QuarantineCompleted, IInv, TypeOK, LeaseRow
  <2>3. \A j \in Keys : Kept(j)
    BY <2>2 DEF Kept
  <2> QED
    BY <2>1, <2>3 DEF Continued
<1>6. ASSUME NEW s \in Sessions, ConfirmReceipt(s) PROVE Continued
  <2>1. \A j \in Keys : Kept(j)
    BY <1>6 DEF ConfirmReceipt, Kept
  <2>2. \A t \in Sessions : st'[t] = "completed" =>
          st[t] = "completed" \/ ReceiptOf(t, KeyOf[t])
    BY <1>6 DEF ConfirmReceipt, Enter, IInv, TypeOK
  <2> QED
    BY <1>6, <2>1, <2>2 DEF ConfirmReceipt, Continued
<1>7. ASSUME NEW s \in Sessions,
             \/ Create(s) \/ Prepare(s) \/ CoordinateFails(s) \/ WaitEnds(s) \/ ProviderReturns(s)
             \/ CompleteRefused(s) \/ Abandon(s) \/ Crash(s) \/ RevokeAuthority(s)
      PROVE  Continued
  <2>1. /\ UNCHANGED <<lease, fence>>
        /\ \A t \in Sessions : st'[t] = "completed" => st[t] = "completed"
    BY <1>7
    DEF Create, Prepare, CoordinateFails, WaitEnds, ProviderReturns, CompleteRefused, Abandon,
        Crash, RevokeAuthority, Enter, Exit, session, IInv, TypeOK
  <2> QED
    BY <2>1 DEF Continued, Kept
<1>9. ASSUME NEW p \in Sessions, PreparationTurn(p) PROVE Continued \/ Taken(p)
  <2> DEFINE k == KeyOf[p]
  <2>1. CASE BecomeOwner(p) /\ Claims(k)
    <3>1. /\ lease'[k].state = "ACTIVE" /\ lease'[k].fence = lease[k].fence + 1
          /\ fence' = [fence EXCEPT ![p] = lease[k].fence + 1]
          /\ st' = [st EXCEPT ![p] = "owner"]
          /\ \A j \in Keys \ {k} : lease'[j] = ClosedIfExpired(j, k)
      BY <2>1, <1>0 DEF BecomeOwner, TakeLease, Enter
    <3>2. \A j \in Keys \ {k} : Kept(j)
      BY <3>1, <1>0, ClosedIsKept DEF IInv
    <3> QED
      BY <2>1, <3>1, <3>2 DEF Taken
  <2>2. CASE /\ CloseExpired(k) /\ UNCHANGED fence
             /\ st' = [st EXCEPT ![p] = "reused", ![RequestOf[p]] = "new"]
    <3>1. \A j \in Keys : Kept(j)
      BY <2>2, <1>0, ClosedIsKept DEF CloseExpired, IInv
    <3> QED
      BY <2>2, <3>1 DEF Continued, IInv, TypeOK
  <2> QED
    BY <1>9, <2>1, <2>2 DEF PreparationTurn
<1>10. ASSUME NEW p \in Sessions, EndPreparation(p) PROVE Continued
  <2>1. /\ UNCHANGED fence
        /\ \A t \in Sessions : st'[t] = "completed" => st[t] = "completed"
    BY <1>10 DEF EndPreparation, IInv, TypeOK
  <2>2. CASE UNCHANGED lease
    BY <2>1, <2>2 DEF Continued, Kept
  <2>3. CASE HolderOf(p) /\ ShareFailure(KeyOf[p])
    <3>1. /\ \A j \in Keys \ {KeyOf[p]} : lease'[j] = lease[j]
          /\ lease'[KeyOf[p]].fence = lease[KeyOf[p]].fence
          /\ lease[KeyOf[p]].state = "ACTIVE" /\ lease'[KeyOf[p]].state # "ABSENT"
      BY <2>3, <1>0 DEF ShareFailure, HolderOf, Holds, Running, IInv, TypeOK, LeaseRow
    <3> QED
      BY <2>1, <3>1, <1>0, OneRowStep
  <2> QED
    BY <1>10, <2>2, <2>3 DEF EndPreparation
<1>8. ASSUME Tick PROVE Continued
  <2>1. UNCHANGED <<fence, st>>
    BY <1>8 DEF Tick
  <2>2. \A j \in Keys : Kept(j)
    BY <1>8 DEF Tick, LeaseTick, Kept, IInv, TypeOK, LeaseRow
  <2> QED
    BY <2>1, <2>2 DEF Continued
<1> QED
  BY <1>1, <1>2, <1>3, <1>4, <1>5, <1>6, <1>7, <1>8, <1>9, <1>10 DEF Next

(* Tokens of handles stay behind their rows, and a success stays published.  *)
LEMMA HandlesStep ==
    IInv /\ HandlesAreOld /\ CompletedWasPublished /\ [Next]_vars
      => HandlesAreOld' /\ CompletedWasPublished'
<1> SUFFICES ASSUME IInv, HandlesAreOld, CompletedWasPublished, [Next]_vars
             PROVE  HandlesAreOld' /\ CompletedWasPublished'
  OBVIOUS
<1>0. /\ \A s \in Sessions : KeyOf[s] \in Keys /\ fence[s] \in Nat
      /\ \A k \in Keys : lease[k].fence \in Nat
  BY SessionAssumption DEF IInv, TypeOK, LeaseRow
<1>1. CASE Continued
  <2>1. HandlesAreOld'
    BY <1>0, <1>1 DEF HandlesAreOld, Continued, Kept
  <2>2. CompletedWasPublished'
    BY <1>0, <1>1 DEF CompletedWasPublished, Continued, Kept, ReceiptOf
  <2> QED
    BY <2>1, <2>2
<1>2. ASSUME NEW s \in Sessions, Taken(s) PROVE HandlesAreOld' /\ CompletedWasPublished'
  <2>1. /\ fence'[s] = lease'[KeyOf[s]].fence /\ st'[s] = "owner"
        /\ \A t \in Sessions \ {s} : fence'[t] = fence[t] /\ st'[t] = st[t]
    BY <1>0, <1>2 DEF Taken, IInv, TypeOK
  <2>2. \A t \in Sessions :
          \/ KeyOf[t] = KeyOf[s] /\ lease'[KeyOf[t]].fence = lease[KeyOf[t]].fence + 1
          \/ Kept(KeyOf[t])
    BY <1>0, <1>2 DEF Taken
  <2>3. HandlesAreOld'
    <3>1. \A t \in Sessions : fence'[t] <= lease'[KeyOf[t]].fence
      BY <1>0, <2>1, <2>2 DEF HandlesAreOld, Kept
    <3>2. \A k \in Keys : lease'[k].state = "ABSENT" => lease'[k].left = 0
      BY <1>2 DEF HandlesAreOld, Taken, Kept
    <3> QED
      BY <3>1, <3>2 DEF HandlesAreOld
  <2>4. CompletedWasPublished'
    <3> SUFFICES ASSUME NEW t \in Sessions, st'[t] = "completed"
                 PROVE  lease'[KeyOf[t]].fence > fence'[t] \/ ReceiptOf(t, KeyOf[t])'
      BY DEF CompletedWasPublished
    <3>1. /\ st[t] = "completed" /\ fence'[t] = fence[t]
          /\ fence[t] <= lease[KeyOf[t]].fence
          /\ lease[KeyOf[t]].fence > fence[t] \/ ReceiptOf(t, KeyOf[t])
      BY <2>1 DEF CompletedWasPublished, HandlesAreOld
    <3>2. CASE lease'[KeyOf[t]].fence = lease[KeyOf[t]].fence + 1
      BY <1>0, <3>1, <3>2
    <3>3. CASE Kept(KeyOf[t])
      BY <3>1, <3>3 DEF Kept, ReceiptOf
    <3> QED
      BY <2>2, <3>2, <3>3
  <2> QED
    BY <2>3, <2>4
<1>3. CASE UNCHANGED vars
  BY <1>3 DEF vars, session, HandlesAreOld, CompletedWasPublished, ReceiptOf
<1> QED
  BY <1>1, <1>2, <1>3, RowsGoOn

(* Both hold in every reachable state.                                      *)
LEMMA HandlesInvariant == Spec => [](HandlesAreOld /\ CompletedWasPublished)
<1>1. Init => HandlesAreOld /\ CompletedWasPublished
  BY SessionAssumption DEF Init, LeaseInit, NoLease, HandlesAreOld, CompletedWasPublished
<1> QED
  BY <1>1, HandlesStep, SessionInvariant, PTL DEF Spec

(* Who reports success published: its row, as long as it is its own, says so. *)
THEOREM SessionCompletedWasPublished == Spec => []CompletedWasPublished
  BY HandlesInvariant, PTL

(* A token is given one at a time, after the last lease or fan-out lapsed or *)
(* its result lost its authority.                                            *)
THEOREM SessionTakeoverAfterLapse == Spec => TakeoverAfterLapse
<1> DEFINE A == \A k \in Keys :
      /\ lease'[k].fence >= lease[k].fence
      /\ lease'[k].fence # lease[k].fence =>
           /\ lease'[k].fence = lease[k].fence + 1
           /\ ~Live(k) \/ lease[k].result \in revoked
<1>1. ASSUME IInv, HandlesAreOld, [Next]_vars PROVE [A]_vars
  <2>0. \A k \in Keys : lease[k].fence \in Nat
    BY <1>1 DEF IInv, TypeOK, LeaseRow
  <2>1. CASE Continued
    BY <2>0, <2>1 DEF Continued, Kept
  <2>2. ASSUME NEW s \in Sessions, Taken(s) PROVE A
    <3>1. ~Live(KeyOf[s]) \/ lease[KeyOf[s]].result \in revoked
      <4>1. CASE Claims(KeyOf[s])
        <5>1. lease[KeyOf[s]].state = "ABSENT" \/ ~Live(KeyOf[s])
          BY <1>1, <4>1, SessionAssumption
          DEF Claims, Disposition, IInv, TypeOK, LeaseRow, LeaseStates
        <5> QED
          BY <1>1, <5>1, SessionAssumption DEF HandlesAreOld, Live
      <4> QED
        BY <2>2, <4>1 DEF Taken
    <3>2. /\ lease'[KeyOf[s]].fence = lease[KeyOf[s]].fence + 1
          /\ \A j \in Keys \ {KeyOf[s]} : lease'[j].fence = lease[j].fence
      BY <2>2 DEF Taken, Kept
    <3> QED
      BY <2>0, <3>1, <3>2
  <2> QED
    BY <1>1, <2>1, <2>2, RowsGoOn
<1> QED
  BY <1>1, SessionInvariant, HandlesInvariant, PTL DEF Spec, TakeoverAfterLapse

-----------------------------------------------------------------------------
(* What keeps a generation and a wait from going on for ever. How long one  *)
(* may last is decided once, when its request is created; EveryLeaseEnds    *)
(* and EveryWaitEnds need beyond these facts only that time passes and that *)
(* a waiting thread looks at its deadline.                                  *)

\* A lease does not outlive the request whose session holds it, and a
\* preparation runs under the deadline of its request.
LeaseWithinDeadline ==
    \A k \in Keys : Running(k) => lease[k].left <= clock[lease[k].owner]

OneDeadline ==
    \A p \in Preparing : st[p] \in {"new", "owner"} => clock[p] = clock[RequestOf[p]]

\* A generation that goes on has the owner and the token it had.
GoesOn(k) ==
    /\ Running(k)
    /\ lease'[k].owner = lease[k].owner /\ lease'[k].fence = lease[k].fence

(* A session that was created stays so, and its deadline only comes nearer.  *)
LEMMA DeadlineNears ==
    ASSUME TypeOK, Next, NEW s \in Sessions, st[s] # "absent"
    PROVE  /\ st'[s] # "absent"
           /\ clock'[s] <= clock[s]
           /\ Tick => clock'[s] = Less(clock[s])
           /\ ~Tick => clock'[s] = clock[s]
<1>0. clock[s] \in Nat /\ Less(clock[s]) <= clock[s]
  BY SessionAssumption DEF TypeOK, Less
<1>1. CASE Tick
  BY <1>0, <1>1 DEF Tick
<1>2. ASSUME NEW t \in Sessions, Create(t)
      PROVE  st'[s] # "absent" /\ clock'[s] = clock[s]
  BY <1>2 DEF Create, Enter, TypeOK
<1>3. ASSUME NEW t \in Sessions, Prepare(t)
      PROVE  st'[s] # "absent" /\ clock'[s] = clock[s]
  BY <1>3 DEF Prepare, TypeOK
<1>4. ASSUME NEW t \in Sessions,
             \/ Coordinate(t) \/ StillWaiting(t) \/ CoordinateFails(t) \/ WaitEnds(t)
             \/ PreparationTurn(t) \/ EndPreparation(t)
      PROVE  st'[s] # "absent" /\ clock'[s] = clock[s]
  BY <1>4
  DEF Coordinate, BecomeOwner, StillWaiting, CoordinateFails, WaitEnds, PreparationTurn,
      EndPreparation, Enter, Exit, session, TypeOK
<1>5. ASSUME NEW t \in Sessions,
             \/ Beat(t) \/ SendProvider(t) \/ ProviderReturns(t) \/ Complete(t)
             \/ CompleteRefused(t) \/ ConfirmReceipt(t) \/ Quarantine(t) \/ Fail(t)
             \/ Abandon(t) \/ Crash(t) \/ RevokeAuthority(t)
      PROVE  st'[s] # "absent" /\ clock'[s] = clock[s]
  BY <1>5
  DEF Beat, SendProvider, ProviderReturns, Complete, CompleteRefused, ConfirmReceipt,
      Quarantine, Fail, Abandon, Crash, RevokeAuthority, Enter, session, TypeOK
<1>6. CASE ~Tick
  <2>1. st'[s] # "absent" /\ clock'[s] = clock[s]
    BY <1>2, <1>3, <1>4, <1>5, <1>6 DEF Next
  <2> QED
    BY <1>0, <1>6, <2>1
<1> QED
  BY <1>1, <1>6

(* A lease that runs after a step was just given or extended within its      *)
(* owner's deadline, or was running and has not been touched but by time.    *)
LEMMA RunningRowStep ==
    ASSUME IInv, Next, ~Tick, NEW k \in Keys, Running(k)'
    PROVE  \/ /\ ~Running(k) \/ GoesOn(k)
              /\ lease'[k].owner \in Sessions
              /\ lease'[k].left = OwnerTtl(lease'[k].owner)
              /\ st'[lease'[k].owner] # "absent"
              /\ clock'[lease'[k].owner] = clock[lease'[k].owner]
           \/ GoesOn(k) /\ lease'[k].left = lease[k].left
<1> DEFINE Given == /\ ~Running(k) \/ GoesOn(k)
                    /\ lease'[k].owner \in Sessions
                    /\ lease'[k].left = OwnerTtl(lease'[k].owner)
                    /\ st'[lease'[k].owner] # "absent"
                    /\ clock'[lease'[k].owner] = clock[lease'[k].owner]
           Same == GoesOn(k) /\ lease'[k].left = lease[k].left
<1>0. /\ \A s \in Sessions : KeyOf[s] \in Keys
      /\ lease[k].left \in Nat /\ lease \in [Keys -> LeaseRow]
  BY SessionAssumption DEF IInv, TypeOK, LeaseRow
<1>1. CASE lease'[k] = lease[k]
  BY <1>1 DEF GoesOn, Running, Live
<1>2. ASSUME NEW j \in Keys, lease'[k] = ClosedIfExpired(k, j) PROVE Same
  BY <1>0, <1>2 DEF ClosedIfExpired, GoesOn, Running, Live, LeaseRow
<1>3. ASSUME NEW s \in Sessions, BecomeOwner(s), UNCHANGED clock,
             Claims(KeyOf[s]) \/ Disposition(KeyOf[s]) = "COMPLETED"
      PROVE  Given \/ Same
  <2>1. CASE k = KeyOf[s]
    <3>1. ~Running(k)
      BY <1>3, <2>1, ClaimInQuietScope DEF IInv
    <3>2. lease'[k].owner = s /\ lease'[k].left = OwnerTtl(s) /\ st'[s] = "owner"
      BY <1>0, <1>3, <2>1 DEF BecomeOwner, TakeLease, Enter, IInv, TypeOK
    <3> QED
      BY <1>3, <3>1, <3>2
  <2>2. CASE k # KeyOf[s]
    <3>1. lease'[k] = ClosedIfExpired(k, KeyOf[s])
      BY <1>3, <2>2 DEF BecomeOwner, TakeLease
    <3> QED
      BY <1>0, <1>2, <3>1
  <2> QED
    BY <2>1, <2>2
<1>4. ASSUME NEW s \in Sessions, Coordinate(s) PROVE Given \/ Same
  <2>1. UNCHANGED clock
        /\ \/ BecomeOwner(s) /\ (Claims(KeyOf[s]) \/ Disposition(KeyOf[s]) = "COMPLETED")
           \/ CloseExpired(KeyOf[s])
           \/ UNCHANGED lease
    BY <1>4 DEF Coordinate
  <2> QED
    BY <1>0, <1>1, <1>2, <1>3, <2>1 DEF CloseExpired
<1>5. ASSUME NEW s \in Sessions, PreparationTurn(s) \/ StillWaiting(s) PROVE Given \/ Same
  <2>1. UNCHANGED clock
        /\ \/ BecomeOwner(s) /\ Claims(KeyOf[s])
           \/ CloseExpired(KeyOf[s])
    BY <1>5 DEF PreparationTurn, StillWaiting, session
  <2> QED
    BY <1>0, <1>2, <1>3, <2>1 DEF CloseExpired
<1>6. ASSUME NEW s \in Sessions, Beat(s) \/ SendProvider(s) PROVE Given \/ Same
  <2>1. UNCHANGED <<st, clock>>
        /\ (UNCHANGED lease \/ (HolderOf(s) /\ Extend(KeyOf[s], OwnerTtl(s))))
    BY <1>6 DEF Beat, SendProvider
  <2>2. CASE HolderOf(s) /\ Extend(KeyOf[s], OwnerTtl(s)) /\ k = KeyOf[s]
    <3>1. /\ Running(k) /\ lease[k].owner = s
          /\ lease'[k].owner = s /\ lease'[k].fence = lease[k].fence
          /\ lease'[k].left = OwnerTtl(s)
      BY <1>0, <2>2 DEF Extend, HolderOf, Holds, LeaseRow
    <3>2. st[s] # "absent"
      BY <3>1 DEF IInv, OwnerHoldsHandle
    <3> QED
      BY <2>1, <3>1, <3>2 DEF GoesOn
  <2>3. CASE Extend(KeyOf[s], OwnerTtl(s)) /\ k # KeyOf[s]
    BY <1>0, <1>1, <2>3 DEF Extend
  <2> QED
    BY <1>1, <2>1, <2>2, <2>3
<1>7. ASSUME NEW s \in Sessions, Complete(s) \/ Fail(s) \/ EndPreparation(s) PROVE Given \/ Same
  <2>1. UNCHANGED lease \/ Publish(s, KeyOf[s]) \/ ShareFailure(KeyOf[s])
    BY <1>7 DEF Complete, Fail, EndPreparation
  <2>2. lease'[k] = lease[k] \/ lease'[k].state \in {"COMPLETED", "FAILED"}
    BY <1>0, <2>1 DEF Publish, ShareFailure, LeaseRow
  <2> QED
    BY <1>1, <2>2 DEF Running
<1>8. ASSUME NEW s \in Sessions, Quarantine(s) PROVE Given \/ Same
  <2>1. lease'[k] = lease[k] \/ lease'[k].state = "COMPLETED"
    BY <1>0, <1>8 DEF Quarantine, QuarantineCompleted, LeaseRow
  <2> QED
    BY <1>1, <2>1 DEF Running
<1>9. ASSUME NEW s \in Sessions,
             \/ Create(s) \/ Prepare(s) \/ CoordinateFails(s) \/ WaitEnds(s)
             \/ ProviderReturns(s) \/ CompleteRefused(s) \/ ConfirmReceipt(s)
             \/ Abandon(s) \/ Crash(s) \/ RevokeAuthority(s)
      PROVE  Given \/ Same
  <2>1. UNCHANGED lease
    BY <1>9
    DEF Create, Prepare, CoordinateFails, WaitEnds, ProviderReturns, CompleteRefused,
        ConfirmReceipt, Abandon, Crash, RevokeAuthority
  <2> QED
    BY <1>1, <2>1
<1> HIDE DEF Given, Same
<1>10. Given \/ Same
  BY <1>4, <1>5, <1>6, <1>7, <1>8, <1>9 DEF Next
<1> QED
  BY <1>10 DEF Given, Same

(* A preparation is under way only since its request began it.              *)
LEMMA PreparationBegins ==
    ASSUME TypeOK, Next, NEW p \in Preparing, st'[p] \in {"new", "owner"}
    PROVE  st[p] \in {"new", "owner"} \/ Prepare(p)
<1>0. p \in Sessions /\ \A q \in Preparing : RequestOf[q] # p
  BY SessionAssumption
<1>1. ASSUME NEW t \in Sessions, Prepare(t) PROVE st'[p] = st[p] \/ Prepare(p)
  BY <1>0, <1>1 DEF Prepare, TypeOK
<1>2. ASSUME NEW t \in Sessions,
             \/ Coordinate(t) \/ CoordinateFails(t) \/ WaitEnds(t)
             \/ PreparationTurn(t) \/ EndPreparation(t)
      PROVE  st[p] \in {"new", "owner"}
  BY <1>0, <1>2
  DEF Coordinate, BecomeOwner, CoordinateFails, WaitEnds, PreparationTurn,
      EndPreparation, Enter, Exit, Polls, TypeOK
<1>3. ASSUME NEW t \in Sessions,
             \/ Create(t) \/ StillWaiting(t)
             \/ Beat(t) \/ SendProvider(t) \/ ProviderReturns(t) \/ Complete(t)
             \/ CompleteRefused(t) \/ ConfirmReceipt(t) \/ Quarantine(t) \/ Fail(t)
             \/ Abandon(t) \/ Crash(t) \/ RevokeAuthority(t)
      PROVE  st[p] \in {"new", "owner"}
  BY <1>0, <1>3
  DEF Create, StillWaiting, Beat, SendProvider, ProviderReturns, Complete, CompleteRefused,
      ConfirmReceipt, Quarantine, Fail, Abandon, Crash, RevokeAuthority, Enter, Requests,
      session, TypeOK
<1>4. CASE Tick
  BY <1>4 DEF Tick
<1> QED
  BY <1>1, <1>2, <1>3, <1>4 DEF Next

(* The lease is given and extended within the deadline (_bounded_owner_ttl), *)
(* and time takes from both; a request's deadline is set before it owns.     *)
LEMMA DeadlineStep ==
    IInv /\ PreparationFits /\ LeaseWithinDeadline /\ OneDeadline /\ [Next]_vars
      => LeaseWithinDeadline' /\ OneDeadline'
<1> SUFFICES ASSUME IInv, PreparationFits, LeaseWithinDeadline, OneDeadline, [Next]_vars
             PROVE  LeaseWithinDeadline' /\ OneDeadline'
  OBVIOUS
<1>0. /\ \A s \in Sessions : clock[s] \in Nat /\ KeyOf[s] \in Keys
      /\ \A k \in Keys : lease[k].left \in Nat
  BY SessionAssumption, LeaseAssumption DEF IInv, TypeOK, LeaseRow
<1>1. CASE UNCHANGED vars
  BY <1>1 DEF vars, session, LeaseWithinDeadline, OneDeadline, Running, Live
<1>2. ASSUME Next, NEW k \in Keys, Running(k)'
      PROVE  lease'[k].left <= clock'[lease'[k].owner]
  <2>1. CASE Tick
    <3>1. /\ lease'[k].owner = lease[k].owner /\ lease'[k].state = lease[k].state
          /\ lease'[k].left = IF lease[k].left > 0 THEN lease[k].left - 1 ELSE 0
      BY <2>1 DEF Tick, LeaseTick, IInv, TypeOK, LeaseRow
    <3>2. Running(k) /\ lease[k].owner \in Sessions
      BY <1>0, <1>2, <3>1 DEF Running, Live, IInv, OwnerHoldsHandle
    <3>3. lease[k].left <= clock[lease[k].owner]
      BY <3>2 DEF LeaseWithinDeadline
    <3>4. clock'[lease[k].owner] = Less(clock[lease[k].owner])
      BY <2>1, <3>2 DEF Tick
    <3> QED
      BY <1>0, <3>1, <3>2, <3>3, <3>4 DEF Less, Running, Live
  <2>2. CASE ~Tick /\ lease'[k].owner \in Sessions
             /\ lease'[k].left = OwnerTtl(lease'[k].owner)
             /\ clock'[lease'[k].owner] = clock[lease'[k].owner]
    BY <1>0, <2>2, LeaseAssumption DEF OwnerTtl, BoundedTtl
  <2>3. CASE ~Tick /\ GoesOn(k) /\ lease'[k].left = lease[k].left
    <3>1. lease[k].owner \in Sessions /\ st[lease[k].owner] # "absent"
      BY <2>3 DEF GoesOn, Running, IInv, OwnerHoldsHandle
    <3>2. clock'[lease[k].owner] = clock[lease[k].owner]
      BY <1>2, <2>3, <3>1, DeadlineNears DEF IInv
    <3> QED
      BY <2>3, <3>2 DEF GoesOn, LeaseWithinDeadline
  <2> QED
    BY <1>2, <2>1, <2>2, <2>3, RunningRowStep
<1>3. ASSUME Next, NEW p \in Preparing, st'[p] \in {"new", "owner"}
      PROVE  clock'[p] = clock'[RequestOf[p]]
  <2>0. p \in Sessions /\ RequestOf[p] \in Sessions /\ RequestOf[p] # p
    BY SessionAssumption
  <2>1. CASE st[p] \in {"new", "owner"}
    <3>1. /\ st[p] # "absent" /\ st[RequestOf[p]] # "absent"
          /\ clock[p] = clock[RequestOf[p]]
      BY <2>1 DEF PreparationFits, OneDeadline
    <3> QED
      BY <1>3, <2>0, <3>1, DeadlineNears DEF IInv
  <2>2. CASE Prepare(p)
    BY <2>0, <2>2 DEF Prepare, IInv, TypeOK
  <2> QED
    BY <1>3, <2>1, <2>2, PreparationBegins DEF IInv
<1> QED
  BY <1>1, <1>2, <1>3 DEF LeaseWithinDeadline, OneDeadline

(* Both hold in every reachable state.                                      *)
LEMMA DeadlineInvariant == Spec => [](LeaseWithinDeadline /\ OneDeadline)
<1>1. Init => LeaseWithinDeadline /\ OneDeadline
  BY SessionAssumption
  DEF Init, LeaseInit, NoLease, LeaseWithinDeadline, OneDeadline, Running
<1> QED
  BY <1>1, DeadlineStep, SessionInvariant, PTL DEF Spec

(* A running generation has at most as long left as its owner's request: a   *)
(* heartbeat whose job has gone cannot keep the key from everybody else.     *)
THEOREM SessionLeaseWithinDeadline == Spec => []LeaseWithinDeadline
  BY DeadlineInvariant, PTL

(* While a generation runs, its owner, its token and its deadline stay, and  *)
(* the deadline comes nearer with every tick: what EveryLeaseEnds asks of    *)
(* the heartbeat, the provider gate and takeover.                            *)
THEOREM SessionRunningTimeRunsOut ==
    Spec => [][\A k \in Keys : Running(k) /\ Running(k)' =>
                 LET s == lease[k].owner IN
                 /\ GoesOn(k)
                 /\ 0 < clock[s] /\ clock'[s] <= clock[s]
                 /\ Tick => clock'[s] = clock[s] - 1]_vars
<1> DEFINE A == \A k \in Keys : Running(k) /\ Running(k)' =>
                 LET s == lease[k].owner IN
                 /\ GoesOn(k)
                 /\ 0 < clock[s] /\ clock'[s] <= clock[s]
                 /\ Tick => clock'[s] = clock[s] - 1
<1>1. ASSUME IInv, LeaseWithinDeadline, Next PROVE A
  <2> SUFFICES ASSUME NEW k \in Keys, Running(k), Running(k)'
               PROVE  LET s == lease[k].owner IN
                      /\ GoesOn(k)
                      /\ 0 < clock[s] /\ clock'[s] <= clock[s]
                      /\ Tick => clock'[s] = clock[s] - 1
    OBVIOUS
  <2> DEFINE s == lease[k].owner
  <2>1. s \in Sessions /\ st[s] # "absent" /\ clock[s] \in Nat
    BY <1>1, SessionAssumption DEF Running, IInv, OwnerHoldsHandle, TypeOK
  <2>2. lease[k].left \in Nat /\ lease[k].left > 0 /\ lease[k].left <= clock[s]
    BY <1>1, LeaseAssumption DEF Running, Live, LeaseWithinDeadline, IInv, TypeOK, LeaseRow
  <2>3. 0 < clock[s]
    BY <2>1, <2>2
  <2>4. clock'[s] <= clock[s] /\ (Tick => clock'[s] = clock[s] - 1)
    BY <1>1, <2>1, <2>3, DeadlineNears DEF IInv, Less
  <2>5. GoesOn(k)
    <3>1. CASE Tick
      BY <1>1, <3>1 DEF GoesOn, Tick, LeaseTick, IInv, TypeOK, LeaseRow
    <3> QED
      BY <1>1, <3>1, RunningRowStep
  <2> QED
    BY <2>3, <2>4, <2>5
<1> HIDE DEF A
<1>2. IInv /\ LeaseWithinDeadline /\ [Next]_vars => [A]_vars
  BY <1>1
<1>3. Spec => [][A]_vars
  BY <1>2, SessionInvariant, DeadlineInvariant, PTL DEF Spec
<1> QED
  BY <1>3 DEF A

(* A request that waits, for a report or for a preparation, does so under   *)
(* the one deadline it was created with, and when that has come the waiting  *)
(* thread can see it: what EveryWaitEnds asks of coordinate and of           *)
(* paid_preparation.                                                         *)
THEOREM SessionWaitSeesDeadline ==
    Spec => [](\A s \in Requests : Waits(s) /\ clock[s] = 0 =>
                 \E r \in Roles(s) : st[r] = "new" /\ (r \in abandoned \/ clock[r] = 0))
<1>1. OneDeadline =>
        \A s \in Requests : Waits(s) /\ clock[s] = 0 =>
          \E r \in Roles(s) : st[r] = "new" /\ (r \in abandoned \/ clock[r] = 0)
  BY DEF OneDeadline, Waits, Roles
<1> QED
  BY <1>1, DeadlineInvariant, PTL

(* And that deadline only comes nearer, whatever the request does meanwhile. *)
THEOREM SessionDeadlineNears ==
    Spec => [][\A s \in Sessions : st[s] # "absent" =>
                 /\ st'[s] # "absent" /\ clock'[s] <= clock[s]
                 /\ Tick => clock'[s] = Less(clock[s])]_vars
<1>1. ASSUME TypeOK, Next
      PROVE  \A s \in Sessions : st[s] # "absent" =>
                 /\ st'[s] # "absent" /\ clock'[s] <= clock[s]
                 /\ Tick => clock'[s] = Less(clock[s])
  BY <1>1, DeadlineNears
<1>2. TypeOK /\ [Next]_vars =>
        [\A s \in Sessions : st[s] # "absent" =>
                 /\ st'[s] # "absent" /\ clock'[s] <= clock[s]
                 /\ Tick => clock'[s] = Less(clock[s])]_vars
  BY <1>1
<1> QED
  BY <1>2, SessionTypeOK, PTL DEF Spec

-----------------------------------------------------------------------------
(* StaleOwnerTouchesNothing does not hold. This is as far as an owner that   *)
(* was taken over can reach: it takes a shared result of its key out of the  *)
(* fan-out, and never ends or shortens a generation that runs, nor changes   *)
(* whose result a row holds.                                                 *)
THEOREM SessionStaleOwnerReach ==
    Spec => [][\A s \in Sessions : st[s] = "overtaken" /\ st'[s] # st[s] =>
                 \/ UNCHANGED lease
                 \/ /\ lease[KeyOf[s]].state = "COMPLETED"
                    /\ lease' = [lease EXCEPT ![KeyOf[s]].left = 0]]_vars
<1> DEFINE A == \A s \in Sessions : st[s] = "overtaken" /\ st'[s] # st[s] =>
                 \/ UNCHANGED lease
                 \/ /\ lease[KeyOf[s]].state = "COMPLETED"
                    /\ lease' = [lease EXCEPT ![KeyOf[s]].left = 0]
<1>1. ASSUME TypeOK, PreparationFits, Next PROVE A
  <2> SUFFICES ASSUME NEW s \in Sessions, st[s] = "overtaken", st'[s] # st[s]
               PROVE  \/ UNCHANGED lease
                      \/ /\ lease[KeyOf[s]].state = "COMPLETED"
                         /\ lease' = [lease EXCEPT ![KeyOf[s]].left = 0]
    OBVIOUS
  <2>0. \A p \in Preparing : p \in Sessions /\ (RequestOf[p] = s => st[p] \notin {"new", "owner"})
    BY <1>1, SessionAssumption DEF PreparationFits
  <2>1. ASSUME NEW t \in Sessions, Quarantine(t)
        PROVE  \/ UNCHANGED lease
               \/ /\ lease[KeyOf[s]].state = "COMPLETED"
                  /\ lease' = [lease EXCEPT ![KeyOf[s]].left = 0]
    <3>1. t = s /\ KeyOf[s] \in Keys
      BY <1>1, <2>1, SessionAssumption DEF Quarantine, Enter, TypeOK
    <3>2. lease' = [lease EXCEPT ![KeyOf[s]].left =
                      IF lease[KeyOf[s]].state = "COMPLETED" THEN 0 ELSE @]
      BY <2>1, <3>1 DEF Quarantine, QuarantineCompleted
    <3>3. CASE lease[KeyOf[s]].state # "COMPLETED"
      BY <1>1, <3>1, <3>2, <3>3 DEF TypeOK, LeaseRow
    <3> QED
      BY <3>2, <3>3
  <2>2. ASSUME NEW t \in Sessions,
               \/ Coordinate(t) \/ WaitEnds(t) \/ CoordinateFails(t) \/ Prepare(t)
               \/ PreparationTurn(t) \/ EndPreparation(t)
        PROVE  FALSE
    BY <1>1, <2>0, <2>2
    DEF Coordinate, BecomeOwner, CoordinateFails, WaitEnds, Prepare, PreparationTurn,
        EndPreparation, Enter, Exit, Polls, TypeOK
  <2>3. ASSUME NEW t \in Sessions,
               \/ Create(t) \/ StillWaiting(t)
               \/ Beat(t) \/ SendProvider(t) \/ Complete(t) \/ Fail(t)
        PROVE  FALSE
    BY <1>1, <2>3
    DEF Create, StillWaiting, Beat, SendProvider, Complete, Fail, Enter, Owns, MaySend,
        session, TypeOK
  <2>4. ASSUME NEW t \in Sessions,
               \/ ProviderReturns(t) \/ CompleteRefused(t) \/ ConfirmReceipt(t)
               \/ Abandon(t) \/ Crash(t) \/ RevokeAuthority(t)
        PROVE  UNCHANGED lease
    BY <2>4 DEF ProviderReturns, CompleteRefused, ConfirmReceipt, Abandon, Crash, RevokeAuthority
  <2>5. CASE Tick
    BY <2>5 DEF Tick
  <2> QED
    BY <1>1, <2>1, <2>2, <2>3, <2>4, <2>5 DEF Next
<1> HIDE DEF A
<1>2. TypeOK /\ PreparationFits /\ [Next]_vars => [A]_vars
  BY <1>1
<1>3. Spec => [][A]_vars
  BY <1>2, SessionInvariant, PTL DEF Spec, IInv
<1> QED
  BY <1>3 DEF A
=============================================================================
