------------------------------- MODULE RunSlots ------------------------------
(***************************************************************************)
(* The in-memory slots of running jobs (web/paid_runtime.py, _RUNNING and  *)
(* _RUNNING_BY_BUCKET under _SLOT_LOCK). A slot has a name: a member, an   *)
(* administrator, or a visitor of an invite link; the visitors of one link *)
(* share a limit of their own.                                             *)
(***************************************************************************)
EXTENDS Integers, FiniteSets

CONSTANTS
  Names,      \* slot names
  LinkNames,  \* those of the track LINK
  LinkOf,     \* [LinkNames -> links]
  MaxRuns,    \* MAX_CONCURRENT_RUNS
  NameLimit,  \* [Names -> Nat], _bucket_concurrency_limit of the name's track
  LinkLimit   \* MAX_CONCURRENT_VISITORS_PER_LINK

ASSUME SlotAssumption ==
  /\ IsFiniteSet(Names) /\ LinkNames \subseteq Names
  /\ DOMAIN LinkOf = LinkNames
  /\ MaxRuns \in Nat \ {0}
  /\ NameLimit \in [Names -> Nat \ {0}]
  /\ LinkLimit \in Nat \ {0}

VARIABLES
  running,  \* _RUNNING
  byName    \* _RUNNING_BY_BUCKET, 0 where it has no entry

slots == <<running, byName>>

NoSlots == running = 0 /\ byName = [n \in Names |-> 0]

\* _link_running_locked: the sum over the names of the link, as the number of
\* pairs of a name and one of its slots.
LinkRunning(n) ==
  Cardinality({p \in LinkNames \X (1..MaxRuns) :
                 LinkOf[p[1]] = LinkOf[n] /\ p[2] <= byName[p[1]]})

\* Mutant: the limit over all runs is not looked at again.
HasRoomOfName(n) ==
  /\ byName[n] < NameLimit[n]
  /\ n \in LinkNames => LinkRunning(n) < LinkLimit

\* The conditions _slot_is_full and _reserve_run_slot share.
HasRoom(n) == running < MaxRuns /\ HasRoomOfName(n)

\* _reserve_run_slot: looked at and taken under one lock.
ReserveSlot(n) ==
  /\ HasRoom(n)
  /\ running' = running + 1
  /\ byName' = [byName EXCEPT ![n] = @ + 1]

\* _release_run_slot: a name without a running job is left alone.
ReleaseSlot(n) ==
  IF byName[n] > 0
  THEN running' = (IF running > 0 THEN running - 1 ELSE 0) /\ byName' = [byName EXCEPT ![n] = @ - 1]
  ELSE UNCHANGED slots
=============================================================================
