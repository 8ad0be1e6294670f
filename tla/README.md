# company-analysis: TLA+ models, checks and proofs

The repository is a Korean company-analysis web service. A visitor with an
invite link, a member or an administrator names a company; a background job
collects filings, the home page and news, has a language model write and review
the chapters, and publishes one verified report. It runs as **one server
process** (FastAPI, threads) over **one SQLite database** and a directory of
content-addressed PDF files.

What is hard in it is money, ownership and endings, not text. Every provider call
costs real money and may have happened although nobody knows; several threads of
one job call providers in parallel; a job may be stopped while its thread cannot
be; the process may die at any step; two requests for the same report must pay
once; and a run is written down in five places that cannot all be closed at once.
This project models that part, from the slot a request takes, over the job that
runs it, the lease that makes it the one that generates, the phase that reserves
the money and the single call with the breaker that guards its provider, to the
published address and the day its file is thrown away.

Paths below are relative to `app/src/`.

## 1. Inventory

### Components that are modelled

| Component | Source | State | Operations | What must be right |
|---|---|---|---|---|
| Run slots | `web/paid_runtime.py:224-344` | `_RUNNING`, `_RUNNING_BY_BUCKET` | reserve, release; limits of all runs, per name, per link | a slot is given back once, on every way out |
| Job runtime | `web/job_runtime.py`, start page in `web/routers/analysis.py`, start of the server in `web/runtime.py` | the job, its pipeline thread, the helper thread of a delivery step; the rows of the run | confirm, start, book, schedule, run, deadline, deliver, close; drain, cancel, forced cleanup; recovery at a start | every row of a run is closed, and says what really was delivered |
| Share-link runs, observation lifecycle, member quota (as the job uses them) | `features/sharelink/store.py`, `features/observability/lifecycle.py`, member-run functions of `features/admin_dashboard` | one row each | start, finish, consume, end, settle, recover | the last writer wins nothing |
| Report archive | `features/report_delivery`, `web/report_delivery_adapter.py`, `web/report_retention_adapter.py`, trash in `features/admin_dashboard/store.py` | addresses, PDF metadata, files, write intents, trash, retirements | publish, reuse, trash, restore, retire, remove, reconcile | an address shows its report or is gone; no file leaks |
| Paid-call ledger | `features/budget/state_machine.py` | `budget_phases` (state, reservation, owner, lease), append-only `budget_attempt_events` | begin/heartbeat/complete a phase, begin/dispatch/settle an attempt, expire leases, resolve liabilities | money settled once; caps per day, request and link; nothing leaks from a closed phase |
| Paid runtime | `web/paid_runtime.py`, `core/provider_gateway/gateway.py` | `_BUDGET_STORE_HEALTHY`, `_PAID_PHASE_LOCK`, tickets held by jobs, the process's lease owner | seed, recheck, open, settle, cancel, reap, resolve; the callbacks of a call | a call that was sent stays on the books whoever settles it; every phase ends |
| Circuit breaker | `features/provider_health/store.py` | one row per provider: state, failures, two deadlines | permission, probe, success, neutral answer, failure | one probe at a time, cooldowns respected, never closed for good |
| Call admission | `core/provider_gateway/concurrency.py`, `features/budget/provider_budget.py`, metered client in `features/pipeline/real.py` | FIFO of waiters, slots in use; pending, unknown and known money of a request; its "billing uncertain" flag and call count | queue, check, reserve, wait, settle, cancel, doubt | slots and money balanced on every way out; waits that can end |
| Lease table | `features/report_delivery/singleflight.py` | one row per generation key: state, owner, fencing token, expiry, result | acquire, heartbeat, complete, fail, expire, quarantine | one active generation per cost scope; old owners powerless |
| Generation session | `web/generation_singleflight.py` | owner/waiter state, deadline, heartbeat thread, handle | prepare, coordinate, provider gate, complete, fail, abandon | one payer; success means published; nobody waits for ever |

How they interact. A request takes a **slot** and becomes a **job**; the job owns
the rows of its run and a thread that does the work. The thread's **session**
acquires a lease or waits for another's result. As owner it opens a **phase**
through the paid runtime, which writes the **ledger**. A pipeline thread that
wants a model's answer passes the limiter and the request's **budget** (call
admission), begins an **attempt** in the ledger, asks the **breaker**, records its
dispatch intent, sends, and records what it observed: in the ledger, in the
breaker, and in the request's budget. When the thread has a report, the job
records the duty to deliver it, saves it, and publishes it in one transaction with
its PDF in the **archive**; only then does it count the run against the quota and, for
a report of release mode FULL, record the run as a report. Everything goes through SQLite transactions (`BEGIN
IMMEDIATE`) and a few in-memory locks; between two transactions, and at each
`await` of the job, anything may happen.

### Components that are not modelled

| Component | Why |
|---|---|
| the steps of `prepare_cutover` and the ledger before it (`spend_store.py`, `budget/logic.py`) | runs once before serving; planned (Cutover). The ledgers it can leave are `BudgetLedger!Init` |
| Bypass sessions, long-term cache (`generation_singleflight.py:821-1028`) | planned extension of GenerationSession; the archive sees a cache entry only as something that keeps a content |
| Report access grants, OAuth state | small row-per-grant state machines with one writer each; planned after the above |
| Backup generations, PDF release records | mostly file copying and file naming |
| Content pipeline (composer, writer, news, homepage, standards, ...) | sequential text processing; what it decides is in its texts, out of a small model's reach |
| Routers other than the start page, rendering, dashboard, evaluation tools, DART engine, deployment | input/output and configuration |

`PROJECT.json` lists them all with sources, and the **hazards**: for each the
line where it bites and the properties that would catch it, or why none does.

## 2. Modules

```
RunSlots
   ^ EXTENDS
JobRuntime     <-- MCJobRuntime         <-- JobRuntimeProofs
ReportArchive  <-- MCReportArchive      <-- ReportArchiveProofs
CallCharges                     what the ledger promises for one paid call
   ^ implemented by
BudgetLedger   <-- MCBudgetLedger       <-- BudgetLedgerProofs
   ^ EXTENDS
PaidRuntime    <-- MCPaidRuntime        <-- PaidRuntimeProofs
ProviderHealth                          <-- ProviderHealthProofs
CallAdmission  <-- MCCallAdmission      <-- CallAdmissionProofs
SingleFlight
   ^ EXTENDS
GenerationSession <-- MCGenerationSession <-- GenerationSessionProofs
SumProofs                       used by BudgetLedgerProofs and CallAdmissionProofs
```

The specifications hold no bounds but the named ones; the `MC` modules define
the small instances, the `.cfg` files pick them. A definition marked "Mutant" in
a comment is a plausible bug of the definition that follows it, kept to show
that a property can fail; no specification uses one.

**RunSlots.** The two counters under `_SLOT_LOCK`; looking and taking are one step,
as in `_reserve_run_slot`. The count of a link is a sum over its visitors' names,
written as the size of a set of pairs.

**JobRuntime** extends RunSlots with one job per request. `pc[j]` is the await at
which the request or its job stands (`confirm` is the confirmation page; `away`
was turned away; `old` belongs to a process that is gone), `worker[j]` the pipeline
thread it waits for, `helper[j]` the thread of the delivery step it awaits. A job
gives way only at an await, so everything between two awaits is one action; but
each *write* in it may fail by itself: an action draws the set `bad` of rows that
cannot be written now and applies the rest, as the `try` blocks of the code do.
`spoiled` remembers such jobs for `EveryRowClosed`. The five rows: `phase` (is it
reserved, does the job know it), `obs` (how the run is remembered), `link`, `member`
(quota), `intent` (duty to deliver). `held` is `slot_released = False` of a job.
A cancellation arrives only at an await, and the thread it waited for runs on:
`Publish` may come after the job has ended. `FullJobs` are those whose report has release mode FULL: their run is remembered once
it is known whether the report was published (`RecordEnd`), that of any other release
mode as soon as the worker has written it, before the duty, the save and the
publication, and it stays remembered as a report when these fail (`RecordWritten`).
`web/job_runtime.py:960-968` means it so. `ForceEnd` is the second cleanup, from
outside, of a task that did not end in the grace period. The steps of a start are
in the order `_lifespan` has them. The generation session is a step of its own that
changes no row of this module; what it does is GenerationSession. Left out: demo
runs, uploaded job postings, the `PUBLIC` grant, and the texts of failures.

**ReportArchive.** Addresses (`deliveries`), metadata with text (`artifacts`) and
files (`blobs`) are three sets, since one content may have several addresses and
two contents may print the same bytes. Each action is one transaction; a file is
written and removed inside one, so a crash may leave it written or removed although
the transaction is not (`Stop`, `StartDies`, `RemoveBlobFails`). `intents` has one
write intent per publication, `retirements` one per stay in the trash. Time is two
facts: an intent is older than a day (`aged`), a report is thirty days in the trash
(`due`). Left out: publishing one report twice, throwing away what was never
delivered, pointers that name another store, originals of before the archive, legal
holds; the storage backend is fixed.

**BudgetLedger.** `phase[p]` is the row of a (request, phase) key, `attempt[a]`
the latest event of an attempt plus whether one of its events asked to close the
phase. Each exported function is one transaction and so one action. A deadline
is the time left (`lease = 0` is "expired"), so time needs no bound. `today` is
the business day. An attempt's liability is its estimate, which is what every
caller passes. Calls repeated with identical arguments return the stored row in
the code and change nothing; they are not actions. The initial states are the ledgers
the cutover can leave, with any number of rows: spend of known cost, reservations of
unknown cost that are owed in full, and per request at most one adjustment to an
observed history that cost more, each in a phase that is over (`LegacyInventory`,
`LegacyState`; `attempt[a].legacy` is the provider `legacy`). They count in every cap,
and the unknown ones can be resolved. `LegacyAmounts = {}` is a cutover that found no
rows. The caller's clock reading and its transaction
fall into one tick. One abstraction of data: only whole won.

**CallCharges.** Six values per call (idle, planned, sent, owed, charged, free) and
the moves between them. `ImplementsCallCharges` maps an attempt to its value
by billing and transport state.

**PaidRuntime** extends BudgetLedger with the process: it is up or down, and each
start is a new owner. `lock` says what the holder of `_PAID_PHASE_LOCK` has
already read (an opening that knows the link's prior cost, a settling that knows
the open attempts) and `worker`/`caller` where the job of a phase and the thread
of a call stand. Opening and settling are read and write steps of their own; the
callbacks of a call take no lock. A job may settle while its call threads still
run (`job_runtime.py:1117-1139`). Any store write may fail, which clears
`healthy`. The breaker is an allowed/refused choice here. `history_cost` of a
link is what the ledger knows. It starts from the same initial ledgers. `Admit` is
`request_helpers._guard_run`: a request passes while `healthy` holds and opens its phase
later, when the door may have closed again; what else that guard refuses (a busy
server, the rate, a budget the figures in memory show as spent) only keeps requests
out and is left out. `mismatch` is what the last comparison with the observed history
found. It can find a job that ended before, whose settling failed or one of whose calls
answered after its phase was closed (`Underbooked`), and is made only by a start, by
`RecheckBudgetStore` and after a resolution (`VerifyHistory`). The heartbeat's `+1 s` is below a tick.

**ProviderHealth.** The row, and for each calling thread whether it has read its
permission, contends for the probe, or is in a call. An ordinary permission is
read before the transaction that records the dispatch, so it may be stale.
`CallTime` is not assumed to be below `ProbeLease`: review calls may take 600 s
(`core/constants.py:312`) and the lease is 300 s.

**CallAdmission.** One `pc` per thread with the line of `create()` it reached.
Checks of the shared flag are steps of their own because they are made outside
the locks. The ledger callbacks succeed or fail nondeterministically, and an
answer may be known, known to be free, or unknown. `reserved_calls` of a stage is
folded into `MaxCalls`, token counting into `Estimates`.

**SingleFlight, GenerationSession.** A key is the five columns of `LeaseKey`, a
scope the three of the partial unique index. The random token of an acquisition
is folded into the fencing token. Each session has a deadline, a heartbeat
thread, and the longest time its calls may still run. Store, content and build
checks fail nondeterministically; a commit may fail, or succeed and lose its
answer. `SendProvider` is the lease refresh with the call that follows it.
A paid preparation (`paid_preparation`) is a session of its own that belongs to a
request (`RequestOf`): its key, handle and calls are its own; the deadline, the
cancellation, the process and the error of the heartbeat are those of its request,
which waits for it. It is never completed: whoever prepared the input, its end is
shared as a failure and the others go on to read what was saved. When the end cannot
be stored, or the lease was lost by then, the request keeps that as its lease error.

## 3. What TLC checks

| Run | Instance | Shows |
|---|---|---|
| `job_runtime` | 1 visitor of a link (FULL report) and 1 member (another release mode), 1 slot, any one of 2 groups of failing writes, 1 restart, with fairness, 432 k states | `TypeOK`, `SlotsExact`, `QuotaFollowsDelivery`, `HistoryFollowsDelivery`, `EveryRowClosed`, `FinalIsFinal`, `SlotComesBack` |
| `report_delivery` | 3 reports of 2 texts that print 1 file, one report thrown away twice, 1 crash, with fairness, 164 k states | `DeliveredIsReadable`, `NoLeakedBlob`, `DueIsDecided`, `UnusedBlobGoes` |
| `budget_ledger` | 2 requests of 1 bucket, 3 phases (one with two calls in flight), 3 attempts, 2 days, any ledger of the cutover, symmetric in the two sibling calls, 726 k states | `ClosedPhaseSettled`, `CloseRequestAwaitsSibling`, `PendingWithinReservation`, `SpendWithinCaps`, `SettledMoneyIsFinal`, `LapsedPhaseOnlyFails`, `ImplementsCallCharges` |
| `paid_runtime` | 1 phase, 2 calls, 2 process lives, with fairness, 51 k states | `RuntimeTypeOK`, `SentIsAccounted`, `ClosedByJobBuysNothing`, `PhaseComesToAnEnd` |
| `call_admission` | 3 threads of 1 request, 2 slots, 2 units of money, with fairness, 58 k states | `TypeOK`, `CountersExact`, `AccountedWithinTotal`, `ReservationFollowsCall`, `UnknownMeansUncertain`, `WaitsForRunningSibling`, `EveryCallLeaves` |
| `provider_health` | 3 threads, lease shorter than a call, with fairness, 7.8 k states | `RowConsistent`, `CooldownNeverShortened`, `OneProbePerLease`, `AlwaysAllowedAgain` |
| `generation_owners` | 3 sessions, 2 keys of 1 scope, symmetric in the two of one key, 1.6 M states | `OneActivePerScope`, `CallsInOneHand`, `ResultIsTheHolders`, `CompletedWasPublished` |
| `generation_ends` | 2 requests for 1 report and their 2 preparations of 1 input, one of them with a result that may lose its authority, with fairness, 678 k states | `TakeoverAfterLapse`, `EveryLeaseEnds`, `EveryWaitEnds` |
| `paid_door`, `lifetime_cap`, `provider_probes`, `stale_owner` | small | a violation each, see section 5 |

A component's type invariant is checked here or, where its proof is there (section
4), left to the proof.

**Bounds.** `job_runtime`: the visitor has a LINK row and no quota, the member a quota
and no LINK row, so each row is written by a job with and a job without it; they
compete for one slot, so a slot given back twice, or not at all, lets in one job
too many or none. The failing groups are the settlement with the cost record (which
decides whether a job runs to its end or only through its outermost `finally`) and
all rows that are only noted when they fail; all of them at once reaches every way
on. One restart after a crash, and none after the second, reaches every step of the
recovery and the state after it. `report_delivery`: two reports share a text, the
third has another text and the same bytes, so a retirement meets a second address, a
second text, and neither; the report with two stays in the trash has its first
retirement open when the second begins; one crash may fall into any step. A second
file would only add independent copies.
`budget_ledger`: two calls at once are enough for every effect of siblings: a close
request, an overrun or an unknown cost of one while the other is in flight; the
third attempt belongs to another request and competes for the same bucket; that
request has a second phase that only reserves. A bucket may commit 3 in a day and a
request 2, and a phase reserves 2, so the request's limit refuses its second phase where
the day still has room (one call is owed 1, or it is the next day), and the day's
limit refuses the second request where that one has spent nothing. Phases that are
opened on different days make the daily sum differ from the sum of the request; the
cost is larger than the estimates, so overruns occur. The cutover brings in amounts of
1 and 3 for any of the calls, known or owed: one fits beside a reservation, the other
fills the day and exceeds a request's limit by itself. The two siblings may be exchanged
(no constant and no property names them), and the run checks no liveness.
`paid_runtime`: two process lives let a phase be opened by one and reaped by the
next; where the cutover left the phase or one of its calls it is not opened at all, since
the id of a request is drawn anew. The two runs that expect a violation start from an
empty ledger; the proofs are for any. `provider_health`: three threads against one breaker are an old call, a probe
and a contender. `call_admission`: of three calls on two slots, two wait for their
siblings' money and one does not. In `generation_owners` three
sessions are an owner, a successor and a rival of another build, and the deadline leaves
room for a call after the first lease has run out, so a call without a fence is caught.
In `generation_ends` the lease is shorter than
the deadline and longer than one tick, so heartbeats matter; a request may wait for the
other's preparation, prepare itself, and wait again for the other's report; the result of
one of them may lose its authority (`Revocable`) before the other reuses it.
`MaxDay`, `MaxStarts`, `MaxStops`, `MaxCycles`, `MaxCalls` and `FailureCap` bound what
the code does not; deadlines count down, and fencing
tokens are bounded because every session acquires at most once.
`CHECK_DEADLOCK FALSE` is set where the instance really stops: requests, attempt
ids, process starts, reports and sessions are used up. It is checked for the breaker
and for call admission, whose threads go on for ever.

The cap properties are stated with their true margin: what calls cost *beyond
their estimate* is never refused by the code, only counted, so committed money
is at most the cap plus these overruns. Committed is what calls have cost or owe and
what open phases still reserve. Money the cutover brought in, known or owed, counts
first, also where it alone exceeds the cap. `HistoryFollowsDelivery` asks of every LINK
row that it is completed exactly if its report is published, and of the runs of FULL
reports that they are remembered as reports only then; the other release modes are
outside that promise, as the code says. `QuotaFollowsDelivery` excepts the reports
whose PDF a restart could not read: the recovery returns the member's run then.

**Fairness.** Nothing is assumed of owners, administrators or pipeline threads.
`JobRuntime`: the event loop goes on with a task that can go on, a helper thread
ends, since its work is local, and the deadline of a job is an alarm of the loop;
the pipeline thread promises nothing, which is why `SlotComesBack` says something.
`ReportArchive`: a start follows a stop; the clean-up runs daily and at each start
over all open retirements, and a removal that fails today is tried again, so it does
not fail for ever (if a file can never be removed it stays, and so does the intent).
`ProviderHealth`: time passes; a thread in the middle of a call goes on, since its
client has a timeout. `CallAdmission`: a waiter polls
(`PROVIDER_ADMISSION_POLL_SECONDS`), an admitted thread goes on. It has no strong
fairness: the queue is FIFO, so a waiter at its head finds a free slot for good.
`PaidRuntime`: time passes, the process is restarted, the lock's holder goes on
(its steps are short transactions), and the sweep is run again and again:
`request_helpers._guard_run` runs it before every request, so this assumes that
requests keep coming; without any, money of a dead phase stays reserved but blocks
nobody. `GenerationSession`: time passes, and a waiting
thread looks at its deadline and its cancellation, as it does at least every
`WAITER_POLL_SEC`; owners, preparations and heartbeats promise nothing, nor does any
wait find an answer.


## 4. What TLAPS proves

All of it for any constants that satisfy the named assumptions
(`SlotAssumption`, `JobAssumption`, `ArchiveAssumption`, `LedgerAssumption`,
`RuntimeAssumption`, `AdmissionAssumption`, `HealthAssumption`, `LeaseAssumption`,
`SessionAssumption`), which TLC evaluates on the instances. Each proof is an
inductive invariant, one step per action, and for a step one case per conjunct it
can disturb. Every safety property that a passing run of section 3
checks is proved, the properties of the ledger both for the ledger alone and for the
running system around it. Of each liveness property the part without fairness is
proved: that somebody can always go on, and that no step undoes what was done
towards the end.

*SumProofs.* What `SumFunctionOnSet` of the community modules adds up to: an element
more, an element less, a changed value, larger values, groups. The sum is a fold that
chooses its elements, and there is no induction over finite sets to cite, so each
fact goes by a minimal counterexample: the subsets for which it fails would have a
member without a smaller one in it (inclusion is well-founded on a finite set), and
taking one element off that member shows that it does not fail.

*BudgetLedgerProofs.* The first invariant is `TypeOK`, `ClosedPhaseSettled`,
`CloseRequestAwaitsSibling` and `AttemptShape`. The last makes it inductive: it ties
an attempt's transport, billing and money together (only an unsettled attempt holds a
reservation; one that is absent has none of the others), so that settling can be seen
to empty it. From it follow the action properties (`SettledMoneyIsFinal`,
`LapsedPhaseOnlyFails`) and, step by step, that the ledger implements `CallCharges`.
The money is a second invariant on top of it, `MoneyInv`: `MoneyShape` bounds the
single rows, `PhaseCovers` says that a phase's reservation is what is left of it after
what its calls cost, owe and hold, and `CapsHold` bounds a *weight*, what a set of
phases has committed. Only one action makes a set of phases heavier, `BeginPhase`, and
it was admitted because the exposure it computed, which is at least the weight, left
room for it; every other action moves money inside a phase or gives it back, except
for overruns, which the margin `Overrun` counts. `SumByGroups` turns the sum over
phases into the sum over their attempts that the properties are stated with. So
`PendingWithinReservation` and `SpendWithinCaps` hold for any number of phases,
attempts, days, requests and buckets. `LedgerLifetimeSpendWithinCap` says the same of
the lifetime limit of a link: the ledger as it stands keeps it, since in this module
the cost is read in the transaction that opens the phase. All three start from any
ledger the cutover can leave (`InitWeighs`: what it brought in weighs no more than its
own margin), and so do the theorems about the running system.

*PaidRuntimeProofs.* Every step of the process keeps the books it builds on: the
ledger's first invariant, that a call once sent stays sent, that a close request
stays one, and that only `OpenWrite` opens a phase (`BooksKept`, `RowsGoOn`,
`NoneOpened`). On top come where the threads can stand (`RuntimeTypes`, `Alive`), what
the holder of the lock knows (`LockKnows`), that a job's closing left either a closed
phase or a close request (`ClosedAsked`), and that a call's thread and its row agree
(`OnBooks`). The result is `SentIsAccounted` and `ClosedByJobBuysNothing` for any
phases, calls, amounts and restarts.

That the ledger keeps its promises alone does not say that it keeps them here: a start,
a reaping under the lock, a call that meets an open circuit and a close that records
usage reported late do several of its operations in one transaction, or one it does not
have. `BooksStep` lists what a step of the whole system can do to the books, and
`StepOfBooks` shows that every step is on the list. From the list follow
`SettledMoneyIsFinal` and `LapsedPhaseOnlyFails`; the weights of `MoneyInv`, hence
`PendingWithinReservation` and `SpendWithinCaps`; and that each call follows
`CallCharges`, where the list adds one kind of step to the abstract ones (`BookedAtOnce`:
a call that is begun and over in one transaction), which the theorem names.
`RuntimeLifetimeSpendWithinCap` is the other half of finding 2 below. If a phase is only
ever opened while the lifetime cost that was read for it still covers what the link has
spent (`OpenWrite => ReadingHolds`), the limit of the link holds for ever: the stale
reading is the only way past it. The condition is about behaviours; those in which no
call is settled between the reading and the write have it, and the run `lifetime_cap`
shows one that has not.
`RuntimeLeaseRunsOut` is why a phase comes to an end: the lease of an open phase gets
longer only when one of its calls uses the one renewal it has, the set of calls that
have it left never grows, and a tick shortens every lease.

*CallAdmissionProofs.* `IInv` is about money: `MoneyTypes`, that whoever doubts has
raised the flag (`DoubtIsKnown`), that who asks for money holds none
(`AskerHoldsNothing`, since a thread that left an unknown cost behind is refused
first), and the three properties `ReservationFollowsCall`, `UnknownMeansUncertain` and
`AccountedWithinTotal`. `WaitsForRunningSibling` follows from it by looking at the one
action that waits. `CountInv` adds the queue, the slots and the running totals. Its
lemmas say what joining, being served and giving up do to a queue without repetitions
(the token that gives up may stand anywhere), and how the total follows the set of
pending calls; a total is only changed for a call that is, or is not, pending, which
is where `IInv` is needed. On top of both, `AdmissionFirstComeFirstServed`: who stands
behind another in the queue stays behind until that one has entered or gone, although
those that give up leave from the middle. And `AdmissionNeverStuck`: two resources are
waited for here, slots and money, and who waits for money does so inside a slot; if
anybody is there, the head of the queue may enter or somebody inside has something to
do other than wait.

*ProviderHealthProofs.* `TypeOK` with `RowConsistent` is inductive by itself; the
action properties `CooldownNeverShortened` and `OneProbePerLease` follow.
`HealthRefusalRunsOut` is the measure behind `AlwaysAllowedAgain`: while the breaker
refuses, what is left of cooldown and probe lease falls with every tick and rises only
when a call that was already under way reports, which it does once.

*GenerationSessionProofs.* `CallsInOneHand` needs three more facts: a row's owner
is the one session whose handle carries its fencing token (`OwnerHoldsHandle`); a
call that may still run is covered by the lease and the deadline (`CallsCovered`);
and a scope has one active row (`OneActivePerScope`). With `ResultIsTheHolders` and
`TypeOK` they are inductive. The proof shows where the assumption
`CallTicks <= LeaseTtl` and `CallTicks <= Grace` is used: the real values are 600 s
against 900 s and 660 s. The client's timeout is not a strict bound on wall-clock
time (the comment in `features/budget/constants.py` says so), so `CallsInOneHand` is
as good as that timeout. `TakeoverAfterLapse` and `CompletedWasPublished` follow from
what a step may do to a row (`RowsGoOn`: tokens only grow, a result is only replaced
under a later one) and from handles never being newer than their row
(`HandlesAreOld`).
`PreparationFits`, beside them: a preparation under way has a request that waits for
it and for no other, so the two leases of a request are held one after the other.
Time comes on top of it. A running generation has no longer than its owner's deadline
(`SessionLeaseWithinDeadline`; the heartbeat cuts what it extends), the deadlines of a
request and of its preparation are one (`OneDeadline`), none is ever put off
(`SessionDeadlineNears`), a generation keeps owner and token while it runs
(`SessionRunningTimeRunsOut`), and a request whose deadline comes while it waits can see
it in the session that waits (`SessionWaitSeesDeadline`). `SessionStaleOwnerReach` draws
the line around finding 4: an owner that was taken over can take a *completed* result of
its key out of the fan-out, and nothing else. It never ends or shortens a generation
that runs and never changes whose result a row holds.

*JobRuntimeProofs.* `SlotsExact` is inductive with one fact, that only a live job
holds a slot, and one argument: each action takes a slot that was free, gives back one
that was held, or touches neither. `QuotaFollowsDelivery` and
`HistoryFollowsDelivery` rest on `DeliveryInv`: outside a served process nothing runs
(`Quiet`), the helper thread stands where its job awaits it or the job is gone
(`HelperFollows`), the quota is settled last (`SettledLast`), and a job that has
passed the publication knows how it went (`StageKnows`). Every action is shown to be
the step of one job that leaves the others alone, or a step of the server.
`FinalIsFinal` comes out of the same case distinction. `EveryRowClosed` has an
invariant per job (`Clean`): where a job stands says which rows it has opened
(`Fresh`, `RowsKnown`), which duty may still stand (`DutyKnown`), and whether its
thread can still obtain a phase (`ThreadKnows`: one the job does not know of belongs to
a thread that is about to tell it, or the session was closed by the deadline). The
first holds of all jobs, the others of those whose writes were all done; a start
closes the rows of its predecessor step by step, so `RowsKnown` names its steps.
`JobSlotRunsOut` is why a slot comes back. It needs, of all jobs and whichever writes
failed, that what a job awaits is there (`Stands`). Then whoever holds a slot meets the
guard of a step of its own or of its helper thread, and none of these guards waits for
the pipeline thread (`CanGoOn`); the twelve stages a job goes through (`Stage`) are
never gone back, and each of those steps goes on by one or more (`OwnMove`).

*ReportArchiveProofs.* The invariant says who keeps what: a writer has an intent
(`WritersHaveIntents`), a report in the trash has its retirement (`TrashCounted`),
metadata have their file, an address has its metadata, and metadata and files have an
owner or an open intent (`MetadataHasFile`, `DeliveryHasMetadata`, `MetadataIsOwned`,
`FileIsOwned`). `DeliveredIsReadable` and `NoLeakedBlob` follow.
`TrashInv` adds where a report and its retirements stand: a report that is published has
never been in the trash, one in the trash has its address, its present time in the trash
has no retirement or an open one, and times to come have none. So a due report can be
prepared or is (`ArchiveDueCanBeDecided`), however often it was restored half-way
through a retirement, and a retired address never shows anything again
(`ArchiveRetiredForGood`). `ArchiveUnusedFileGoes` follows a file nothing uses. If
metadata still name it, each of them is owned by a preserved retirement that is looked
at again and takes it away; otherwise a retirement owns the file, and the next two steps
of the clean-up remove it. While the file stays unused none of this is undone.

**Only model-checked:** liveness itself. The theorems named with each property give what
can be said without fairness; that the steps they speak of are taken is left to TLC.

| property | what is proved |
|---|---|
| `SlotComesBack` | `JobSlotRunsOut` |
| `PhaseComesToAnEnd` | `RuntimeLeaseRunsOut` |
| `EveryLeaseEnds` | `SessionLeaseWithinDeadline`, `SessionRunningTimeRunsOut` |
| `EveryWaitEnds` | `SessionWaitSeesDeadline`, `SessionDeadlineNears` |
| `EveryCallLeaves` | `AdmissionNeverStuck`, `AdmissionFirstComeFirstServed` |
| `AlwaysAllowedAgain` | `HealthRefusalRunsOut` |
| `DueIsDecided` | `ArchiveDueCanBeDecided` |
| `UnusedBlobGoes` | `ArchiveUnusedFileGoes` |

Liveness under fairness and ENABLED are outside what the installed provers do, so the
guards are written out in the theorems (`CanGoOn`, `CanBeDecided`, `IsHandled`) and each
falls short of the property by the fairness of section 3 and an induction over the
measure it names. The four runs that expect a violation have no theorem of their
property, which does not hold; for two of them a theorem says how far it fails
(`RuntimeLifetimeSpendWithinCap`, `SessionStaleOwnerReach`). No module uses a RECURSIVE
operator.

## 5. Where the code disagrees with what it says

Four have a run whose counterexample shows it; `PROJECT.json` quotes the lines.

1. `paid_door`: startup and an administrator's recheck close the paid door when the
   observed history cost more than the ledger knows; every later reseed skips that
   comparison and opens the door again (`web/paid_runtime.py:633`). In the run a request
   is admitted while the door is open, settling its phase fails, the recheck finds the
   mismatch and closes the door, the lease of that phase runs out, and the sweep before
   the next request (which finds it, 826-827) opens the door.
2. `lifetime_cap`: the lifetime cost of a link is read before the transaction
   that admits by it (`web/paid_runtime.py:936`); a call settled in between is
   counted neither as cost nor as reservation.
3. `provider_probes`: an ordinary call that answers late is taken for the probe,
   and a second probe starts while the first is in flight
   (`features/provider_health/store.py:492`), also when no call outlasts the lease.
4. `stale_owner`: an owner whose lease was taken over quarantines the result of
   its successor when its own completion changes no row
   (`web/generation_singleflight.py:1526`).

Others were met while modelling. The models have the behaviour, and the properties
are stated so that they do not hide it:

5. The duty to deliver is marked failed in one transaction and the LINK row stopped in
   the next (`web/routers/reports.py:1913-1952`, `_recover_stale_report_deliveries`,
   the administrator's settling). If the second does not happen, the row stays in
   `awaiting_release`: the recovery looks for duties that still stand, and this one
   does not. `web/runtime.py:286-301` says that both are closed together.
   (`EveryRowClosed` leaves out jobs with a failed write and does not ask `AWAITING` of
   a former process's rows.)
6. A request whose link was closed, or whose LINK row cannot start, returns after its
   pending row was consumed and records no end (`web/job_runtime.py:2463`): its run is
   `running` until the next start. (`TurnAway`; `EveryRowClosed` asks less of `away`.)
7. A pipeline thread that had passed the check of its session installs its phase
   after the deadline settled the job; only the lease closes it. (`InstallPhase`; the
   second line of `EveryRowClosed`.)
8. After a restart a published report may be remembered as a failed run, since the
   recovery of the runs does not look at the report, and its quota is handed back when
   its PDF cannot be read just then. (`RecoverObs`, `RecoverMember`, `lost`.)
9. A write intent left by a failed publication is protected for as long as another
   intent for the same file is bound, which is for ever; while it is open no
   retirement removes the file (`features/report_delivery/artifact.py:1219`).
   `web/routers/reports.py:1800-1802` expects that it is cleaned up after a day.
   (`UnusedBlobGoes` is stated for files without an open intent.)

## 6. Plan

Done: RunSlots and JobRuntime, ReportArchive, BudgetLedger with its abstract
specification, PaidRuntime, ProviderHealth, CallAdmission, SingleFlight and
GenerationSession, and the proofs of section 4.

Next, the model:
1. Cutover: `prepare_cutover` and the old ledger, as a module whose result implements
   the initial states of BudgetLedger.
2. GenerationSession: the long-term cache and the bypass sessions
   (`_read_cached_release`, invalidation, quarantine of the cache key).
3. Report access grants and OAuth state, as small state machines of one row each.

Next, the proofs:
1. An abstract specification of the lease table (a scope has one holder at a time, a
   result belongs to the last one), with SingleFlight and the sessions around it shown to
   implement it, so that Cutover and the long-term cache can build on it.
2. For each measure of section 4 the bound on the number of steps it allows, where it is
   a number and not a set.
