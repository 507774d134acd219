# A verification development for the agentic trading swarm

The repository is a paper-trading research system that also rewrites itself:
scanners collect market data, agents backed by language models propose trades,
strategies and code changes, a paper engine trades them, and a pool of Codex
workers implements the code changes, promotes them to Git's `main` and verifies
or reverts them there. Everything runs as short-lived Python processes that a
few PowerShell supervisors start again and again, and the processes meet only in
SQLite databases, files and Git.

This directory holds TLA+ models of the parts whose correctness depends on how
those processes interleave, fail and come back; TLC configurations that check
them on small instances; and TLAPS proofs of the results that matter most, for
every size. `PROJECT.json` lists components, runs, mutants, hazards, theorems
and the source lines of every definition. Paths below are relative to
`src/agentic_trading_swarm_mvp/`.

## 1. Inventory

| Component | Code | State | Operations | Hard because |
|---|---|---|---|---|
| Durable task queue | `src/codex_coordination.py` | `codex_tasks` rows: status, work fingerprint, canonical task, retry time, claim (worker, pid, token, lease, count) | enqueue, backfill identity, reconcile duplicates, reclaim, claim, renew, complete, requeue | many processes; a lease may expire while its owner is only slow; three places deduplicate; some callers skip the owner check |
| Verification queue | same file | `codex_verification_jobs`: status, payload, claim | enqueue or revise, claim, finish (writes the task too), retry | written by workers, verifiers and the synchronisation; no reclaim |
| Codex worker pool | `src/codex_worker_pool.py` | thread locals between database calls | synchronise, worker turn, verifier run | three stores (radar DB, coordination DB, Git) and no common transaction; killed or failing between any two writes |
| Resource leases, daily claim budget | both files | `codex_resource_leases`; `claimed` events | acquire, renew, release; count then claim | crash inside the lease, expiry, an owner that comes back |
| Code evolution and release | `src/code_evolution.py`, `src/evolution/` | `code_evolution_proposals`, worktrees, `main` | generate, gate, commit, promote, revert, reconcile with Git | Git and database disagree after a crash |
| Work identity | `src/codex_work_identity.py` | work registry | fingerprint, claim registry entry | who is canonical |
| Model cost ledger | `src/cost_router.py` | `llm_cost_events`, deferred log file, quota circuit file | reserve, cancel, finalise, defer, replay | crash between reservation and result, replays |
| Autonomous paid attempts | `src/autonomous_cost_guard.py` | one row per attempt and UTC day | claim | inherited scope, daily limit |
| Bounded campaign, paid research | `src/paper_expansion_campaign.py`, `src/paid_research_once.py`, `src/bounded_campaign_control.py` | one `state_json` row: phase, run status, in-flight cycle, paid lease, streaks | claim cycle, record, fail, advance, halt, reset; lease research | two kinds of process rewrite one JSON value; expired leases latch the campaign |
| Paper admission queue | `src/paper_admission_queue.py` | rows with status, claim token, lease, consumed token | enqueue, release expired, select fairly, transition, reconcile | a token outlives its lease; retries |
| Paper trades and outcomes | `src/storage.py`, `src/radar_loop.py`, `src/due_outcome_collector.py` | orders, trades, horizon outcomes | open under a claim, close due, record outcomes | savepoints, replays, at-most-once |
| Writer lock, Codex session | `src/codex_repo_agent.py` | lock file | take, find stale, remove | unlink races |
| Implementation owners, scheduler | `src/*_owner.py`, `src/evolution_owner_scheduler.py` | owner tasks, lane rotation | reclaim, claim, record turn | reads and writes in separate transactions |
| Horizon selection, decay quarantine | `src/horizon_selection.py`, `src/paper_decay_quarantine.py` | none, or one row per cohort | select, quarantine | hysteresis at boundaries |
| Recommendations, agents, strategy lab, scanners, adapters, reports | the rest of `src/` | derived data | | little shared state: I/O, parsing, statistics, text |
| Supervisors | `scripts/*.ps1` | mutex, pid and heartbeat files | one iteration per process, back-off, stop | what restarts what |

How they interact. Every cycle of the evolution worker turns model
recommendations into proposals. The pool copies proposals into the task queue
(`sync_available_work`), workers claim tasks and run coding sessions
(`process_code_change_recommendation`), a candidate that passes its gates is
put on `main` under the lease `main_promotion` and handed to the verification
queue; a verifier runs the full regression on it and either records the proposal
as promoted and pushes, or reverts the commit and ends or repairs the proposal.
Reports reconcile proposal statuses with Git. The radar loop, the admission queue
and the campaign form a second chain: candidates, review, order, paper trade,
outcome.

What makes each part correct, briefly. *Task queue:* a live worker keeps its
claim; one piece of work is never under way twice and never lost; every claim
ends. *Verification queue and pool:* nothing is recorded as promoted untested;
radar DB and Git agree; a failed candidate is reverted once and for good; every
promoted commit is judged; retries are bounded. *Leases:* mutual exclusion.
*Budgets:* never exceeded by concurrent claimants, never refunded wrongly.
*Campaign:* one in-flight operation; a halt stays until it is reset. *Admission
and trades:* one trade per consumed claim, one outcome per horizon.

## 2. Plan

The modules, in order of importance; all six are in place.

1. `TaskQueue`, implementing `ExclusiveWork`; `TaskQueueProofs`.
2. `VerificationQueue` (extends `TaskQueue`) and `CodexWorkerPool` (extends
   `VerificationQueue`, adding proposals, Git and the threads' locals);
   implementing `OneTrial`; `CodexWorkerPoolTypes`, `CodexWorkerPoolProofs` and
   `CodexWorkerPoolRecovery`, each extending the one before it.
3. `ResourceLease` and `DailyClaimBudget` (extends it); `DailyClaimBudgetProofs`.
4. `CostLedger`: reservation, attempt guard, provider, settlement, deferred log
   and replay; `CostLedgerProofs`.
5. `BoundedCampaign`: radar cycles, paid research, supervisors and the operator
   over one row; `BoundedCampaignProofs`.
6. `PaperAdmissionQueue`: the queue's operations together with the decisions,
   orders, trades and outcomes of its rows; `PaperAdmissionQueueProofs`.

Every safety property that a run checks is also proved. What is left is to run
the pool with several proposals of one work (the proofs already allow any number
of tasks, with the code's deduplication of those in the queue). Section 7 says why
the remaining components have no module.

Runs stay on the smallest instance in which the hazard can occur; proofs carry
the result to all sizes where TLAPS can.

## 3. How the models correspond to the code

**`TaskQueue`.** One row per task (`task`), one claim ticket per worker thread
(`held`: what `claim_task` returned and the thread still has), the process of
each thread (`pidOf`) and the count of tokens minted. Every function of
`codex_coordination.py` that writes the table is one `begin immediate`
transaction, so it is one action: `EnqueueTask`, `SetTaskWorkIdentity`,
`ReconcileDuplicateTasks`, `ReclaimStaleTasks`, `ClaimTask`, `RenewTaskLease`,
`CompleteTask`, `RequeueTask`. `claim_task` calls `reclaim_stale_tasks` first in
a transaction of its own, so the reclaim is a separate step. `reconcile_duplicate_tasks`
reads the shared fingerprints before its transaction and re-reads the rows
inside it; only the second read decides. The clock is two facts about a row:
`expired` and `due`. `created_at` and `task_id`, which only break ties, become a
choice. `Abandon` is the turn whose exception handler could not write. A pid that
is given out again (`PidReuse`) is alive, which is all `_default_pid_alive` can
see. A task enqueued without a fingerprint (`LateIdentity`) gets one that is its
own, as `_backfill_work_identities` computes it (`"<source_kind>:<source_id>"`).
`Legacy` names tasks that schema 1, which had no fingerprints, may have left in the
queue: `init_db` adds the column and the first sync fills it in, so several queued
rows can share one piece of work before `reconcile_duplicate_tasks` sees them, and
nothing else gives it anything to do. Behaviours begin with any set of such rows.

**`VerificationQueue`.** Adds `job` (the `full_regression` and `git_sync` jobs of
a task) and `checking` (the verifiers' tickets). `FinishVerificationJob` checks
the job's owner and writes the task without checking the task's; `requeue_task`
is called by the verifier without an owner (`RequeueWithoutOwner`). There is no
reclaim action because there is none in the code.

**`CodexWorkerPool`.** Adds proposals (`prop`), the autonomous commits of `main`
(`main`, a revert being a commit that `undoes` another), the position of the
synchronisation (`sync`), of each worker (`turn`) and of each verifier (`check`,
with `snap`, the row it read before the regression and writes back after it).
Each action is one write to one store; a crash (`Crash`) or an exception (`Fail`,
`FailAgain`, `CheckFails`) may fall between any two. The branch structure of
`_run_one_worker_task` and `run_verifier_once` is kept: claim limit, early return
of a proposal that may not be retried, retry, park, hand-off before completion;
runtime synchronisation, revert or recovery pending, terminal or repair.
`_reconcile_promoted_commits` takes the *oldest* commit of a proposal, because
`git log` prints the newest first and the dictionary keeps the last line read;
`_git_promoted_commits_by_proposal` takes the *newest*, because it uses
`setdefault`. `worktree` is what the release worktree of each proposal holds: the
change of a commit of `main`, other work (0), or nothing any more. The full
regression runs in the worktree that the verifier's copy of the row names
(`release`), as it is by then, and in the checkout of `main` when the row names none;
a verifier that finds the worktree gone fails. It is removed when a job is finished
(that may fail), by an archived failure, or by the promotion itself; a new session
and a repair edit it. `PromotionUnseen` is the cherry-pick that reaches `main` while
`promote` answers that it did not. `tested`, a history variable, has the commits of
`main` whose change was in a tree that passed. Git operations under the
`main_promotion` lease are single steps; that they do not overlap is
`AtMostOneInside` of `ResourceLease`.

**`ResourceLease`, `DailyClaimBudget`.** One lease row and, for each thread, the
token with which it is inside. `DailyClaimBudget` adds the position of a worker
between acquiring `daily_task_claim_budget` and releasing it, and counts claims.
A holder is a `worker_id`; that one `worker_id` runs in one process at a time is
what the supervisors' mutexes give (a second process with the same id would be
let in by `owner_worker_id == worker_id`).

**`CostLedger`.** One row per call (`events`), the guard's rows (`attempts`), the
lines of the deferred file and the position of each call in `complete()`. Every
read, transaction and provider turn is a step: `Begin` reads the time,
`CheckDeferred` looks for unreconciled lines before the transaction of
`ReserveModelCall`, which checks both windows and both scopes;
`ClaimAutonomousPaidAttempt` is in a database of its own, so its refusal needs
`CancelModelReservation`, which may fail silently; `Log` settles, puts off or
raises (then `complete` logs a provider error instead); a call may die anywhere.
`ReplayDeferredCostEvents` works on lines it read earlier and brings in all or
none. The quota circuit file is one more reason for which `Begin` may refuse. The
actual cost may exceed the reserved one, as a provider's token count may. `made` is
a history variable. The time of an unpaid row is left out (`Refuse`): nothing
reads it.

**`BoundedCampaign`.** The row is the JSON of `paper_expansion_campaign_state`:
`cycle` is `inflight_cycle`, `lease` the paid research lease, `last` the last one
released, `marked`, `captured`, `markSpent` and `markLast` the watermark. A radar
keeps the `copy` it loaded until it claims, and `moved` says whose copy has an
`updated_at` the row no longer has. `burn_in`, `measurement` and `canary` are one phase,
"early". What only halts (another configuration hash, a completion in the future, a
snapshot that changes during the check) is the halt that `Check` may always
choose; a last cycle that is too old is the refusal that `ClaimLease` may always
choose. `SpendElsewhere` is a model call outside any lease, whose row the next
check finds. `supervised` says whether the processes take the cycle mutex of the
PowerShell scripts; a supervisor that is killed while its child lives leaves the
mutex abandoned, which is the other case. `RecordInflightFailure` records whatever
cycle the row names, and `reset_hard_halt` (`BeginReset`, `EndReset`) reads and
writes in two transactions and asks only whether times have passed, never whether
the process lives.

**`PaperAdmissionQueue`.** One record per queue row, with the decision, the order
(`shadowed`), the trade and its outcome that belong to the same episode, and the
position of each radar pass with what it has read. A pass is the order of calls
in `radar_loop.py`: reconcile decisions (`Begin`), reconcile the queue
(`ReconcileList`, `Reconcile`), enqueue (`EnqueueRead`, then `EnqueueUpdates` or
`EnqueueInserts`), select and claim (`Select`), review, exposure and capacity
checks (`Check`), execution (`Fill`, `NoFill`, `Shadow`), decision (`Decide`), and
reconcile again. `sqlite3` opens a transaction at the first write, so what is read
before it (the list of `reconcile`, the lookup of `enqueue`) is a step of its
own. Rows are written by `queue_id` with a status read earlier, as
`_transition_queue_status` does. A radar's name stands for its claim token.
Clocks, leases, back-off and evidence are choices; new evidence only makes the
holder's check fail, which `NoFill` and `Crash` cover. The terminal rows that only
audit, the caps on active rows and on enqueues and the scoring of candidates are
left out: a pass handles one candidate and claims at most one row, and which one
is a choice. `consumed_claim_token` is implied by the trade. `fills` and
`overlapped` are history variables. Two notions of "the same" meet here and are kept
apart. The *admission key* (venue, instrument, surface, lineage, direction) is what
the unique index allows one active row of. *Exposure* is coarser: `has_open_trade`
compares the instrument and the direction of a key (`Market`), and for a Strategy Lab
candidate its lineage root (`Lineage`; `None` for other strategies, which any open
trade of the market exposes), so several keys can be one exposure and no index keeps
two of them apart.

**`ExclusiveWork`.** The abstract promise: two workers are never on the same
piece of work, and only a worker or the death of its process ends its work.
`TaskQueue` refines it with `doing` mapped to the task of each ticket.

**`OneTrial`.** The abstract promise for a proposal: its code is tried in `main`
once, then kept or withdrawn for good, and the record never says more than the
verdict. `CodexWorkerPool` refines it. The state of the code is read from `main`
and the jobs: untried without a commit, withdrawn when its commits are reverted,
kept from the end of the regression that passed (a verifier past it, or a
`full_regression` job that is `verified` or `verified_pending_sync`), on trial
otherwise. The record is the proposal's status: promoted, failed
(`reverted_verification_failure`) or open. A record may fall back from promoted to
open, because the code's may (section 6), and a failed one may not.

## 4. The runs

| Run | Instance | What it shows |
|---|---|---|
| `task_queue_safety` | 3 tasks, 2 fingerprints, 2 workers, 2 pids that may be reused, 3 claims | types; live owners keep claims; equivalent work is exclusive |
| `task_queue_work` | 3 tasks of one fingerprint, two of which may be legacy rows, 2 workers, 3 claims | superseded tasks never stand for each other in a cycle; work is not dropped by deduplication; refinement of `ExclusiveWork`; every claim ends |
| `pool_storm` | 1 proposal, 1 worker, 1 verifier, crashes and database faults, repairs off | nothing promoted untested, terminal means reverted, tickets stay good, only lost promotions are recovered |
| `pool_calm` | 1 proposal, 2 workers, 2 verifiers, no failures | promoted code is in `main`; a terminal failure stays; refinement of `OneTrial`; every commit is judged; every verification ends |
| `pool_repair` | 1 proposal, 2 workers, 1 verifier, repairs on, reports running | repairs and claims stay within their limits; no commit is reverted twice, though a repair turn replaces the record of the revert |
| `daily_claims` | 3 workers, 2 processes, limit 2 | mutual exclusion and the daily limit under crashes, expiry and failed releases |
| `cost_ledger` | 3 calls, 2 of them autonomous and of one agent, 3 ticks of which each begins a day, costs below and above the reserved one | call and cost limits hold in every day and every 24 hours; calls stay counted; settled rows stay; autonomous calls are rationed |
| `campaign` | 2 radars, 2 payers, resumption after 2 healthy cycles, with and without the mutex | one operation in the row; spending is answered for; a hard halt stays; a cycle is recorded once |
| `admission_queue` | 2 rows, 2 keys of one market and lineage (two revisions of a lab strategy), 2 passes that may overlap, 2 open trades at most | one fill per episode; one open trade per admission key; as long as passes do not overlap also no duplicate exposure, trades are followed and ended rows stay |
| `pool_reopen`, `pool_ancestry`, `pool_orphan` | as above | the three disagreements of section 6 |

*Bounds.* Two equivalent tasks are enough for a pair to be active at once, and a
third lets a chain or a cycle of `canonical` form. Three claims let a task be
claimed, lost, claimed again by another worker and compete with a third claim.
In the pool one proposal suffices for everything between one proposal's row, its
task, its jobs and its commits; the claims of `task` and `job` come from one
counter (`MaxTokens` 5 or 6), enough for two promotions, their verifications and a
retried one. `MaxCommits` 4 is two promotions and two reverts. `MaxTokens`,
`MaxClaims`, `MaxRepairs`, `DailyLimit` are the code's limits or stand for
"any number"; when `MaxTokens` is reached nobody can claim any more, and the
liveness properties of the pool say so explicitly. `QueueStatuses` has two of the
statuses of `PROPOSAL_QUEUE_STATUSES`, which the code treats alike.
Runs use `defer_full_regression` on, the path with asynchronous verification.
In `cost_ledger` the limits are chosen so that each of them is the one that
refuses in some state: a third call for everybody, a second one of the agent in a
day, a second one after an answer that cost more than its reservation; three
ticks make calls of the same day, of neighbouring days and of days more than 24
hours apart. In `campaign` a second radar is what writes back a stale copy or
meets the first one's cycle, a second payer what takes a lease that was left
behind, and two healthy cycles are the shortest streak that can be interrupted. In
`admission_queue` two rows of one key compete for it, and two of different keys are
one exposure that the index does not see; every pass begins again after it ends or
dies, so a row is selected, lost, selected again and filled by the other pass.
The rows of that instance are bounded (a row is never deleted), so what happens after both have ended is only
more passes over ended rows. A candidate without a lineage is left to the proof, which
covers any `Market` and `Lineage`. The three runs have about 1.1, 2.0 and 3.0 million
distinct states.
Symmetry is used only in runs without liveness properties.

*Why some properties are checked under mild conditions only.* They fail, for
reasons visible in the code, under harsher ones: with crashes a proposal may be
verified twice or stay `promoted` after a revert whose record was lost
(`PromotedCodeIsInMain`); with crashes a fourth claim can be taken, though it is
parked before a session starts (`ClaimsAreBounded`); with repairs
the verifier's `requeue_task` without an owner can take a row from a worker
(`TicketsAreGood`); with faults and two workers a terminal failure can be
overtaken by a retry (`TerminalMeansReverted`); with faults and two workers, with
repairs and crashes, or with ancestry reports, a commit that no regression has seen
can run under a promoted proposal (`PromotedCodeIsTested`, section 6). Each property
is checked in the strongest of the environments in which the code can be expected
to hold it.
`TradesAreFollowed` and `EndedEpisodesStay` of the admission queue ask that
passes have never overlapped, because `reconcile` and `enqueue` write by
`queue_id` a status they read earlier: an overlapping pass may end a row that
has just been filled. `NoDuplicateExposure` asks it too, because the exposure is
read before the fill's transaction and not again inside it. `OneFillPerEpisode` and
`OneTradePerKey` hold all the same. `HardHaltStays` asks for the mutex: a copy
loaded before the halt may be written over it without.

*Deadlock* is checked in every run except `campaign`, in which each radar and each
payer runs once, so a campaign ends. A call of `cost_ledger` also ends; there the
replay, which is always possible, keeps the system going.

*Fairness.* The runs of the ledger, the campaign and the admission queue check
safety only and assume none: nothing in the code makes a provider answer, an
operator reset or a scanner find a candidate. `FairSpec` of the queue: every
process ends (the supervisor runs one iteration per process, and sessions, test
runs and Git commands have time limits); leases run out; and `claim_task` begins
with `reclaim_stale_tasks`. Nothing is assumed of a worker: it may never
complete, renew for ever or claim without end. `PidReuse` is off in that run: a
pid that is given out again and again while a dead owner's row names it
postpones the reclaim without bound. `FairPool`: the supervisor starts the next
iteration, a thread that has begun a turn goes on, and a verifier gets to run in
an iteration (each iteration submits every verifier once, so strong fairness of
`StartCheck`).

## 5. Proofs

Each theorem is proved from the named assumption on the constants of its module,
for any finite or infinite number of processes the assumption allows.

**`TaskQueueProofs`** proves, from `QueueConstants` and `LateIdentityIsUnique`,
`Spec => []TypeOK`, `[]LiveOwnerKeepsClaim`, `[]OneActivePerWork`,
`[]NoCanonicalCycle`, `WorkIsNeverDropped` and `OwnershipIsExclusive`. The
inductive invariant is

    IInv == TypeOK /\ ClaimsAreMinted /\ TicketsHold /\ FingerprintsAreTrue /\ OneActivePerWork

`OneActivePerWork` is not inductive: `claim_task` looks for active peers by the
fingerprint *column*, so the column must be that of the work
(`FingerprintsAreTrue`), which fails only for tasks whose work is their own.
`LiveOwnerKeepsClaim` is not inductive: a reclaim spares a row because its `pid`
is alive, so the ticket of a worker must be tied to its process (`TicketsHold`).
`ClaimsAreMinted` keeps `claim_count` inside its type. The steps are split in
two: those that leave every claim alone satisfy `Quiet`, one lemma for all of
them (enqueue, backfill, reconciliation, time); the others have a lemma each. For
the refinement, `OneActivePerWork` gives the exclusion that `Begin` requires, and
every other step is a stutter or a `Stop`. Deduplication needs no induction over
chains: a row superseded in a step names a row of the same work that still blocks
after it (`RowSurvives`), so no step can close a cycle, and the work goes on
standing somewhere.

**`DailyClaimBudgetProofs`** proves the types and `LeaseSpec => []AtMostOneInside`
(whoever is inside is named by the row with its token *and* its process, so a row
whose process is dead has nobody inside), and for the budget `[]AtMostOneInside`
and `[]ClaimsWithinDailyLimit` (a worker that is about to claim has counted fewer
than the limit, and nobody else can have claimed since).

**`CostLedgerProofs`** proves the types, `EveryCallIsCounted`, `SettledRowsStay`,
`AutonomousCallsAreRationed`, `CallLimitsHold` and `CostLimitsHold`. The second and
the third rest on `AllCounted`: the position of a call determines what its row and
its deferred line can be, so a cancellation only meets a call that has not been
made, and a replay brings in only what the call itself would have written.
`Rationed` says that an attempt is counted before the call that needed it. The
limits follow from `PaidWithinLimits`, the same bound on the *rows*: a reservation
looks at every row of any day or 24 hours that its own time is in, later ones
included (`SpansAreSeen`), so the one row it adds is within the limit of each of
them; and a call that was made has a paid row. Costs go the same way
(`CostsWithinLimits`), with `ReservationsAreWhole` for what a reservation carries
until it is settled: a call counts up to what was reserved for it, since an answer
may cost more, of which only the next reservation hears. A sum over a set of calls is
a fold, and what a fold computes is known for one element more at a time only; in
place of an induction, `SumAdds` and `SumGrows` look at a smallest subset for which
they would fail (`SmallestSubset`).

**`BoundedCampaignProofs`** proves the types, `OneOperation`, `HardHaltStays`,
`CyclesRecordedOnce` and `SpendingIsAnswered`. The invariant of the second is
`AllSingle`: not only the row but every copy that may be written over it names at
most one operation, because a radar changes nothing but the status of its copy and
the operator clears both. The third needs `Guarded`: under the mutex one process is
alive (`OneAlive`) and a copy that is about to be written has seen the halt
(`HaltIsSeen`). The last needs `Answering`: whatever was spent up to a radar's
baseline is in the watermark of the row, or is the one call of the operation
released last. It has to be said of the row (`RowsFit`) and of every copy that may
come back over it (`CopiesAnswer`); where the code compares `updated_at`, the copy
is the row (`CopiesAreTheRow`).

**`PaperAdmissionQueueProofs`** proves the types with the one active row of a key
(`Sane` adds that a pass past its claim works on a row), `OneFillPerEpisode` by
counting (`FillsAreTrades`: an episode has been filled once if it has a trade, and
never otherwise), `OneTradePerKey`, `NoDuplicateExposure` and the cap on open trades
(`OpenTradesStayCapped`). Exposure is read in one step and the fill made in a later
one. For rows of one key, what carries it over is `CheckedIsUnexposed`: a pass that
has checked and still holds its claim works on the one active row of its key, so no
other row of that key can have been filled since, however passes overlap. For rows
of different keys there is no such row, and what carries it over is that no other
pass has been under way (`ExposedInTurn`, which rests on `InTurn`: nobody else has
filled between the check and the fill, `NothingElseIsFilled`); only then is
`NoDuplicateExposure` true. `TradesAreFollowed` and `EndedEpisodesStay` are
proved of passes that have not overlapped, from `InTurn`: one pass is under way
(`OnePass`), so what it read of a row is still so when it writes by `queue_id`
(`SightIsFresh`, `VerdictHolds`), and the row of an open trade stays one that
follows it (`Followed`).

**The pool.** `CodexWorkerPoolTypes` proves `PoolTypeOK`, with what the later
modules start from (`PoolNamed`): every thread at work is at work on the task of
its own ticket, the synchronisation on a task of its list, all threads in one
process. Each theorem asks of the environment only what its argument needs, so most
of them go beyond the run that checks them:

| Property | Proved when | Invariant |
|---|---|---|
| `RevertedOnce` | always | `Undone` |
| `RepairsAreBounded` | always | `Repaired` |
| `TicketsAreGood` | no repairs | `Ticketed` |
| `TerminalMeansReverted`, `ReconcilesLostWrites` | no repairs; one worker if database writes may fail (`Alone`) | `Sound` |
| `PromotedCodeIsTested` | no repairs or ancestry reports; one worker if database writes may fail (`Alone`) | `Examined` |
| `PromotedCodeIsInMain`, `FailedVerificationIsTerminal` | no repairs, ancestry reports, crashes or faults (`Undisturbed`) | `Calm` |
| `EveryProposalHasOneTrial` | `Undisturbed`, and the full regression deferred (`Defer`) | `Calm` |
| `ClaimsAreBounded` | no crashes or faults (`Steady`), `max_task_claims` above 0 | `Counted` |

* `RevertedOnce` is inductive once reverts look backwards (`RevertsLookBack`),
  since the code looks for a revert in `main` before it writes one.
* `RepairsAreBounded`: the verifier counts repairs before the revert and records
  one after it. `AllowedFit` keeps the permission good in between: while a
  verifier holds the job no other can take it, because nothing reclaims it.
* `TicketsAreGood`: finishing a job writes the task without looking whose it is,
  and after a crash between the hand-over and the end of the turn a worker may hold
  it. What is written then is a status that nobody claims, and the claim columns
  stay; with repairs, the verifier's `requeue_task` clears them and offers the task.
* `TerminalMeansReverted`: a task never has two commits in `main`
  (`OneCandidate`), the marker of a recovery is true (`AllReverted`), and a
  promotion that no row records is about to be recorded by its worker or by the
  next synchronisation (`UnrecordedAwaits`); this survives a crash between any two
  of the recovery's writes. When database writes may fail and there are two
  workers, the task of a failed turn can be taken again in the same iteration,
  before the synchronisation has seen its commit; a second candidate goes to
  `main`, and only one of the two is reverted.
* `PromotedCodeIsTested`: the regression runs in a worktree, as that is by then, so
  a verdict is about the promoted change only if nothing else has been done there.
  `TreeFits` says so: once a task has a commit in `main`, its worktree holds that
  commit's change or is gone, since only a session of a task without one edits it
  (`CodingStartsFresh`). From the passed regression on, a verifier (`HasPassed`) and
  what it leaves behind (a `git_sync` job, a promoted proposal: `CodeIsTested`) stand
  for a change that was tested, whoever is killed in between; and by `OneCandidate`
  no second commit comes in later. The three conditions are needed (section 6).
* `PromotedCodeIsInMain`: `Calm` adds that what a verifier or the synchronisation
  is about to write agrees with `main` and with the statuses of both jobs. Each
  crash or lost write breaks this agreement for the time until the next
  synchronisation, and some for good.
* `EveryProposalHasOneTrial`: initial states map to the initial state and every step
  to a step of `OneTrial` or a stutter (`PoolStepIsTrialStep`), for any number of
  proposals. A step moves the code of one proposal at most, and forward
  (`CodeSteps`): a commit enters `main` only for a proposal without one, a verifier
  in its regression finds the commit in force (`TestedIsInForce`), a
  job that was kept is not verified again (`KeptStays`), and only a regression
  keeps (`WhoKeeps`). A step that writes a status leaves the code alone
  (`SameCode`), and what it writes agrees with the verdict by `Calm`. When the full
  regression is not deferred, it runs before the promotion and there is no job
  from which to read the verdict.
* `ClaimsAreBounded`: at each moment a task is offered, or in one worker's hands,
  or under verification, or about to be sent back by one verifier (`OneStage`). An
  offered task has a claim to spare; a permission to send it back stays good
  because nobody can claim it meanwhile; and no claim outlives its worker's turn,
  so nothing is reclaimed. `src/codex_worker_pool.py:702` allows a limit of 0 (the
  default is 3); the first claim is then one too many, and its worker parks the
  task at once.

Only model-checked are the liveness properties `EveryClaimEnds`,
`EveryCommitIsJudged` and `EveryVerificationEnds`: they need fairness and
`ENABLED`, out of TLAPS' reach here. No module with a theorem uses a recursive
operator.

## 6. Where the code disagrees with what is said of it

* **Reopening a reverted promotion** (`pool_reopen`,
  `src/codex_worker_pool.py:330`). With repairs on, a proposal sent back for
  repair is in a queue status and its reverted commit is in the log, so the next
  synchronisation "recovers" the reverted commit and queues its verification.
* **A terminal failure becomes promoted** (`pool_ancestry`,
  `src/code_evolution.py:6844`). A reverted commit is still an ancestor of
  `HEAD`, and the reconciliation with Git asks nothing else.
* **Orphaned verification jobs** (`pool_orphan`,
  `src/codex_coordination.py:1054`). A job claimed by a verifier that died is
  never claimed again.

Others came up while modelling and have no run of their own:

* *A radar and a paid operation overlap.* `src/paid_research_once.py:81` claims
  to "Atomically exclude radar and duplicate paid work at the campaign DB." A radar
  loads the row and decides to halt; a payer takes the lease; the radar's
  `_persist_state` writes its copy back and with it drops the lease, and its claim
  then compares with its own `updated_at` and succeeds. The row still names one
  operation (`OneOperation`), but two are under way. It takes a start without the
  cycle mutex, which `src/paper_expansion_campaign.py:1864` says cannot race either.
  The same writing back undoes a halt that came in between.
* *A deferred result may block all paid calls.* A line whose `prompt_tokens` differ
  from the estimate, or whose reservation was cancelled, conflicts with its row
  for ever; no replay brings it in, and `complete` refuses every later call while
  a line is unreconciled (`Reconciled`, `Conflicting` of `CostLedger`).
* *A stranded reservation does not always stay charged.* `src/cost_router.py:1185`
  says it does; when the cancellation fails and the call is then logged as
  refused, the log settles it at zero. The call was never made, so no limit is
  harmed (`EveryCallIsCounted`).
* *A repeated evidence fingerprint aborts a pass.* When a terminal row of the key
  already has the fingerprint a candidate brings again, the refresh of the active
  row violates the unique index, and the whole pass raises
  (`src/paper_admission_queue.py:1094`).
* *An overlapping pass ends a filled row.* `reconcile` and `enqueue` write by
  `queue_id` a status read earlier (`src/paper_admission_queue.py:986`, `1659`), so
  a row with an open trade can become terminal and is then followed by nobody.
* *The tree of `main` is not the tree that was tested.*
  `src/codex_worker_pool.py:1341` runs the regression of a candidate in its release
  worktree. When `main` had moved, `src/evolution/worktree.py:303` cherry-picks the
  change onto it, and the tree this makes is tested by nobody. `PromotedCodeIsTested`
  therefore speaks of the change; whether two disjoint changes that pass apart also
  pass together is not known of any promoted commit.
* *The verdict may be about another change.* The worktree and its row outlive the
  promotion. With two workers and a lost write, the task of a failed turn is taken
  again, and its session edits the worktree that a verifier is about to test; with
  repairs, a crash can leave the job of the reverted commit to be verified on the
  repaired worktree, or the checkout of `main` to be tested after the commit was
  reverted there. Dropping `Alone`, or turning repairs and crashes on, in `pool_storm`
  violates `PromotedCodeIsTested`.
* *Two revisions may be open at once.* `docs/STABILIZATION_REVIEW_2026-08-06.md:69`
  says the gate prevents "duplicate open exposure across revisions". The gate is
  read in `src/radar_loop.py:1785` before the fill's transaction, and two overlapping
  passes that hold rows of different admission keys and one exposure both find none
  and both fill. Without its condition on overlap, `NoDuplicateExposure` is violated in
  `admission_queue`.
* *A promotion that is pushed may stay recorded as pending.* A verifier that
  could not push ends its job, queues the `git_sync` job and only then writes
  `promoted_pending_verification` from the row it read before the regression
  (`src/codex_worker_pool.py:1354`, `1364`). Another verifier may take the
  `git_sync` job, push and record `promoted` in between; the late write covers it,
  and nothing raises the status again. `OneTrial` allows it: the record says less
  than the verdict.

## 7. Not modelled, and why

*In the pool.* The coding session, gates, canary and sandbox are external programs
whose outcome is a choice of the model. The computation of fingerprints, prompts,
scores and statistics is data. Strategy, adapter and activation owner tasks pass
through the same queue functions as `Enqueue`. The promotion path outside the pool
(`legacy_single_writer`), the post-promotion health check that reverts a promoted
proposal, and several proposals of one work are not in the model.
`run_worker_once` may take another task after a quick one; the model lets it,
without the limit of hops. The index of the shared checkout between `git revert
--no-commit` and `git commit` is not modelled. That `os.kill(pid, 0)` answers
whether a process lives is assumed; on Windows the call does something else.

*In the paid and the paper chain.* `adopt_deferred_cost_ledger` and the
reconciliation of a new configuration in `apply_campaign_controls` (an operator's
migration; the latter writes the loaded copy back as `PersistCopy` does), the
limits on scans, prices and routes, the scoring and fairness of the selection,
evidence bindings and the tables that only audit, the horizon outcomes beside the
one the queue waits for, and trades opened by callers other than the queue.

*Components without a module.* The writer lock of a coding session decides by the
age of a file in seconds, which an untimed model cannot tell from none, and in the
pool the task's claim excludes. The owners' own tables and the lane rotation of
their scheduler are read and written in separate transactions; the concurrent pool
switches the lanes off, and what reaches the shared queue is modelled there.
Horizon selection, decay quarantine, the strategy modules and route resolution are
thresholds and statistics over numbers that a model would have to invent, computed
in one thread. Scanners and adapters are network I/O and conversion without
shared state; reports, memory and settings are derived data. These are by far the
most lines of the repository and have next to no control that a model would add
to. `PROJECT.json` lists every component, and the hazards that these carry at their
lines, with the reason no property covers them.
