-------------------------- MODULE CodexWorkerPool --------------------------
(***************************************************************************)
(* codex_worker_pool.py: one iteration of the pool synchronises proposals  *)
(* into the queue, then runs coding workers and verifiers as threads of    *)
(* one process.  Three stores must agree and none shares a transaction     *)
(* with another: the proposals (radar database), the tasks and jobs        *)
(* (coordination database) and Git's main branch.  Each action below is    *)
(* one write to one of them, so that a crash, or a database that stays     *)
(* locked, may fall between any two.                                       *)
(*                                                                         *)
(* A task stands for the proposal of the same name.  Git operations under  *)
(* the main_promotion lease are single steps: ResourceLease shows that no  *)
(* two threads are inside it at once.                                      *)
(***************************************************************************)
EXTENDS VerificationQueue, Sequences

CONSTANTS
    MaxClaims,          \* max_task_claims
    Defer,              \* defer_full_regression
    KeepRepairing,      \* keep_repairing_after_verification_failure
    MaxRepairs,         \* max_verification_repairs
    Ancestry,           \* reports run reconcile_code_evolution_git_statuses
    Crashes,            \* the process may be killed
    Faults,             \* a database write, or Git, may fail in a thread
    MaxCommits          \* bound on the length of main

ASSUME PoolConstants ==
    /\ {MaxClaims, MaxRepairs, MaxCommits} \subseteq Nat
    /\ {Defer, KeepRepairing, Ancestry, Crashes, Faults} \subseteq BOOLEAN

VARIABLES
    prop,       \* the rows of code_evolution_proposals
    main,       \* the autonomous commits of the main branch, oldest first
    phase,      \* what the pool's process is doing
    sync,       \* where sync_available_work is
    turn,       \* where each worker is in _run_one_worker_task
    check,      \* where each verifier is in run_verifier_once
    repairs,    \* 'failed_needs_repair' events of each job
    worktree,   \* what the release worktree of each proposal holds
    tested      \* history: commits of main whose change a full regression passed

poolvars == <<prop, main, phase, sync, turn, check, repairs, worktree, tested>>
everything == <<allvars, poolvars>>

----------------------------------------------------------------------------
(* Git.                                                                    *)

Commits == 1 .. Len(main)

CandidatesOf(t) == {i \in Commits : main[i].of = t /\ main[i].undoes = 0}

\* The recovery marker in Git's log names the commit that was reverted; a name
\* that is no commit is refused before Git is asked.
Reverted(i) == i # 0 /\ \E j \in Commits : main[j].undoes = i

InForce(i) == i \in Commits /\ main[i].undoes = 0 /\ ~Reverted(i)

Elsewhere == -1     \* a commit that is not on main

\* git log lists the newest first and the dict keeps what it reads last.
Oldest(t) == CHOOSE i \in CandidatesOf(t) : \A j \in CandidatesOf(t) : i <= j
Newest(t) == CHOOSE i \in CandidatesOf(t) : \A j \in CandidatesOf(t) : i >= j

----------------------------------------------------------------------------
(* Proposals.  promo and recovered are parts of evaluation_json: the       *)
(* promoted commit, and that a failed verification was recovered from.     *)

\* PROPOSAL_QUEUE_STATUSES, of which two stand for all.
QueueStatuses == {"proposed", "implementation_paused"}
Pending == "promoted_pending_verification"
Parked == "parked_retry_limit"

ProposalStatuses == QueueStatuses \cup
    {Pending, "promoted", "archived_failed", Parked,
     "verification_failure_recovery_pending", "verification_failure_reverted",
     "reverted_verification_failure"}

CommitRefs == {Elsewhere} \cup 0 .. MaxCommits   \* 0 stands for null

Proposal == [status: ProposalStatuses, cand: CommitRefs, promo: CommitRefs,
             recovered: BOOLEAN, release: BOOLEAN]

NewProposal == [status |-> "proposed", cand |-> 0, promo |-> 0,
                recovered |-> FALSE, release |-> FALSE]

PromotedCommit(row) == IF row.promo # 0 THEN row.promo ELSE row.cand

\* A worktree holds the change of a commit of main, or something else (0): the
\* work of a session, or main itself.
Removed == Elsewhere
RemoveWorktree(t) == worktree' = [worktree EXCEPT ![t] = Removed]

\* update_code_evolution_proposal with the evaluation of a row read earlier.
Rewrite(t, status, snap, recovered) ==
    prop' = [prop EXCEPT ![t] = [@ EXCEPT !.status = status, !.promo = snap.promo,
                                          !.recovered = recovered,
                                          !.release = snap.release]]

----------------------------------------------------------------------------
(* The thread-local state.                                                 *)

IdleTurn == [at |-> "idle", task |-> NoTask, claims |-> 0,
             result |-> "proposed", commit |-> 0]

TurnStates == {"idle", "over", "exhausted", "dispatch", "coding", "committed",
               "result", "handoff", "failed", "park"}

Turn == [at: TurnStates, task: Tasks \cup {NoTask}, claims: Tokens,
         result: ProposalStatuses, commit: CommitRefs]

IdleCheck == [at |-> "idle", snap |-> NewProposal, allowed |-> FALSE]

CheckStates == {"idle", "over", "claimed", "testing", "passed", "synced", "promoted",
                "unsynced", "sync_queued", "git_synced", "failed", "unreverted",
                "recovery_pending", "reverted", "repair", "terminal",
                "terminal_recorded", "repair_recorded", "requeue"}

Check == [at: CheckStates, snap: Proposal, allowed: BOOLEAN]

IdleSync == [todo |-> {}, t |-> NoTask, at |-> "reconcile"]

SyncState == [todo: SUBSET Tasks, t: Tasks \cup {NoTask},
              at: {"reconcile", "enqueue_promoted", "complete", "enqueue_job",
                   "enqueue"}]

GoTo(w, at) == turn' = [turn EXCEPT ![w].at = at]
EndTurn(w, at) == turn' = [turn EXCEPT ![w] = [IdleTurn EXCEPT !.at = at]]
Move(v, at) == check' = [check EXCEPT ![v].at = at]

\* A verifier takes one job in an iteration.
EndCheck(v) ==
    /\ check' = [check EXCEPT ![v] = [IdleCheck EXCEPT !.at = "over"]]
    /\ checking' = [checking EXCEPT ![v] = NoJobTicket]

----------------------------------------------------------------------------
(* The process.                                                            *)

\* A mutant: reconciliation looks at proposals of every status.
BeginReconcilingAll(p) ==
    /\ phase = "down"
    /\ pidOf' = [th \in Threads |-> p]
    /\ phase' = "sync"
    /\ sync' = [IdleSync EXCEPT !.todo = {t \in Tasks : CandidatesOf(t) # {}}]
    /\ UNCHANGED <<task, held, minted, jobvars, prop, main, turn, check,
                  repairs, worktree, tested>>

\* OS-level singletons prevent a second pool.
BeginIteration(p) ==
    /\ phase = "down"
    /\ pidOf' = [th \in Threads |-> p]
    /\ phase' = "sync"
    /\ sync' = [IdleSync EXCEPT !.todo =
            {t \in Tasks : prop[t].status \in QueueStatuses /\ CandidatesOf(t) # {}}]
    /\ UNCHANGED <<task, held, minted, jobvars, prop, main, turn, check,
                  repairs, worktree, tested>>

Down ==
    /\ phase' = "down" /\ sync' = IdleSync
    /\ turn' = [w \in Workers |-> IdleTurn]
    /\ check' = [v \in Verifiers |-> IdleCheck]
    /\ checking' = [v \in Verifiers |-> NoJobTicket]
    /\ UNCHANGED <<job, prop, main, repairs, worktree, tested>>

EndIteration ==
    /\ phase = "turns"
    /\ \A w \in Workers : turn[w].at \in {"idle", "over"}
    /\ \A v \in Verifiers : check[v].at \in {"idle", "over"}
    /\ \E p \in Pids : Die(p)
    /\ Down

\* A database that is busy during the synchronisation ends the iteration too.
Crash ==
    /\ \/ Crashes /\ phase # "down"
       \/ Faults /\ phase = "sync"
    /\ \E p \in Pids : Die(p)
    /\ Down

----------------------------------------------------------------------------
(* sync_available_work: _reconcile_promoted_commits, then the enqueue loop. *)

SyncUnchanged == UNCHANGED <<pidOf, held, minted, checking, main, phase, turn, check,
                             repairs, worktree, tested>>

ReconcilePromotedCommit(t) ==
    /\ phase = "sync" /\ sync.at = "reconcile" /\ t \in sync.todo
    /\ prop' = [prop EXCEPT ![t].status = Pending, ![t].cand = Oldest(t)]
    /\ sync' = [todo |-> sync.todo \ {t}, t |-> t, at |-> "enqueue_promoted"]
    /\ UNCHANGED <<task, job>> /\ SyncUnchanged

EnqueuePromoted ==
    /\ phase = "sync" /\ sync.at = "enqueue_promoted"
    /\ EnqueueTask(sync.t, FpOf[sync.t])
    /\ sync' = [sync EXCEPT !.at = IF task'[sync.t].status = "superseded_duplicate"
                                   THEN "reconcile" ELSE "complete"]
    /\ UNCHANGED <<job, prop>> /\ SyncUnchanged

\* complete_task without worker_id and claim_token.
CompletePromoted ==
    /\ phase = "sync" /\ sync.at = "complete"
    /\ task' = [task EXCEPT ![sync.t] = [Unclaimed(@) EXCEPT !.status = Pending]]
    /\ sync' = [sync EXCEPT !.at = "enqueue_job"]
    /\ UNCHANGED <<job, prop>> /\ SyncUnchanged

EnqueueReconciledJob ==
    /\ phase = "sync" /\ sync.at = "enqueue_job"
    /\ EnqueueVerificationJob(sync.t, "full_regression",
                              <<"commit", Oldest(sync.t)>>)
    /\ sync' = [sync EXCEPT !.at = "reconcile"]
    /\ UNCHANGED <<task, prop>> /\ SyncUnchanged

EndReconcile ==
    /\ phase = "sync" /\ sync.at = "reconcile" /\ sync.todo = {}
    /\ sync' = [todo |-> {t \in Tasks : prop[t].status \in QueueStatuses},
                t |-> NoTask, at |-> "enqueue"]
    /\ UNCHANGED <<task, job, prop>> /\ SyncUnchanged

EnqueueProposal(t) ==
    /\ phase = "sync" /\ sync.at = "enqueue" /\ t \in sync.todo
    /\ EnqueueTask(t, FpOf[t])
    /\ sync' = [sync EXCEPT !.todo = @ \ {t}]
    /\ UNCHANGED <<job, prop>> /\ SyncUnchanged

EndSync ==
    /\ phase = "sync" /\ sync.at = "enqueue" /\ sync.todo = {}
    /\ phase' = "turns" /\ sync' = IdleSync
    /\ UNCHANGED <<task, job, prop, pidOf, held, minted, checking, main, turn, check,
                   repairs, worktree, tested>>

SyncStep ==
    \/ \E t \in Tasks : ReconcilePromotedCommit(t) \/ EnqueueProposal(t)
    \/ EnqueuePromoted \/ CompletePromoted \/ EnqueueReconciledJob
    \/ EndReconcile \/ EndSync

----------------------------------------------------------------------------
(* A worker's turn.                                                        *)

Mine(w) == turn[w].task

WorkerUnchanged == UNCHANGED <<checking, phase, sync, check, repairs>>

PoolClaim(w) ==
    /\ phase = "turns" /\ turn[w].at = "idle"
    /\ \E lane \in Lanes : ClaimTask(w, lane)
    /\ LET t == held'[w].task
       IN  turn' = [turn EXCEPT ![w] =
                [IdleTurn EXCEPT !.task = t, !.claims = task'[t].claims,
                    !.at = IF task'[t].claims > MaxClaims THEN "exhausted"
                                                          ELSE "dispatch"]]
    /\ UNCHANGED <<job, prop, main, worktree, tested>> /\ WorkerUnchanged

\* process_code_change_recommendation returns at once when the proposal is
\* not one that may be (re)tried; else a session edits the worktree, which it
\* makes when there is none, unless it is refused first.
Dispatch(w) ==
    /\ turn[w].at = "dispatch"
    /\ LET status == prop[Mine(w)].status
           retry == status \in QueueStatuses
       IN  /\ turn' = [turn EXCEPT ![w].at = IF retry THEN "coding" ELSE "result",
                                   ![w].result = status]
           /\ \E edited \in {FALSE, retry} :
                 worktree' = [worktree EXCEPT ![Mine(w)] = IF edited THEN 0 ELSE @]
    /\ UNCHANGED <<vars, job, prop, main, tested>> /\ WorkerUnchanged

\* The session did not finish, or the candidate failed a gate before or
\* after it was committed in its worktree.  A candidate that overlaps newer
\* code is to be repaired, and its commit is forgotten.
CodingEnds(w, status) ==
    /\ turn[w].at = "coding"
    /\ \E cand \in {prop[Mine(w)].cand, Elsewhere}
                    \cup (IF status = "archived_failed" THEN {} ELSE {0}),
          release \in {FALSE, worktree[Mine(w)] # Removed} :
          prop' = [prop EXCEPT ![Mine(w)] =
                    [status |-> status, cand |-> cand, promo |-> 0,
                     recovered |-> FALSE, release |-> release]]
    /\ \/ UNCHANGED worktree
       \/ status = "archived_failed" /\ RemoveWorktree(Mine(w))
    /\ turn' = [turn EXCEPT ![w].at = "result", ![w].result = status]
    /\ UNCHANGED <<vars, job, main, tested>> /\ WorkerUnchanged

\* promote_candidate: the commit "Autonomous candidate <id>" is on main.
\* Without deferral the full regression has run before, and the worktree is
\* removed.
PromoteCandidate(w) ==
    /\ turn[w].at = "coding" /\ Len(main) < MaxCommits
    /\ worktree[Mine(w)] = 0
    /\ main' = Append(main, [of |-> Mine(w), undoes |-> 0])
    /\ \E tree \in {Len(main) + 1} \cup (IF Defer THEN {} ELSE {Removed}) :
          worktree' = [worktree EXCEPT ![Mine(w)] = tree]
    /\ tested' = IF Defer THEN tested ELSE tested \cup {Len(main) + 1}
    /\ turn' = [turn EXCEPT ![w].at = "committed", ![w].commit = Len(main) + 1]
    /\ UNCHANGED <<vars, job, prop>> /\ WorkerUnchanged

\* A fast-forward keeps the candidate's commit, a cherry-pick makes another.
RecordPromotion(w) ==
    /\ turn[w].at = "committed"
    /\ LET status == IF Defer THEN Pending ELSE "promoted"
       IN  /\ \E cand \in {turn[w].commit, Elsewhere} :
                 prop' = [prop EXCEPT ![Mine(w)] =
                            [status |-> status, cand |-> cand,
                             promo |-> turn[w].commit, recovered |-> FALSE,
                             release |-> TRUE]]
           /\ turn' = [turn EXCEPT ![w].at = "result", ![w].result = status]
    /\ UNCHANGED <<vars, job, main, worktree, tested>> /\ WorkerUnchanged

\* The head of main cannot be read after the promotion, or be tagged: the
\* candidate is paused as if it had not been promoted.
PromotionUnseen(w) ==
    /\ Faults /\ turn[w].at = "committed"
    /\ \E cand \in {turn[w].commit, Elsewhere} :
          prop' = [prop EXCEPT ![Mine(w)] =
                    [status |-> "implementation_paused", cand |-> cand, promo |-> 0,
                     recovered |-> FALSE, release |-> TRUE]]
    /\ turn' = [turn EXCEPT ![w].at = "result", ![w].result = "implementation_paused"]
    /\ UNCHANGED <<vars, job, main, worktree, tested>> /\ WorkerUnchanged

\* complete_task and requeue_task change nothing for a worker that has lost
\* its row, and the turn goes on.
GiveBack(w, status) ==
    \/ Owns(w) /\ (IF status = "requeued" THEN RequeueTask(w) ELSE CompleteTask(w, status))
    \/ ~Owns(w) /\ UNCHANGED task /\ LetGo(w)

\* A mutant: the last claim is taken for one before the last.
LastClaimIsNotLast(w) == turn[w].claims > MaxClaims

LastClaim(w) == turn[w].claims >= MaxClaims
Retryable(w) == turn[w].result \in QueueStatuses

\* A mutant: the job is not queued.
HandOffNothing(w) ==
    /\ turn[w].at = "result" /\ turn[w].result = Pending
    /\ GoTo(w, "handoff")
    /\ UNCHANGED <<vars, job, prop, main, worktree, tested>> /\ WorkerUnchanged

HandOff(w) ==
    /\ turn[w].at = "result" /\ turn[w].result = Pending
    /\ EnqueueVerificationJob(Mine(w), "full_regression",
                              <<"claim", turn[w].claims>>)
    /\ GoTo(w, "handoff")
    /\ UNCHANGED <<vars, prop, main, worktree, tested>> /\ WorkerUnchanged

\* A worker whose turn ended at once goes on to another task; not so after
\* a promotion, a result to be retried or an exception.  The heartbeat that
\* follows may still raise, when the row has been given back already.
CompleteTurn(w) ==
    /\ \/ /\ turn[w].at = "handoff" /\ GiveBack(w, Pending)
          /\ EndTurn(w, "over") \/ (Faults /\ GoTo(w, "failed"))
       \/ /\ turn[w].at = "result"
          /\ ~Retryable(w) /\ turn[w].result # Pending
          /\ GiveBack(w, "completed")
          /\ \/ \E at \in {"idle", "over"} : EndTurn(w, at)
             \/ Faults /\ GoTo(w, "failed")
    /\ UNCHANGED <<job, prop, main, worktree, tested>> /\ WorkerUnchanged

RetryLater(w) ==
    /\ \/ turn[w].at = "result" /\ Retryable(w)
       \/ turn[w].at = "failed"
    /\ ~LastClaim(w)
    /\ GiveBack(w, "requeued")
    /\ EndTurn(w, "over")
    /\ UNCHANGED <<job, prop, main, worktree, tested>> /\ WorkerUnchanged

ParkTask(w) ==
    /\ \/ turn[w].at = "exhausted"
       \/ turn[w].at = "result" /\ Retryable(w) /\ LastClaim(w)
       \/ turn[w].at = "failed" /\ LastClaim(w)
    /\ GiveBack(w, Parked)
    /\ turn' = [turn EXCEPT ![w].at = "park", ![w].commit = 0]
    /\ UNCHANGED <<job, prop, main, worktree, tested>> /\ WorkerUnchanged

ParkProposal(w) ==
    /\ turn[w].at = "park"
    /\ prop' = [prop EXCEPT ![Mine(w)].status = Parked]
    /\ \E at \in {"idle", "over"} : EndTurn(w, at)
    /\ UNCHANGED <<vars, job, main, worktree, tested>> /\ WorkerUnchanged

\* An exception in the turn, and an exception in its handler.
Fail(w) ==
    /\ Faults
    /\ turn[w].at \in {"dispatch", "coding", "committed", "result", "handoff"}
    /\ GoTo(w, "failed")
    /\ UNCHANGED <<vars, job, prop, main, worktree, tested>> /\ WorkerUnchanged

FailAgain(w) ==
    /\ Faults /\ turn[w].at \in {"exhausted", "failed", "park"}
    /\ LetGo(w) /\ EndTurn(w, "over")
    /\ UNCHANGED <<task, job, prop, main, worktree, tested>> /\ WorkerUnchanged

TurnStep(w) ==
    \/ PoolClaim(w) \/ Dispatch(w)
    \/ \E status \in {"implementation_paused", "archived_failed"} : CodingEnds(w, status)
    \/ PromoteCandidate(w) \/ RecordPromotion(w) \/ PromotionUnseen(w)
    \/ HandOff(w) \/ CompleteTurn(w) \/ RetryLater(w)
    \/ ParkTask(w) \/ ParkProposal(w) \/ Fail(w) \/ FailAgain(w)

----------------------------------------------------------------------------
(* A verifier's run.                                                       *)

Its(v) == checking[v].task

CheckUnchanged == UNCHANGED <<pidOf, held, phase, sync, turn>>

\* _cleanup_verified_worktree, which may fail.
CleanUp(v) == UNCHANGED worktree \/ RemoveWorktree(Its(v))

StartCheck(v) ==
    /\ phase = "turns" /\ check[v].at = "idle"
    /\ ClaimVerificationJob(v)
    /\ Move(v, "claimed")
    /\ UNCHANGED <<phase, sync, turn, prop, main, repairs, worktree, tested>>

ReadProposal(v) ==
    /\ check[v].at = "claimed" /\ checking[v].kind = "full_regression"
    /\ check' = [check EXCEPT ![v].at = "testing", ![v].snap = prop[Its(v)]]
    /\ UNCHANGED <<task, minted, jobvars, prop, main, repairs, worktree, tested>>
    /\ CheckUnchanged

\* _run_full_regression: in the worktree that the row names, as it is by now,
\* and without one in the checkout of main.
TreeIsGone(v) == check[v].snap.release /\ worktree[Its(v)] = Removed

InTree(v) == IF check[v].snap.release THEN Commits \cap {worktree[Its(v)]}
                                      ELSE {i \in Commits : InForce(i)}

RegressionPasses(v) ==
    /\ check[v].at = "testing" /\ ~TreeIsGone(v)
    /\ Move(v, "passed")
    /\ tested' = tested \cup InTree(v)
    /\ UNCHANGED <<task, minted, jobvars, prop, main, repairs, worktree>>
    /\ CheckUnchanged

\* A mutant: keep_repairing_after_verification_failure is not looked at.
RepairAllowedAlways(t) == repairs[t] < MaxRepairs /\ task[t].claims < MaxClaims

\* A mutant: one repair too many.
RepairAllowedOnceMore(t) ==
    /\ KeepRepairing
    /\ repairs[t] <= MaxRepairs
    /\ task[t].claims < MaxClaims

RepairAllowed(t) ==
    /\ KeepRepairing
    /\ repairs[t] < MaxRepairs
    /\ task[t].claims < MaxClaims

RegressionFails(v) ==
    /\ check[v].at = "testing" /\ ~TreeIsGone(v)
    /\ check' = [check EXCEPT ![v].at = "failed", ![v].allowed = RepairAllowed(Its(v))]
    /\ UNCHANGED <<task, minted, jobvars, prop, main, repairs, worktree, tested>>
    /\ CheckUnchanged

\* A mutant: the verdict of the regression is not awaited.
SyncUntested(v) ==
    /\ check[v].at \in {"testing", "passed"}
    /\ PromotedCommit(check[v].snap) \in Commits
    /\ Move(v, "synced")
    /\ UNCHANGED <<task, minted, jobvars, prop, main, repairs, worktree, tested>>
    /\ CheckUnchanged

\* _sync_verified_runtime: the commit must be an ancestor of HEAD; the lease
\* or the push may also fail.
SyncRuntime(v) ==
    /\ check[v].at = "passed"
    /\ PromotedCommit(check[v].snap) \in Commits
    /\ Move(v, "synced")
    /\ UNCHANGED <<task, minted, jobvars, prop, main, repairs, worktree, tested>>
    /\ CheckUnchanged

RecordVerified(v) ==
    /\ check[v].at = "synced"
    /\ Rewrite(Its(v), "promoted", check[v].snap, check[v].snap.recovered)
    /\ Move(v, "promoted")
    /\ UNCHANGED <<task, minted, jobvars, main, repairs, worktree, tested>>
    /\ CheckUnchanged

FinishVerified(v) ==
    /\ check[v].at = "promoted"
    /\ FinishVerificationJob(v, "verified", "verified")
    /\ EndCheck(v) /\ CleanUp(v)
    /\ UNCHANGED <<minted, prop, main, repairs, tested>> /\ CheckUnchanged

\* A mutant: what could not be pushed is verified again.
SyncFailsAndRequeues(v) ==
    /\ check[v].at = "passed"
    /\ FinishVerificationJob(v, "requeued", Pending)
    /\ Move(v, "unsynced")
    /\ UNCHANGED <<minted, checking, prop, main, repairs, worktree, tested>>
    /\ CheckUnchanged

SyncFails(v) ==
    /\ check[v].at = "passed"
    /\ FinishVerificationJob(v, "verified_pending_sync", Pending)
    /\ Move(v, "unsynced")
    /\ UNCHANGED <<minted, checking, prop, main, repairs, worktree, tested>>
    /\ CheckUnchanged

QueueGitSync(v) ==
    /\ check[v].at = "unsynced"
    /\ EnqueueVerificationJob(Its(v), "git_sync",
                              <<"commit", PromotedCommit(check[v].snap)>>)
    /\ Move(v, "sync_queued")
    /\ UNCHANGED <<task, minted, checking, prop, main, repairs, worktree, tested>>
    /\ CheckUnchanged

RecordSyncPending(v) ==
    /\ check[v].at = "sync_queued"
    /\ Rewrite(Its(v), Pending, check[v].snap, check[v].snap.recovered)
    /\ EndCheck(v)
    /\ UNCHANGED <<task, minted, job, main, repairs, worktree, tested>>
    /\ CheckUnchanged

\* The git_sync job; its commit is the one in the payload it was claimed with.
GitSyncs(v) ==
    /\ check[v].at = "claimed" /\ checking[v].kind = "git_sync"
    /\ job[Its(v)]["git_sync"].rev[2] \in Commits
    /\ FinishVerificationJob(v, "synced", "verified")
    /\ Move(v, "git_synced")
    /\ UNCHANGED <<minted, checking, prop, main, repairs, worktree, tested>>
    /\ CheckUnchanged

RecordGitSynced(v) ==
    /\ check[v].at = "git_synced"
    /\ prop' = [prop EXCEPT ![Its(v)].status = "promoted"]
    /\ EndCheck(v) /\ CleanUp(v)
    /\ UNCHANGED <<task, minted, job, main, repairs, tested>> /\ CheckUnchanged

GitSyncFails(v) ==
    /\ check[v].at = "claimed" /\ checking[v].kind = "git_sync"
    /\ FinishVerificationJob(v, "requeued", Pending)
    /\ EndCheck(v)
    /\ UNCHANGED <<minted, prop, main, repairs, worktree, tested>> /\ CheckUnchanged

\* A mutant: Git's log is not searched for the recovery marker.
RecordedAsRecovered(v) == check[v].snap.recovered

\* _recover_failed_promoted_candidate: what the row already says, then the
\* recovery marker in Git's log, then a revert commit.
AlreadyRecovered(v) ==
    LET snap == check[v].snap
    IN  snap.recovered \/ Reverted(PromotedCommit(snap))

RecoveredBefore(v) ==
    /\ check[v].at = "failed" /\ AlreadyRecovered(v)
    /\ Move(v, "reverted")
    /\ UNCHANGED <<task, minted, jobvars, prop, main, repairs, worktree, tested>>
    /\ CheckUnchanged

RevertPromoted(v) ==
    LET commit == PromotedCommit(check[v].snap)
    IN  /\ check[v].at = "failed" /\ ~AlreadyRecovered(v)
        /\ commit \in Commits
        /\ main' = Append(main, [of |-> Its(v), undoes |-> commit])
        /\ Move(v, "reverted")
        /\ UNCHANGED <<task, minted, jobvars, prop, repairs, worktree, tested>>
        /\ CheckUnchanged

\* A mutant: a revert that failed is taken for one that was made.
RevertFailsUnnoticed(v) ==
    /\ check[v].at = "failed" /\ ~check[v].snap.recovered
    /\ Move(v, "reverted")
    /\ UNCHANGED <<task, minted, jobvars, prop, main, repairs, worktree, tested>>
    /\ CheckUnchanged

\* The lease times out, git fails, or the commit is not on main.
RevertFails(v) ==
    /\ check[v].at = "failed" /\ ~check[v].snap.recovered
    /\ Move(v, "unreverted")
    /\ UNCHANGED <<task, minted, jobvars, prop, main, repairs, worktree, tested>>
    /\ CheckUnchanged

RecordRecoveryPending(v) ==
    /\ check[v].at = "unreverted"
    /\ Rewrite(Its(v), "verification_failure_recovery_pending", check[v].snap, FALSE)
    /\ Move(v, "recovery_pending")
    /\ UNCHANGED <<task, minted, jobvars, main, repairs, worktree, tested>>
    /\ CheckUnchanged

FinishRecoveryPending(v) ==
    /\ check[v].at = "recovery_pending"
    /\ FinishVerificationJob(v, "requeued", Pending)
    /\ EndCheck(v)
    /\ UNCHANGED <<minted, prop, main, repairs, worktree, tested>> /\ CheckUnchanged

RecordReverted(v) ==
    /\ check[v].at = "reverted"
    /\ Rewrite(Its(v), "verification_failure_reverted", check[v].snap, TRUE)
    /\ Move(v, IF check[v].allowed THEN "repair" ELSE "terminal")
    /\ UNCHANGED <<task, minted, jobvars, main, repairs, worktree, tested>>
    /\ CheckUnchanged

RecordTerminal(v) ==
    /\ check[v].at = "terminal"
    /\ Rewrite(Its(v), "reverted_verification_failure", check[v].snap, TRUE)
    /\ Move(v, "terminal_recorded")
    /\ UNCHANGED <<task, minted, jobvars, main, repairs, worktree, tested>>
    /\ CheckUnchanged

\* A mutant: the job is requeued instead of ended.
FinishTerminalAgain(v) ==
    /\ check[v].at = "terminal_recorded"
    /\ FinishVerificationJob(v, "requeued", "reverted_verification_failure")
    /\ EndCheck(v) /\ CleanUp(v)
    /\ UNCHANGED <<minted, prop, main, repairs, tested>> /\ CheckUnchanged

FinishTerminal(v) ==
    /\ check[v].at = "terminal_recorded"
    /\ FinishVerificationJob(v, "failed_terminal", "reverted_verification_failure")
    /\ EndCheck(v) /\ CleanUp(v)
    /\ UNCHANGED <<minted, prop, main, repairs, tested>> /\ CheckUnchanged

\* candidate_commit is nulled when the worktree could be prepared.
RecordRepair(v) ==
    /\ check[v].at = "repair"
    /\ \E prepared \in {FALSE, check[v].snap.release /\ ~TreeIsGone(v)} :
          /\ prop' = [prop EXCEPT ![Its(v)] =
                       [status |-> "implementation_paused",
                        cand |-> IF prepared THEN 0 ELSE @.cand,
                        promo |-> check[v].snap.promo, recovered |-> TRUE,
                        release |-> check[v].snap.release]]
          /\ worktree' = [worktree EXCEPT ![Its(v)] = IF prepared THEN 0 ELSE @]
    /\ Move(v, "repair_recorded")
    /\ UNCHANGED <<task, minted, jobvars, main, repairs, tested>> /\ CheckUnchanged

FinishNeedsRepair(v) ==
    /\ check[v].at = "repair_recorded"
    /\ FinishVerificationJob(v, "failed_needs_repair", "repairing_post_promotion")
    /\ repairs' = [repairs EXCEPT ![Its(v)] = @ + 1]
    /\ Move(v, "requeue")
    /\ UNCHANGED <<minted, checking, prop, main, worktree, tested>> /\ CheckUnchanged

RequeueForRepair(v) ==
    /\ check[v].at = "requeue"
    /\ RequeueWithoutOwner(Its(v))
    /\ EndCheck(v)
    /\ UNCHANGED <<minted, job, prop, main, repairs, worktree, tested>>
    /\ CheckUnchanged

\* A database call of the verifier raises: the thread is gone, and the job,
\* unless it was finished, stays claimed.
CheckFails(v) ==
    /\ check[v].at \notin {"idle", "over"}
    /\ Faults \/ (check[v].at = "testing" /\ TreeIsGone(v))
    /\ EndCheck(v)
    /\ UNCHANGED <<task, minted, job, prop, main, repairs, worktree, tested>>
    /\ CheckUnchanged

CheckStep(v) ==
    \/ StartCheck(v) \/ ReadProposal(v) \/ RegressionPasses(v) \/ RegressionFails(v)
    \/ SyncRuntime(v) \/ RecordVerified(v) \/ FinishVerified(v)
    \/ SyncFails(v) \/ QueueGitSync(v) \/ RecordSyncPending(v)
    \/ GitSyncs(v) \/ RecordGitSynced(v) \/ GitSyncFails(v)
    \/ RecoveredBefore(v) \/ RevertPromoted(v) \/ RevertFails(v)
    \/ RecordRecoveryPending(v) \/ FinishRecoveryPending(v)
    \/ RecordReverted(v) \/ RecordTerminal(v) \/ FinishTerminal(v)
    \/ RecordRepair(v) \/ FinishNeedsRepair(v) \/ RequeueForRepair(v)
    \/ CheckFails(v)

----------------------------------------------------------------------------
(* What else happens: time, the lease heartbeat of a turn, the reclaim that *)
(* opens a turn, and the reports of other processes.                       *)

Heartbeat(w) ==
    /\ turn[w].at \in {"dispatch", "coding", "committed", "result", "handoff", "failed"}
    /\ RenewTaskLease(w)

ReclaimBeforeTurn ==
    /\ phase = "turns" /\ \E w \in Workers : turn[w].at = "idle"
    /\ ReclaimStaleTasks

TimePasses ==
    \/ \E t \in Tasks : LeaseExpires(t) \/ RetryComesDue(t)
    \/ \E w \in Workers : Heartbeat(w)
    \/ ReclaimBeforeTurn

JobTimePasses == \E t \in Tasks, k \in Kinds : JobRetryComesDue(t, k)

\* reconcile_code_evolution_git_statuses, run by the report of an evolution
\* cycle: "Make Git ancestry authoritative when persisted proposal status
\* drifted."
AncestryOf(row, t) ==
    LET cand == IF row.cand = 0 /\ row.status # "promoted" /\ CandidatesOf(t) # {}
                THEN Newest(t) ELSE row.cand
    IN  [row EXCEPT !.cand = cand,
                    !.status = IF cand \in Commits THEN "promoted" ELSE @]

ReconcileGitStatuses ==
    /\ Ancestry
    /\ prop' = [t \in Tasks |-> AncestryOf(prop[t], t)]
    /\ UNCHANGED <<allvars, main, phase, sync, turn, check, repairs, worktree, tested>>

----------------------------------------------------------------------------
PoolInit ==
    /\ Init /\ JobsInit
    /\ prop = [t \in Tasks |-> NewProposal]
    /\ main = <<>>
    /\ phase = "down" /\ sync = IdleSync
    /\ turn = [w \in Workers |-> IdleTurn]
    /\ check = [v \in Verifiers |-> IdleCheck]
    /\ repairs = [t \in Tasks |-> 0]
    /\ worktree = [t \in Tasks |-> Removed]
    /\ tested = {}

PoolNext ==
    \/ \E p \in Pids : BeginIteration(p)
    \/ EndIteration \/ Crash
    \/ SyncStep
    \/ \E w \in Workers : TurnStep(w)
    \/ \E v \in Verifiers : CheckStep(v)
    \/ TimePasses /\ UNCHANGED <<jobvars, poolvars>>
    \/ JobTimePasses /\ UNCHANGED poolvars
    \/ ReconcileGitStatuses

PoolSpec == PoolInit /\ [][PoolNext]_everything
----------------------------------------------------------------------------
(* Properties.                                                             *)

\* The three stores and the threads' locals hold values of their types.
PoolTypeOK ==
    /\ TypeOK /\ JobsTypeOK
    /\ prop \in [Tasks -> Proposal]
    /\ main \in Seq([of: Tasks, undoes: 0 .. MaxCommits])
    /\ phase \in {"down", "sync", "turns"} /\ sync \in SyncState
    /\ turn \in [Workers -> Turn] /\ check \in [Verifiers -> Check]
    /\ repairs \in [Tasks -> Nat]
    /\ worktree \in [Tasks -> CommitRefs] /\ tested \subseteq Nat

\* A proposal recorded as promoted has a commit in main that no later
\* commit reverts: the radar database and Git agree on what is running.
PromotedCodeIsInMain ==
    \A t \in Tasks : prop[t].status = "promoted" =>
        \E i \in CandidatesOf(t) : InForce(i)

\* Code that runs in main under a proposal recorded as promoted has passed
\* the full regression, as the candidate in its worktree or in main: "Full
\* regression is required before normal promotion".
PromotedCodeIsTested ==
    \A t \in Tasks : prop[t].status = "promoted" =>
        \A i \in CandidatesOf(t) : InForce(i) => i \in tested

\* The verifiers write to tasks whose owner they do not check; no worker that
\* still holds its ticket has lost its row to them.
TicketsAreGood == \A w \in Workers : held[w].task # NoTask => Owns(w)

\* "a retried verifier can never revert the same original commit twice"
RevertedOnce ==
    \A i, j \in Commits :
        main[i].undoes # 0 /\ main[i].undoes = main[j].undoes => i = j

\* No job sends its task back for repair more often than allowed, whatever
\* its verifiers read before they were overtaken.
RepairsAreBounded == \A t \in Tasks : repairs[t] <= MaxRepairs

\* No task is claimed more often than allowed, whether it was requeued by its
\* worker or sent back by a verifier.
ClaimsAreBounded == \A t \in Tasks : task[t].claims <= MaxClaims

\* A verification that ended in failure for good left none of the failed
\* code running.
TerminalMeansReverted ==
    \A t \in Tasks : prop[t].status = "reverted_verification_failure" =>
        \A i \in CandidatesOf(t) : ~InForce(i)

\* What sync takes for a promotion whose status write was lost is one: its
\* commit is in main and in force.  "Recover metadata when Git promotion won
\* the race with a locked radar DB."
ReconcilesLostWrites ==
    [][\A t \in Tasks :
          prop[t].status \in QueueStatuses /\ prop'[t].status = Pending =>
              (\E i \in CandidatesOf(t) : InForce(i))']_everything

\* A verification that ended in failure for good is not reopened.
FailedVerificationIsTerminal ==
    [][\A t \in Tasks : prop[t].status = "reverted_verification_failure" =>
          prop'[t].status = "reverted_verification_failure"]_everything

\* The verdict on a task's code stands from the end of its regression on.
KeptInMain(t) ==
    \/ job[t]["full_regression"].status \in {"verified", "verified_pending_sync"}
    \/ \E v \in Verifiers : /\ Its(v) = t
                           /\ check[v].at \in {"passed", "synced", "promoted"}

CodeOf(t) ==
    IF CandidatesOf(t) = {} THEN "untried"
    ELSE IF \A i \in CandidatesOf(t) : Reverted(i) THEN "withdrawn"
    ELSE IF KeptInMain(t) THEN "kept" ELSE "on trial"

RecordOf(t) == CASE prop[t].status = "promoted" -> "promoted"
                 [] prop[t].status = "reverted_verification_failure" -> "failed"
                 [] OTHER -> "open"

Trials == INSTANCE OneTrial
             WITH Proposals <- Tasks,
                  code <- [t \in Tasks |-> CodeOf(t)],
                  record <- [t \in Tasks |-> RecordOf(t)]

\* Main, the jobs and the radar database together give every proposal one
\* trial: it is put into main once, kept or withdrawn for good, and recorded
\* as promoted or failed only after it was.
EveryProposalHasOneTrial == Trials!Spec

\* The supervisor starts the pool again and again, and every iteration runs
\* every verifier once; a thread that has begun goes on.
FairPool ==
    /\ PoolSpec
    /\ WF_everything(\E p \in Pids : BeginIteration(p))
    /\ WF_everything(SyncStep) /\ WF_everything(EndIteration)
    /\ \A w \in Workers : WF_everything(turn[w].at # "idle" /\ TurnStep(w))
    /\ \A v \in Verifiers :
          /\ WF_everything(check[v].at # "idle" /\ CheckStep(v))
          /\ SF_everything(StartCheck(v))
    /\ \A t \in Tasks, k \in Kinds :
          WF_everything(JobRetryComesDue(t, k) /\ UNCHANGED poolvars)

\* Every commit the pool puts into main passes the full regression, as the
\* candidate in its worktree or in main, or is reverted, unless the bound on
\* claims has been reached.
EveryCommitIsJudged ==
    \A i \in 1 .. MaxCommits :
        InForce(i) ~> (i \in tested \/ ~InForce(i) \/ minted = MaxTokens)

\* Every claim of a verification job ends: "durable queue must survive
\* arbitrary owner failures".
EveryVerificationEnds ==
    \A t \in Tasks, kind \in Kinds, k \in 1 .. MaxTokens :
        job[t][kind].token = k ~> job[t][kind].token # k
=============================================================================
