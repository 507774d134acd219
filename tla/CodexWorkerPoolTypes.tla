------------------------ MODULE CodexWorkerPoolTypes ------------------------
(***************************************************************************)
(* For any number of proposals, workers, verifiers and processes, and any  *)
(* bounds: the three stores and the threads' locals keep their types, and  *)
(* every thread at work is at work on the task of its own ticket.  On the  *)
(* way, what each operation does to the rows it writes, which steps write  *)
(* which variable, and where each step takes a thread.                     *)
(***************************************************************************)
EXTENDS CodexWorkerPool, TaskQueueProofs, SequenceTheorems, WellFoundedInduction

----------------------------------------------------------------------------
(* The invariant that types the pool.                                      *)

AtWork(w) == turn[w].at \notin {"idle", "over"}
AtCheck(v) == check[v].at \notin {"idle", "over"}

\* Only a revert may lengthen main beyond the bound.
CandidatesFit == \A i \in Commits : main[i].undoes = 0 => i <= MaxCommits

\* The synchronisation is about a task, and reconciles only those with a
\* commit in main.
SyncNamed ==
    /\ phase # "sync" => sync = IdleSync
    /\ sync.at \in {"enqueue_promoted", "complete", "enqueue_job"} =>
          sync.t \in Tasks /\ CandidatesOf(sync.t) # {}
    /\ sync.at # "enqueue" => \A t \in sync.todo : CandidatesOf(t) # {}

\* A worker at work has a task, the one of its ticket until it lets go.
TurnNamed(w) ==
    /\ AtWork(w) => turn[w].task \in Tasks /\ phase = "turns"
    /\ turn[w].at \notin {"idle", "over", "park", "failed"} =>
          held[w].task = turn[w].task
    /\ held[w].task # NoTask =>
          turn[w].at \notin {"idle", "over", "park"} /\ held[w].task = turn[w].task
    /\ held[w].task = NoTask => held[w] = NoTicket

TurnsNamed == \A w \in Workers : TurnNamed(w)

\* A verifier at work has a job; the steps of a git_sync job are its own.
CheckNamed(v) ==
    /\ AtCheck(v) => Its(v) \in Tasks /\ phase = "turns"
    /\ ~AtCheck(v) => checking[v] = NoJobTicket
    /\ checking[v].kind = "git_sync" => check[v].at \in {"claimed", "git_synced"}
    /\ check[v].at = "git_synced" => checking[v].kind = "git_sync"

ChecksNamed == \A v \in Verifiers : CheckNamed(v)

\* The threads are those of one process.
OneProcess ==
    /\ phase = "down" => \A th \in Threads : pidOf[th] = NoPid
    /\ phase # "down" => \E p \in Pids : \A th \in Threads : pidOf[th] = p

PoolNamed == /\ PoolTypeOK /\ ClaimsAreMinted /\ CandidatesFit /\ OneProcess
             /\ SyncNamed /\ TurnsNamed /\ ChecksNamed

----------------------------------------------------------------------------
(* What a step leaves alone.                                               *)

\* The synchronisation writes the queue and the proposals only.
LEMMA SyncFrame ==
    ASSUME SyncStep
    PROVE  /\ phase = "sync"
           /\ UNCHANGED <<pidOf, held, minted, checking, main, turn, check,
                          repairs, worktree, tested>>
BY DEF SyncStep, SyncUnchanged, ReconcilePromotedCommit, EnqueueProposal,
       EnqueuePromoted, CompletePromoted, EnqueueReconciledJob, EndReconcile, EndSync

\* Giving a row back lets go of the ticket.
LEMMA GiveBackFrame ==
    ASSUME NEW w \in Workers, NEW status, GiveBack(w, status)
    PROVE  /\ held' = [held EXCEPT ![w] = NoTicket]
           /\ UNCHANGED <<pidOf, minted>>
BY DEF GiveBack, RequeueTask, CompleteTask, LetGo

\* A worker has no hand in the verifiers' state, and only it moves.
LEMMA TurnFrame ==
    ASSUME NEW w \in Workers, TurnStep(w)
    PROVE  /\ UNCHANGED <<checking, phase, sync, check, repairs, pidOf>>
           /\ PoolTypeOK => \A x \in Workers \ {w} :
                               turn'[x] = turn[x] /\ held'[x] = held[x]
<1> DEFINE Frame ==
        /\ UNCHANGED <<checking, phase, sync, check, repairs, pidOf>>
        /\ PoolTypeOK => \A x \in Workers \ {w} :
                            turn'[x] = turn[x] /\ held'[x] = held[x]
<1> USE GiveBackFrame DEF WorkerUnchanged, vars, PoolTypeOK, TypeOK, EndTurn, GoTo
<1>1. CASE PoolClaim(w)
  BY <1>1 DEF PoolClaim, ClaimTask
<1>2. CASE Dispatch(w)
  BY <1>2 DEF Dispatch
<1>3. ASSUME NEW status, CodingEnds(w, status) PROVE Frame
  BY <1>3 DEF CodingEnds
<1>4. CASE PromoteCandidate(w) \/ RecordPromotion(w) \/ PromotionUnseen(w)
  BY <1>4 DEF PromoteCandidate, RecordPromotion, PromotionUnseen
<1>5. CASE HandOff(w) \/ Fail(w) \/ ParkProposal(w)
  BY <1>5 DEF HandOff, Fail, ParkProposal
<1>6. CASE CompleteTurn(w)
  BY <1>6 DEF CompleteTurn
<1>7. CASE RetryLater(w)
  BY <1>7 DEF RetryLater
<1>8. CASE ParkTask(w)
  BY <1>8 DEF ParkTask
<1>9. CASE FailAgain(w)
  BY <1>9 DEF FailAgain, LetGo
<1>10. QED
  BY <1>1, <1>2, <1>3, <1>4, <1>5, <1>6, <1>7, <1>8, <1>9 DEF TurnStep

\* A verifier has no hand in the workers' state, and only it moves.
LEMMA CheckFrame ==
    ASSUME NEW v \in Verifiers, CheckStep(v)
    PROVE  /\ UNCHANGED <<pidOf, held, phase, sync, turn>>
           /\ PoolTypeOK => \A x \in Verifiers \ {v} :
                               check'[x] = check[x] /\ checking'[x] = checking[x]
<1> DEFINE Frame ==
        /\ UNCHANGED <<pidOf, held, phase, sync, turn>>
        /\ PoolTypeOK => \A x \in Verifiers \ {v} :
                            check'[x] = check[x] /\ checking'[x] = checking[x]
<1> USE DEF CheckUnchanged, jobvars, PoolTypeOK, JobsTypeOK, Move, EndCheck
<1>1. CASE StartCheck(v)
  BY <1>1 DEF StartCheck, ClaimVerificationJob
<1>2. CASE ReadProposal(v) \/ RegressionPasses(v) \/ RegressionFails(v)
           \/ SyncRuntime(v) \/ RecordVerified(v) \/ QueueGitSync(v)
           \/ RecordSyncPending(v)
  BY <1>2 DEF ReadProposal, RegressionPasses, RegressionFails, SyncRuntime,
              RecordVerified, QueueGitSync, RecordSyncPending
<1>3. CASE FinishVerified(v) \/ SyncFails(v) \/ GitSyncs(v) \/ RecordGitSynced(v)
           \/ GitSyncFails(v)
  BY <1>3 DEF FinishVerified, SyncFails, GitSyncs, RecordGitSynced, GitSyncFails
<1>4. CASE RecoveredBefore(v) \/ RevertPromoted(v) \/ RevertFails(v)
           \/ RecordRecoveryPending(v) \/ FinishRecoveryPending(v)
  BY <1>4 DEF RecoveredBefore, RevertPromoted, RevertFails,
              RecordRecoveryPending, FinishRecoveryPending
<1>5. CASE RecordReverted(v) \/ RecordTerminal(v) \/ FinishTerminal(v)
           \/ RecordRepair(v) \/ FinishNeedsRepair(v) \/ RequeueForRepair(v)
           \/ CheckFails(v)
  BY <1>5 DEF RecordReverted, RecordTerminal, FinishTerminal, RecordRepair,
              FinishNeedsRepair, RequeueForRepair, CheckFails
<1>6. QED
  BY <1>1, <1>2, <1>3, <1>4, <1>5 DEF CheckStep

\* Time writes nothing but the queue's two facts about it, leases and dues.
LEMMA TimeFrame ==
    ASSUME TimePasses PROVE UNCHANGED <<pidOf, held, minted>>
BY DEF TimePasses, LeaseExpires, RetryComesDue, Heartbeat, RenewTaskLease,
       ReclaimBeforeTurn, ReclaimStaleTasks

----------------------------------------------------------------------------
(* The steps by what they write.                                           *)

\* An iteration that ends takes the memory of every thread.
LEMMA EndFrame ==
    ASSUME EndIteration \/ Crash
    PROVE  /\ Down /\ phase # "down" /\ \E p \in Pids : Die(p)
BY DEF EndIteration, Crash

\* The kinds of step.
LEMMA StepKinds ==
    ASSUME [PoolNext]_everything
    PROVE  \/ \E p \in Pids : BeginIteration(p)
           \/ EndIteration \/ Crash
           \/ SyncStep
           \/ \E w \in Workers : TurnStep(w)
           \/ \E v \in Verifiers : CheckStep(v)
           \/ TimePasses /\ UNCHANGED <<jobvars, poolvars>>
           \/ JobTimePasses /\ UNCHANGED poolvars
           \/ ReconcileGitStatuses
           \/ UNCHANGED everything
BY DEF PoolNext

\* main grows by a candidate or by a revert, and by nothing else.
LEMMA MainWrites ==
    ASSUME [PoolNext]_everything
    PROVE  \/ main' = main
           \/ \E w \in Workers : PromoteCandidate(w)
           \/ \E v \in Verifiers : RevertPromoted(v)
<1> USE DEF everything, allvars, vars, jobvars, poolvars
<1>1. ASSUME NEW w \in Workers, TurnStep(w) PROVE main' = main \/ PromoteCandidate(w)
  BY <1>1 DEF TurnStep, PoolClaim, Dispatch, CodingEnds, RecordPromotion,
              PromotionUnseen, HandOff, CompleteTurn, RetryLater, ParkTask, ParkProposal, Fail, FailAgain
<1>2. ASSUME NEW v \in Verifiers, CheckStep(v) PROVE main' = main \/ RevertPromoted(v)
  BY <1>2 DEF CheckStep, StartCheck, ReadProposal, RegressionPasses, RegressionFails,
              SyncRuntime, RecordVerified, FinishVerified, SyncFails, QueueGitSync,
              RecordSyncPending, GitSyncs, RecordGitSynced, GitSyncFails,
              RecoveredBefore, RevertFails, RecordRecoveryPending,
              FinishRecoveryPending, RecordReverted, RecordTerminal, FinishTerminal,
              RecordRepair, FinishNeedsRepair, RequeueForRepair, CheckFails
<1>3. QED
  BY StepKinds, EndFrame, SyncFrame, <1>1, <1>2
     DEF BeginIteration, Down, JobTimePasses, JobRetryComesDue, ReconcileGitStatuses

----------------------------------------------------------------------------
(* Git.                                                                    *)

\* A step that keeps main, or adds one commit to it.
Grows == \/ main' = main
         \/ \E c \in [of: Tasks, undoes: 0 .. MaxCommits] : main' = Append(main, c)

\* What is in main stays there, and what is reverted stays reverted.
LEMMA MainGrows ==
    ASSUME PoolTypeOK, Grows
    PROVE  /\ Len(main) \in Nat /\ Len(main') \in Nat
           /\ Len(main) <= Len(main') /\ Len(main') <= Len(main) + 1
           /\ main' = main \/ Len(main') = Len(main) + 1
           /\ Commits \subseteq Commits'
           /\ \A i \in Commits : main'[i] = main[i]
           /\ \A t : CandidatesOf(t) \subseteq CandidatesOf(t)'
           /\ \A i : Reverted(i) => Reverted(i)'
<1> DEFINE Grown ==
        /\ Len(main) \in Nat /\ Len(main') \in Nat
        /\ Len(main) <= Len(main') /\ Len(main') <= Len(main) + 1
        /\ main' = main \/ Len(main') = Len(main) + 1
        /\ Commits \subseteq Commits'
        /\ \A i \in Commits : main'[i] = main[i]
        /\ \A t : CandidatesOf(t) \subseteq CandidatesOf(t)'
        /\ \A i : Reverted(i) => Reverted(i)'
<1>1. main \in Seq([of: Tasks, undoes: 0 .. MaxCommits])
  BY DEF PoolTypeOK
<1>2. CASE main' = main
  <2>1. Len(main) \in Nat
    BY <1>1
  <2>2. QED
    BY <1>2, <2>1 DEF Commits, CandidatesOf, Reverted
<1>3. ASSUME NEW c \in [of: Tasks, undoes: 0 .. MaxCommits], main' = Append(main, c)
      PROVE  Grown
  <2>1. /\ Len(main) \in Nat /\ Len(main') = Len(main) + 1
        /\ \A i \in 1 .. Len(main) : main'[i] = main[i]
    BY <1>1, <1>3, AppendProperties
  <2>2. Commits \subseteq Commits' /\ \A i \in Commits : main'[i] = main[i]
    BY <2>1 DEF Commits
  <2>3. QED
    BY <2>1, <2>2 DEF CandidatesOf, Reverted
<1>4. QED
  BY <1>2, <1>3 DEF Grows

\* A set of candidates that is not empty has a first and a last one.
LEMMA OldestAndNewest ==
    ASSUME PoolTypeOK, NEW t, CandidatesOf(t) # {}
    PROVE  /\ Oldest(t) \in CandidatesOf(t) /\ Newest(t) \in CandidatesOf(t)
<1>1. Len(main) \in Nat
  BY DEF PoolTypeOK
<1>2. CandidatesOf(t) \subseteq Nat /\ \A i \in CandidatesOf(t) : i <= Len(main)
  BY <1>1 DEF CandidatesOf, Commits
<1>3. \E i \in CandidatesOf(t) : \A j \in CandidatesOf(t) : i <= j
  <2>1. PICK i \in CandidatesOf(t) :
           \A j \in CandidatesOf(t) : ~(<<j, i>> \in OpToRel(<, Nat))
    BY <1>2, WFMin, NatLessThanWellFounded
  <2>2. \A j \in CandidatesOf(t) : ~(j < i)
    BY <1>2, <2>1 DEF OpToRel
  <2>3. QED
    BY <1>2, <2>2
<1>4. \E i \in CandidatesOf(t) : \A j \in CandidatesOf(t) : i >= j
  <2> DEFINE depths == {Len(main) - i : i \in CandidatesOf(t)}
  <2>1. depths \subseteq Nat /\ depths # {}
    BY <1>1, <1>2
  <2>2. PICK d \in depths : \A e \in depths : ~(<<e, d>> \in OpToRel(<, Nat))
    BY <2>1, WFMin, NatLessThanWellFounded
  <2>3. \A e \in depths : ~(e < d)
    BY <2>1, <2>2 DEF OpToRel
  <2>4. PICK i \in CandidatesOf(t) : d = Len(main) - i
    OBVIOUS
  <2>5. \A j \in CandidatesOf(t) : ~(Len(main) - j < Len(main) - i)
    BY <2>3, <2>4
  <2>6. QED
    BY <1>1, <1>2, <2>4, <2>5
<1>5. QED
  BY <1>3, <1>4 DEF Oldest, Newest

\* The only steps that write main make it grow.
LEMMA MainOnlyGrows == ASSUME PoolNamed, [PoolNext]_everything PROVE Grows
<1>1. ASSUME NEW w \in Workers, PromoteCandidate(w) PROVE Grows
  <2>1. Mine(w) \in Tasks
    BY <1>1 DEF PromoteCandidate, PoolNamed, TurnsNamed, TurnNamed, AtWork, Mine
  <2>2. [of |-> Mine(w), undoes |-> 0] \in [of: Tasks, undoes: 0 .. MaxCommits]
    BY <2>1, PoolConstants
  <2>3. QED
    BY <1>1, <2>2 DEF PromoteCandidate, Grows
<1>2. ASSUME NEW v \in Verifiers, RevertPromoted(v) PROVE Grows
  <2> DEFINE commit == PromotedCommit(check[v].snap)
  <2>1. Its(v) \in Tasks
    BY <1>2 DEF RevertPromoted, PoolNamed, ChecksNamed, CheckNamed, AtCheck
  <2>2. commit \in CommitRefs
    BY DEF PoolNamed, PoolTypeOK, Check, Proposal, PromotedCommit
  <2>3. commit \in 0 .. MaxCommits
    BY <1>2, <2>2 DEF RevertPromoted, CommitRefs, Elsewhere, Commits
  <2>4. [of |-> Its(v), undoes |-> commit] \in [of: Tasks, undoes: 0 .. MaxCommits]
    BY <2>1, <2>3
  <2>5. QED
    BY <1>2, <2>4 DEF RevertPromoted, Grows
<1>3. QED
  BY <1>1, <1>2, MainWrites DEF Grows

----------------------------------------------------------------------------
(* The queue's operations, row by row.                                     *)

RowOnly(t) == \A u \in Tasks \ {t} : task'[u] = task[u]

\* An enqueue never touches a claim under way, and never makes work active.
LEMMA EnqueueRow ==
    ASSUME TypeOK, NEW t \in Tasks, NEW f \in Fps, EnqueueTask(t, f)
    PROVE  /\ task' \in [Tasks -> TaskRow] /\ RowOnly(t)
           /\ task'[t].claims = task[t].claims
           /\ task[t].status \in Active =>
                 /\ task'[t].status = task[t].status /\ task'[t].by = task[t].by
                 /\ task'[t].pid = task[t].pid /\ task'[t].token = task[t].token
           /\ task[t].status \notin Active =>
                 /\ task'[t].status \in Claimable \cup {"superseded_duplicate"}
                 /\ task'[t].token \in {task[t].token, 0}
<1>1. task[t] \in TaskRow /\ f # NoFp
  BY QueueConstants DEF TypeOK
<1> DEFINE peers == Peers(t, f, Blocking)
<1>2. CASE peers # {} /\ task[t].status \notin Active
  <2>1. PICK c \in Foremost(peers) :
           task' = [task EXCEPT ![t] = Supersede([Unclaimed(task[t]) EXCEPT !.fp = f], c)]
    BY <1>2 DEF EnqueueTask
  <2> DEFINE old == [Unclaimed(task[t]) EXCEPT !.fp = f]
             row == Supersede(old, c)
  <2>2. Unclaimed(task[t]) \in TaskRow /\ Unclaimed(task[t]).claims = task[t].claims
    BY <1>1, UnclaimedRow
  <2>3. old \in TaskRow /\ old.claims = task[t].claims /\ old.token = 0
    BY <1>1, <2>2 DEF TaskRow, Unclaimed
  <2>4. c \in Tasks
    BY <1>2, <2>1 DEF Foremost, Peers
  <2>5. /\ row \in TaskRow /\ row.status = "superseded_duplicate"
        /\ row.claims = task[t].claims
    BY <2>3, <2>4, SupersedeRow
  <2>6. row.token = 0
    BY <2>3 DEF Supersede, TaskRow
  <2>7. task' = [task EXCEPT ![t] = row]
    BY <2>1
  <2>8. QED
    BY <1>2, <2>5, <2>6, <2>7 DEF TypeOK, RowOnly
<1>3. CASE ~(peers # {} /\ task[t].status \notin Active)
  <2> DEFINE row == Refresh(task[t], f)
  <2>1. task' = [task EXCEPT ![t] = row]
    BY <1>3 DEF EnqueueTask
  <2>2. /\ row \in TaskRow /\ row.status = NextStatus(task[t].status)
        /\ row.claims = task[t].claims /\ row.by = task[t].by
        /\ row.pid = task[t].pid /\ row.token = task[t].token
    BY <1>1, RefreshRow
  <2>3. /\ task[t].status \in Active => row.status = task[t].status
        /\ task[t].status \notin Active => row.status \in Claimable
    BY <2>2 DEF NextStatus, Claimable
  <2>4. QED
    BY <2>1, <2>2, <2>3 DEF TypeOK, RowOnly
<1>4. QED
  BY <1>2, <1>3

\* What a status write does to a row, and what giving it back does.
LEMMA StatusRow ==
    ASSUME NEW row \in TaskRow, NEW status \in Statuses
    PROVE  /\ [row EXCEPT !.status = status] \in TaskRow
           /\ [Unclaimed(row) EXCEPT !.status = status] \in TaskRow
           /\ [Unclaimed(row) EXCEPT !.status = status].claims = row.claims
           /\ [Unclaimed(row) EXCEPT !.status = status].status = status
           /\ [Unclaimed(row) EXCEPT !.status = status].token = 0
           /\ [Unclaimed(row) EXCEPT !.status = status].by = Nobody
<1>1. Unclaimed(row) \in TaskRow /\ Unclaimed(row).claims = row.claims
  BY UnclaimedRow
<1>2. Unclaimed(row).token = 0 /\ Unclaimed(row).by = Nobody
  BY DEF Unclaimed, TaskRow
<1>3. QED
  BY <1>1, <1>2 DEF TaskRow

\* Giving back writes the row of the ticket, and only if it is still owned.
LEMMA GiveBackRow ==
    ASSUME TypeOK, NEW w \in Workers, NEW status \in Statuses, GiveBack(w, status)
    PROVE  /\ task' \in [Tasks -> TaskRow] /\ RowOnly(held[w].task)
           /\ ~Owns(w) => task' = task
           /\ Owns(w) => /\ held[w].task \in Tasks
                         /\ task'[held[w].task].status = status
                         /\ task'[held[w].task].token = 0
                         /\ task'[held[w].task].by = Nobody
                         /\ task'[held[w].task].claims = task[held[w].task].claims
<1>1. CASE ~Owns(w)
  BY <1>1 DEF GiveBack, TypeOK, RowOnly
<1>2. CASE Owns(w)
  <2> DEFINE t == held[w].task
             row == [Unclaimed(task[t]) EXCEPT !.status = status]
             late == [row EXCEPT !.due = FALSE]
  <2>1. t \in Tasks /\ task[t] \in TaskRow
    BY <1>2 DEF Owns, TypeOK, Ticket
  <2>2. /\ row \in TaskRow /\ row.claims = task[t].claims /\ row.status = status
        /\ row.token = 0 /\ row.by = Nobody
    BY <2>1, StatusRow
  <2>3. /\ late \in TaskRow /\ late.claims = task[t].claims /\ late.status = status
        /\ late.token = 0 /\ late.by = Nobody
    BY <2>2 DEF TaskRow
  <2>4. CASE status = "requeued"
    <3>1. task' = [task EXCEPT ![t] = late]
      BY <1>2, <2>4 DEF GiveBack, RequeueTask
    <3>2. QED
      BY <1>2, <2>1, <2>3, <3>1 DEF TypeOK, RowOnly
  <2>5. CASE status # "requeued"
    <3>1. task' = [task EXCEPT ![t] = row]
      BY <1>2, <2>5 DEF GiveBack, CompleteTask
    <3>2. QED
      BY <1>2, <2>1, <2>2, <3>1 DEF TypeOK, RowOnly
  <2>6. QED
    BY <2>4, <2>5
<1>3. QED
  BY <1>1, <1>2

\* A claim takes one claimable row; the claimable rows of the same work are
\* superseded and every other row stays.
LEMMA ClaimRow ==
    ASSUME TypeOK, ClaimsAreMinted, NEW w \in Workers, NEW lane, ClaimTask(w, lane)
    PROVE  /\ task' \in [Tasks -> TaskRow] /\ minted' = minted + 1 /\ minted' \in Tokens
           /\ held[w] = NoTicket
           /\ \E t \in Tasks :
                /\ held' = [held EXCEPT ![w] = [task |-> t, token |-> minted + 1]]
                /\ task[t].status \in Claimable
                /\ task'[t].status = "claimed" /\ task'[t].by = w
                /\ task'[t].pid = pidOf[w] /\ task'[t].token = minted + 1
                /\ task'[t].claims = task[t].claims + 1
                /\ \A u \in Tasks \ {t} :
                      \/ task'[u] = task[u]
                      \/ /\ task[u].status \in Claimable
                         /\ task'[u].status = "superseded_duplicate"
                         /\ task'[u].claims = task[u].claims
                         /\ task'[u].token = task[u].token
<1>1. PICK t \in FirstInLine(lane) :
         /\ task' = Claimed(t, w)
         /\ held' = [held EXCEPT ![w] = [task |-> t, token |-> minted + 1]]
  BY DEF ClaimTask
<1>2. /\ minted < MaxTokens /\ minted' = minted + 1 /\ held[w] = NoTicket
      /\ MaxTokens \in Nat /\ minted \in Nat /\ minted + 1 \in Tokens
  BY QueueConstants DEF ClaimTask, TypeOK, Tokens
<1>3. t \in Tasks /\ task[t].status \in Claimable
  BY DEF FirstInLine, Candidates
<1> DEFINE row == [task[t] EXCEPT !.status = "claimed", !.by = w, !.pid = pidOf[w],
                                  !.token = minted + 1, !.expired = FALSE,
                                  !.claims = @ + 1, !.due = TRUE]
<1>4. task[t] \in TaskRow /\ task[t].claims <= minted /\ pidOf[w] \in Pids \cup {NoPid}
  BY <1>3, QueueConstants DEF TypeOK, ClaimsAreMinted
<1>5. task[t].claims + 1 \in Tokens
  BY <1>2, <1>4 DEF TaskRow, Tokens
<1>6. /\ row \in TaskRow /\ row.status = "claimed" /\ row.by = w
      /\ row.pid = pidOf[w] /\ row.token = minted + 1
      /\ row.claims = task[t].claims + 1
  BY <1>2, <1>4, <1>5, StatusFacts DEF TaskRow
<1>7. task'[t] = row
  BY <1>1, <1>3 DEF Claimed
<1>8. ASSUME NEW u \in Tasks \ {t}
      PROVE  /\ task'[u] \in TaskRow
             /\ \/ task'[u] = task[u]
                \/ /\ task[u].status \in Claimable
                   /\ task'[u].status = "superseded_duplicate"
                   /\ task'[u].claims = task[u].claims
                   /\ task'[u].token = task[u].token
  <2>1. task[u] \in TaskRow
    BY DEF TypeOK
  <2>2. CASE u \in Peers(t, task[t].fp, Claimable)
    <3>1. task'[u] = Supersede(task[u], t)
      BY <1>1, <2>2 DEF Claimed
    <3>2. /\ Supersede(task[u], t) \in TaskRow
          /\ Supersede(task[u], t).status = "superseded_duplicate"
          /\ Supersede(task[u], t).claims = task[u].claims
      BY <1>3, <2>1, SupersedeRow
    <3>3. Supersede(task[u], t).token = task[u].token
      BY <2>1 DEF Supersede, TaskRow
    <3>4. QED
      BY <2>2, <3>1, <3>2, <3>3 DEF Peers
  <2>3. CASE u \notin Peers(t, task[t].fp, Claimable)
    BY <1>1, <2>1, <2>3 DEF Claimed
  <2>4. QED
    BY <2>2, <2>3
<1>9. task' \in [Tasks -> TaskRow]
  BY <1>1, <1>6, <1>7, <1>8 DEF Claimed
<1>10. QED
  BY <1>1, <1>2, <1>3, <1>6, <1>7, <1>8, <1>9

\* A reclaim gives back rows whose process is dead.
LEMMA ReclaimRow ==
    ASSUME TypeOK, ReclaimStaleTasks
    PROVE  /\ task' \in [Tasks -> TaskRow]
           /\ \A t \in Tasks :
                \/ task'[t] = task[t]
                \/ /\ Reclaimable(task[t])
                   /\ task'[t].status = "requeued" /\ task'[t].token = 0
                   /\ task'[t].claims = task[t].claims
<1> DEFINE back(t) == [Unclaimed(task[t]) EXCEPT !.status = "requeued", !.due = TRUE]
<1>1. /\ \A t \in Tasks : task'[t] = IF Reclaimable(task[t]) THEN back(t) ELSE task[t]
      /\ task' = [t \in Tasks |-> task'[t]]
  BY DEF ReclaimStaleTasks
<1>2. ASSUME NEW t \in Tasks
      PROVE  /\ back(t) \in TaskRow /\ back(t).status = "requeued"
             /\ back(t).claims = task[t].claims /\ back(t).token = 0
  <2>1. task[t] \in TaskRow /\ "requeued" \in Statuses
    BY StatusFacts DEF TypeOK
  <2>2. /\ Unclaimed(task[t]) \in TaskRow /\ Unclaimed(task[t]).token = 0
        /\ Unclaimed(task[t]).claims = task[t].claims
    BY <2>1, UnclaimedRow DEF Unclaimed, TaskRow
  <2>3. QED
    BY <2>1, <2>2 DEF TaskRow
<1>3. \A t \in Tasks : task'[t] \in TaskRow
  BY <1>1, <1>2 DEF TypeOK
<1>4. task' \in [Tasks -> TaskRow]
  BY <1>1, <1>3
<1>5. QED
  BY <1>1, <1>2, <1>4

\* Finishing a job ends the claim of its row and sets the status of its task,
\* whoever owns that by now.
JobOnly(t, k) ==
    \A u \in Tasks, l \in Kinds : u # t \/ l # k => job'[u][l] = job[u][l]

LEMMA FinishRows ==
    ASSUME TypeOK, JobsTypeOK, NEW v \in Verifiers, NEW status \in JobStatuses,
           NEW taskStatus \in Statuses, FinishVerificationJob(v, status, taskStatus)
    PROVE  /\ Its(v) \in Tasks
           /\ task' \in [Tasks -> TaskRow] /\ RowOnly(Its(v))
           /\ task'[Its(v)] = [task[Its(v)] EXCEPT !.status = taskStatus]
           /\ job' \in [Tasks -> [Kinds -> JobRow]] /\ JobOnly(Its(v), checking[v].kind)
           /\ job'[Its(v)][checking[v].kind].status = status
           /\ job'[Its(v)][checking[v].kind].by = Nobody
           /\ job'[Its(v)][checking[v].kind].token = 0
           /\ job'[Its(v)][checking[v].kind].rev = job[Its(v)][checking[v].kind].rev
           /\ job[Its(v)][checking[v].kind].by = v
           /\ job[Its(v)][checking[v].kind].token = checking[v].token
<1> DEFINE t == Its(v)
           k == checking[v].kind
           old == job[t][k]
           row == [old EXCEPT !.status = status, !.due = status # "requeued",
                              !.by = Nobody, !.pid = NoPid, !.token = 0]
           taskRow == [task[t] EXCEPT !.status = taskStatus]
<1>1. t \in Tasks /\ k \in Kinds
  BY DEF FinishVerificationJob, JobsTypeOK, JobTicket, Its
<1>2. old \in JobRow /\ task[t] \in TaskRow
  BY <1>1 DEF TypeOK, JobsTypeOK
<1>3. taskRow \in TaskRow
  BY <1>2, StatusRow
<1>4. 0 \in Tokens
  BY QueueConstants DEF Tokens
<1>5. /\ row \in JobRow /\ row.status = status /\ row.by = Nobody /\ row.token = 0
      /\ row.rev = old.rev
  BY <1>2, <1>4 DEF JobRow
<1>6. /\ job' = [job EXCEPT ![t][k] = row]
      /\ task' = [task EXCEPT ![t] = taskRow]
      /\ old.by = v /\ old.token = checking[v].token
  BY DEF FinishVerificationJob, Its
<1>7. /\ task' \in [Tasks -> TaskRow] /\ RowOnly(t) /\ task'[t] = taskRow
  BY <1>1, <1>3, <1>6 DEF TypeOK, RowOnly
<1>8. /\ job' \in [Tasks -> [Kinds -> JobRow]] /\ JobOnly(t, k) /\ job'[t][k] = row
  BY <1>1, <1>5, <1>6 DEF JobsTypeOK, JobOnly
<1>9. QED
  BY <1>1, <1>5, <1>6, <1>7, <1>8

\* A process that dies leaves the rows and the tokens.
LEMMA DieRows ==
    ASSUME TypeOK, NEW p \in Pids, Die(p)
    PROVE  TypeOK' /\ UNCHANGED <<task, minted>>
BY QueueConstants DEF TypeOK, Die, NoTicket, Ticket, Tokens

\* The statuses the pool gives tasks and jobs.
LEMMA PoolStatuses ==
    /\ {Pending, Parked, "completed", "requeued", "verified",
        "reverted_verification_failure", "repairing_post_promotion"} \subseteq Statuses
    /\ {"verified", "verified_pending_sync", "synced", "requeued", "failed_terminal",
        "failed_needs_repair", "queued", "claimed"} \subseteq JobStatuses
BY DEF Pending, Parked, Statuses, Blocking, Claimable, Active, Inert, JobStatuses,
       ClaimableJob

\* What every step does to the queue keeps its types, and mints a token with
\* every claim it counts.
QueueTyped == TypeOK /\ ClaimsAreMinted

LEMMA SyncKeepsQueueTyped == ASSUME PoolNamed, SyncStep PROVE QueueTyped'
<1> USE DEF PoolNamed, PoolTypeOK
<1>1. TypeOK /\ ClaimsAreMinted /\ UNCHANGED <<pidOf, held, minted>>
  BY SyncFrame
<1>2. SUFFICES /\ task' \in [Tasks -> TaskRow]
               /\ \A t \in Tasks : task'[t].claims = task[t].claims
  BY <1>1 DEF QueueTyped, TypeOK, ClaimsAreMinted
<1>3. CASE UNCHANGED task
  BY <1>1, <1>3 DEF TypeOK
<1>4. CASE EnqueuePromoted
  <2>1. sync.t \in Tasks /\ FpOf[sync.t] \in Fps
    BY <1>4, QueueConstants DEF EnqueuePromoted, SyncNamed
  <2>2. QED
    BY <1>1, <1>4, <2>1, EnqueueRow DEF EnqueuePromoted, RowOnly
<1>5. ASSUME NEW t \in Tasks, EnqueueProposal(t) PROVE <1>2!1
  <2>1. FpOf[t] \in Fps
    BY QueueConstants
  <2>2. QED
    BY <1>1, <1>5, <2>1, EnqueueRow DEF EnqueueProposal, RowOnly
<1>6. CASE CompletePromoted
  <2>1. sync.t \in Tasks /\ task[sync.t] \in TaskRow
    BY <1>1, <1>6 DEF CompletePromoted, SyncNamed, TypeOK
  <2> DEFINE row == [Unclaimed(task[sync.t]) EXCEPT !.status = Pending]
  <2>2. row \in TaskRow /\ row.claims = task[sync.t].claims
    BY <2>1, StatusRow, PoolStatuses
  <2>3. task' = [task EXCEPT ![sync.t] = row]
    BY <1>6 DEF CompletePromoted
  <2>4. QED
    BY <1>1, <2>2, <2>3 DEF TypeOK
<1>7. QED
  BY <1>3, <1>4, <1>5, <1>6
     DEF SyncStep, ReconcilePromotedCommit, EnqueueReconciledJob, EndReconcile, EndSync

LEMMA TurnKeepsQueueTyped ==
    ASSUME PoolNamed, NEW w \in Workers, TurnStep(w) PROVE QueueTyped'
<1>1. TypeOK /\ ClaimsAreMinted /\ pidOf' = pidOf
  BY TurnFrame DEF PoolNamed, PoolTypeOK
<1>2. CASE UNCHANGED vars
  BY <1>1, <1>2 DEF vars, QueueTyped, TypeOK, ClaimsAreMinted
<1>3. CASE PoolClaim(w)
  <2>1. PICK lane \in Lanes : ClaimTask(w, lane)
    BY <1>3 DEF PoolClaim
  <2>2. /\ task' \in [Tasks -> TaskRow] /\ minted' = minted + 1 /\ minted' \in Tokens
        /\ held' \in [Workers -> Ticket]
        /\ \A u \in Tasks : task'[u].claims \in {task[u].claims, task[u].claims + 1}
    BY <1>1, <2>1, ClaimRow DEF TypeOK, Ticket
  <2>3. minted \in Nat /\ \A u \in Tasks : task[u].claims \in Nat
    BY <1>1 DEF TypeOK, Tokens, TaskRow
  <2>4. QED
    BY <1>1, <2>2, <2>3 DEF TypeOK, ClaimsAreMinted, QueueTyped
<1>4. ASSUME NEW status \in Statuses, GiveBack(w, status) PROVE QueueTyped'
  <2>1. /\ task' \in [Tasks -> TaskRow]
        /\ \A u \in Tasks : task'[u].claims = task[u].claims
    BY <1>1, <1>4, GiveBackRow DEF RowOnly
  <2>2. held' \in [Workers -> Ticket] /\ minted' = minted
    BY <1>1, <1>4, GiveBackFrame, QueueConstants DEF TypeOK, Ticket, NoTicket, Tokens
  <2>3. QED
    BY <1>1, <2>1, <2>2 DEF TypeOK, ClaimsAreMinted, QueueTyped
<1>5. CASE CompleteTurn(w) \/ RetryLater(w) \/ ParkTask(w)
  BY <1>4, <1>5, PoolStatuses DEF CompleteTurn, RetryLater, ParkTask
<1>6. CASE FailAgain(w)
  <2>1. held' \in [Workers -> Ticket] /\ minted' = minted /\ task' = task
    BY <1>1, <1>6, QueueConstants DEF FailAgain, LetGo, TypeOK, Ticket, NoTicket, Tokens
  <2>2. QED
    BY <1>1, <2>1 DEF TypeOK, ClaimsAreMinted, QueueTyped
<1>7. QED
  BY <1>2, <1>3, <1>5, <1>6
     DEF TurnStep, Dispatch, CodingEnds, PromoteCandidate, RecordPromotion,
         PromotionUnseen, HandOff,
         ParkProposal, Fail

LEMMA CheckKeepsQueueTyped ==
    ASSUME PoolNamed, NEW v \in Verifiers, CheckStep(v) PROVE QueueTyped'
<1>1. TypeOK /\ ClaimsAreMinted /\ JobsTypeOK /\ UNCHANGED <<pidOf, held>>
  BY CheckFrame DEF PoolNamed, PoolTypeOK
<1>2. CASE UNCHANGED <<task, minted>>
  BY <1>1, <1>2 DEF QueueTyped, TypeOK, ClaimsAreMinted
<1>3. CASE StartCheck(v)
  <2>1. task' = task /\ minted' = minted + 1 /\ minted' \in Tokens /\ minted \in Nat
    BY <1>1, <1>3, QueueConstants DEF StartCheck, ClaimVerificationJob, TypeOK, Tokens
  <2>2. \A t \in Tasks : task[t].claims \in Nat
    BY <1>1 DEF TypeOK, TaskRow, Tokens
  <2>3. QED
    BY <1>1, <2>1, <2>2 DEF QueueTyped, TypeOK, ClaimsAreMinted
<1>4. ASSUME NEW status \in JobStatuses, NEW taskStatus \in Statuses,
             FinishVerificationJob(v, status, taskStatus), minted' = minted
      PROVE  QueueTyped'
  <2>1. /\ Its(v) \in Tasks /\ task' \in [Tasks -> TaskRow] /\ RowOnly(Its(v))
        /\ task'[Its(v)] = [task[Its(v)] EXCEPT !.status = taskStatus]
    BY <1>1, <1>4, FinishRows
  <2>2. task'[Its(v)].claims = task[Its(v)].claims
    BY <1>1, <2>1 DEF TypeOK, TaskRow
  <2>3. QED
    BY <1>1, <1>4, <2>1, <2>2 DEF QueueTyped, TypeOK, ClaimsAreMinted, RowOnly
<1>5. CASE \/ FinishVerified(v) \/ SyncFails(v) \/ GitSyncs(v) \/ GitSyncFails(v)
           \/ FinishRecoveryPending(v) \/ FinishTerminal(v) \/ FinishNeedsRepair(v)
  BY <1>4, <1>5, PoolStatuses
     DEF FinishVerified, SyncFails, GitSyncs, GitSyncFails, FinishRecoveryPending,
         FinishTerminal, FinishNeedsRepair
<1>6. CASE RequeueForRepair(v)
  <2> DEFINE row == [Unclaimed(task[Its(v)]) EXCEPT !.status = "requeued"]
             late == [Unclaimed(task[Its(v)]) EXCEPT !.status = "requeued", !.due = FALSE]
  <2>1. Its(v) \in Tasks
    BY <1>6 DEF RequeueForRepair, PoolNamed, ChecksNamed, CheckNamed, AtCheck
  <2>2. task[Its(v)] \in TaskRow
    BY <1>1, <2>1 DEF TypeOK
  <2>3. row \in TaskRow /\ row.claims = task[Its(v)].claims
    BY <2>2, StatusRow, PoolStatuses
  <2>4. late \in TaskRow /\ late.claims = task[Its(v)].claims
    <3>1. late = [row EXCEPT !.due = FALSE]
      OBVIOUS
    <3>2. QED
      BY <2>3, <3>1 DEF TaskRow
  <2>5. task' = [task EXCEPT ![Its(v)] = late] /\ minted' = minted
    BY <1>6 DEF RequeueForRepair, RequeueWithoutOwner
  <2>6. QED
    BY <1>1, <2>1, <2>4, <2>5 DEF QueueTyped, TypeOK, ClaimsAreMinted
<1>7. QED
  BY <1>2, <1>3, <1>5, <1>6
     DEF CheckStep, ReadProposal, RegressionPasses, RegressionFails, SyncRuntime,
         RecordVerified, QueueGitSync, RecordSyncPending, RecordGitSynced,
         RecoveredBefore, RevertPromoted, RevertFails, RecordRecoveryPending,
         RecordReverted, RecordTerminal, RecordRepair, CheckFails

\* What the passing of time and the heartbeats write.
TimeRow(t) ==
    /\ task'[t].claims = task[t].claims
    /\ \/ /\ task'[t].by = task[t].by /\ task'[t].pid = task[t].pid
          /\ task'[t].token = task[t].token
          /\ \/ task'[t].status = task[t].status
             \/ /\ task[t].status \in Active /\ task'[t].status = "coding"
                /\ \E w \in Workers : Owns(w) /\ held[w].task = t
       \/ /\ Reclaimable(task[t])
          /\ task'[t].status = "requeued" /\ task'[t].token = 0

LEMMA TimeRows ==
    ASSUME TypeOK, TimePasses
    PROVE  /\ task' \in [Tasks -> TaskRow]
           /\ \A t \in Tasks : TimeRow(t)
<1> DEFINE Kept == task' \in [Tasks -> TaskRow] /\ \A t \in Tasks : TimeRow(t)
<1>1. ASSUME NEW t \in Tasks, NEW row \in TaskRow, task' = [task EXCEPT ![t] = row],
             row.claims = task[t].claims, row.by = task[t].by, row.pid = task[t].pid,
             row.token = task[t].token,
             \/ row.status = task[t].status
             \/ /\ task[t].status \in Active /\ row.status = "coding"
                /\ \E w \in Workers : Owns(w) /\ held[w].task = t
      PROVE  Kept
  <2>1. /\ task' \in [Tasks -> TaskRow] /\ task'[t] = row
        /\ \A u \in Tasks \ {t} : task'[u] = task[u]
    BY <1>1 DEF TypeOK
  <2>2. QED
    BY <1>1, <2>1 DEF TimeRow
<1>2. ASSUME NEW t \in Tasks, LeaseExpires(t) PROVE Kept
  <2> DEFINE row == [task[t] EXCEPT !.expired = TRUE]
  <2>1. task[t] \in TaskRow
    BY DEF TypeOK
  <2>2. /\ row \in TaskRow /\ row.claims = task[t].claims /\ row.by = task[t].by
        /\ row.pid = task[t].pid /\ row.token = task[t].token
        /\ row.status = task[t].status
    BY <2>1 DEF TaskRow
  <2>3. task' = [task EXCEPT ![t] = row]
    BY <1>2 DEF LeaseExpires
  <2>4. QED
    BY <1>1, <2>2, <2>3
<1>3. ASSUME NEW t \in Tasks, RetryComesDue(t) PROVE Kept
  <2> DEFINE row == [task[t] EXCEPT !.due = TRUE]
  <2>1. task[t] \in TaskRow
    BY DEF TypeOK
  <2>2. /\ row \in TaskRow /\ row.claims = task[t].claims /\ row.by = task[t].by
        /\ row.pid = task[t].pid /\ row.token = task[t].token
        /\ row.status = task[t].status
    BY <2>1 DEF TaskRow
  <2>3. task' = [task EXCEPT ![t] = row]
    BY <1>3 DEF RetryComesDue
  <2>4. QED
    BY <1>1, <2>2, <2>3
<1>4. ASSUME NEW w \in Workers, Heartbeat(w) PROVE Kept
  <2> DEFINE t == held[w].task
             row == [task[t] EXCEPT !.status = "coding", !.expired = FALSE]
  <2>1. t \in Tasks /\ Owns(w) /\ task[t].status \in Active
    BY <1>4 DEF Heartbeat, RenewTaskLease, Owns, TypeOK, Ticket
  <2>2. task[t] \in TaskRow /\ "coding" \in Statuses
    BY <2>1, StatusFacts DEF TypeOK
  <2>3. /\ row \in TaskRow /\ row.claims = task[t].claims /\ row.by = task[t].by
        /\ row.pid = task[t].pid /\ row.token = task[t].token /\ row.status = "coding"
    BY <2>2 DEF TaskRow
  <2>4. task' = [task EXCEPT ![t] = row]
    BY <1>4 DEF Heartbeat, RenewTaskLease
  <2>5. QED
    BY <1>1, <2>1, <2>3, <2>4
<1>5. CASE ReclaimBeforeTurn
  <2>1. ReclaimStaleTasks
    BY <1>5 DEF ReclaimBeforeTurn
  <2>2. QED
    BY <2>1, ReclaimRow DEF TimeRow
<1>6. QED
  BY <1>2, <1>3, <1>4, <1>5 DEF TimePasses

LEMMA QueueStaysTyped == ASSUME PoolNamed, [PoolNext]_everything PROVE QueueTyped'
<1>1. TypeOK /\ ClaimsAreMinted
  BY DEF PoolNamed, PoolTypeOK
<1>2. ASSUME NEW p \in Pids, BeginIteration(p) PROVE QueueTyped'
  <2>1. pidOf' \in [Threads -> Pids \cup {NoPid}] /\ UNCHANGED <<task, held, minted>>
    BY <1>2 DEF BeginIteration
  <2>2. QED
    BY <1>1, <2>1 DEF QueueTyped, TypeOK, ClaimsAreMinted
<1>3. CASE EndIteration \/ Crash
  BY <1>1, <1>3, EndFrame, DieRows DEF QueueTyped, ClaimsAreMinted
<1>4. CASE TimePasses
  BY <1>1, <1>4, TimeFrame, TimeRows DEF QueueTyped, TypeOK, ClaimsAreMinted, TimeRow
<1>5. CASE UNCHANGED vars
  BY <1>1, <1>5 DEF vars, QueueTyped, TypeOK, ClaimsAreMinted
<1>6. QED
  BY <1>2, <1>3, <1>4, <1>5, StepKinds, SyncKeepsQueueTyped, TurnKeepsQueueTyped,
     CheckKeepsQueueTyped
     DEF JobTimePasses, JobRetryComesDue, ReconcileGitStatuses, everything, allvars, vars

----------------------------------------------------------------------------
(* The jobs.                                                               *)

\* Queueing a job never touches the claim of one that is being worked on.
LEMMA EnqueueJobRow ==
    ASSUME JobsTypeOK, NEW t \in Tasks, NEW k \in Kinds, NEW rev \in Revisions,
           EnqueueVerificationJob(t, k, rev)
    PROVE  /\ job' \in [Tasks -> [Kinds -> JobRow]] /\ JobOnly(t, k)
           /\ job'[t][k].rev = rev
           /\ \/ /\ job'[t][k].status = job[t][k].status
                 /\ job'[t][k].by = job[t][k].by
                 /\ job'[t][k].token = job[t][k].token
                 /\ job[t][k].status # "absent"
              \/ /\ job[t][k].status \notin ClaimableJob \cup {"claimed"}
                 /\ job'[t][k].status = "queued"
                 /\ job'[t][k].by = Nobody /\ job'[t][k].token = 0
<1> DEFINE old == job[t][k]
           fresh == [NoJob EXCEPT !.status = "queued", !.rev = rev]
           row == Revise(old, rev)
<1>1. old \in JobRow /\ "queued" \in JobStatuses /\ 0 \in Tokens
  BY QueueConstants DEF JobsTypeOK, JobStatuses, ClaimableJob, Tokens
<1>2. /\ fresh \in JobRow /\ fresh.status = "queued" /\ fresh.rev = rev
      /\ fresh.by = Nobody /\ fresh.token = 0
  BY <1>1 DEF NoJob, JobRow
<1>3. /\ [old EXCEPT !.rev = rev] \in JobRow
      /\ [old EXCEPT !.rev = rev].rev = rev
      /\ [old EXCEPT !.rev = rev].status = old.status
      /\ [old EXCEPT !.rev = rev].by = old.by
      /\ [old EXCEPT !.rev = rev].token = old.token
  BY <1>1 DEF JobRow
<1>4. \/ /\ row = fresh /\ old.status \notin ClaimableJob \cup {"claimed"}
      \/ row = [old EXCEPT !.rev = rev] /\ old.status # "absent"
  BY DEF Revise, ClaimableJob
<1>5. job' = [job EXCEPT ![t][k] = row]
  BY DEF EnqueueVerificationJob
<1>6. row \in JobRow
  BY <1>2, <1>3, <1>4
<1>7. job' \in [Tasks -> [Kinds -> JobRow]] /\ JobOnly(t, k) /\ job'[t][k] = row
  BY <1>5, <1>6 DEF JobsTypeOK, JobOnly
<1>8. QED
  BY <1>2, <1>3, <1>4, <1>7

\* A verifier that claims a job is the only one its row names.
LEMMA ClaimJobRow ==
    ASSUME TypeOK, JobsTypeOK, NEW v \in Verifiers, ClaimVerificationJob(v)
    PROVE  /\ job' \in [Tasks -> [Kinds -> JobRow]]
           /\ checking' \in [Verifiers -> JobTicket]
           /\ checking[v] = NoJobTicket
           /\ \E t \in Tasks, k \in Kinds :
                /\ checking' = [checking EXCEPT ![v] =
                                  [task |-> t, kind |-> k, token |-> minted + 1]]
                /\ JobOnly(t, k) /\ job[t][k].status \in ClaimableJob
                /\ job'[t][k].status = "claimed" /\ job'[t][k].by = v
                /\ job'[t][k].token = minted + 1
                /\ job'[t][k].rev = job[t][k].rev
<1>1. PICK x \in ReadyJobs :
          /\ job' = [job EXCEPT ![x[1]][x[2]] =
                        [@ EXCEPT !.status = "claimed", !.by = v,
                                  !.pid = pidOf[v], !.token = minted + 1]]
          /\ checking' = [checking EXCEPT ![v] =
                        [task |-> x[1], kind |-> x[2], token |-> minted + 1]]
  BY DEF ClaimVerificationJob
<1>2. PICK t \in Tasks, k \in Kinds : x = <<t, k>>
  BY DEF ReadyJobs
<1> DEFINE row == [job[t][k] EXCEPT !.status = "claimed", !.by = v,
                                    !.pid = pidOf[v], !.token = minted + 1]
<1>3. job[t][k].status \in ClaimableJob /\ job[t][k] \in JobRow
  BY <1>2 DEF ReadyJobs, JobsTypeOK
<1>4. minted + 1 \in Tokens /\ pidOf[v] \in Pids \cup {NoPid}
  BY QueueConstants, VerifiersAreThreads DEF ClaimVerificationJob, TypeOK, Tokens
<1>5. /\ row \in JobRow /\ row.status = "claimed" /\ row.by = v
      /\ row.token = minted + 1 /\ row.rev = job[t][k].rev
  BY <1>3, <1>4, PoolStatuses DEF JobRow
<1>6. job' = [job EXCEPT ![t][k] = row]
  BY <1>1, <1>2
<1>7. job' \in [Tasks -> [Kinds -> JobRow]] /\ JobOnly(t, k) /\ job'[t][k] = row
  BY <1>5, <1>6 DEF JobsTypeOK, JobOnly
<1>8. checking' = [checking EXCEPT ![v] = [task |-> t, kind |-> k, token |-> minted + 1]]
  BY <1>1, <1>2
<1>9. checking' \in [Verifiers -> JobTicket] /\ checking[v] = NoJobTicket
  BY <1>4, <1>8 DEF JobsTypeOK, JobTicket, ClaimVerificationJob
<1>10. QED
  BY <1>3, <1>5, <1>7, <1>8, <1>9

\* A retry that comes due changes nothing that a verifier looks at.
LEMMA JobTimeRows ==
    ASSUME JobsTypeOK, JobTimePasses
    PROVE  /\ job' \in [Tasks -> [Kinds -> JobRow]]
           /\ \A t \in Tasks, k \in Kinds :
                /\ job'[t][k].status = job[t][k].status /\ job'[t][k].by = job[t][k].by
                /\ job'[t][k].token = job[t][k].token /\ job'[t][k].rev = job[t][k].rev
           /\ UNCHANGED <<vars, checking>>
<1>1. PICK t \in Tasks, k \in Kinds :
         job' = [job EXCEPT ![t][k].due = TRUE] /\ UNCHANGED <<vars, checking>>
  BY DEF JobTimePasses, JobRetryComesDue, vars
<1> DEFINE row == [job[t][k] EXCEPT !.due = TRUE]
<1>2. job[t][k] \in JobRow
  BY DEF JobsTypeOK
<1>3. /\ row \in JobRow /\ row.status = job[t][k].status /\ row.by = job[t][k].by
      /\ row.token = job[t][k].token /\ row.rev = job[t][k].rev
  BY <1>2 DEF JobRow
<1>4. job' = [job EXCEPT ![t][k] = row]
  BY <1>1
<1>5. job' \in [Tasks -> [Kinds -> JobRow]] /\ JobOnly(t, k) /\ job'[t][k] = row
  BY <1>3, <1>4 DEF JobsTypeOK, JobOnly
<1>6. QED
  BY <1>1, <1>3, <1>5 DEF JobOnly

\* What a payload may name.
LEMMA RevisionsTyped ==
    /\ CommitRefs \subseteq Int /\ Tokens \subseteq Int
    /\ \A i \in Int : <<"commit", i>> \in Revisions /\ <<"claim", i>> \in Revisions
    /\ NoRevision \in Revisions
<1>1. CommitRefs \subseteq Int /\ Tokens \subseteq Int
  BY PoolConstants, QueueConstants DEF CommitRefs, Elsewhere, Tokens
<1>2. QED
  BY <1>1 DEF Revisions, NoRevision

LEMMA SnapTyped ==
    ASSUME PoolTypeOK, NEW v \in Verifiers
    PROVE  /\ check[v].snap \in Proposal
           /\ PromotedCommit(check[v].snap) \in CommitRefs
           /\ check[v].snap.promo \in CommitRefs /\ check[v].snap.recovered \in BOOLEAN
BY DEF PoolTypeOK, Check, Proposal, PromotedCommit

\* The jobs a worker or the synchronisation queues, and a verifier's own.
LEMMA HandOffRow ==
    ASSUME PoolNamed, NEW w \in Workers, HandOff(w)
    PROVE  /\ Mine(w) \in Tasks /\ "full_regression" \in Kinds
           /\ <<"claim", turn[w].claims>> \in Revisions
           /\ EnqueueVerificationJob(Mine(w), "full_regression",
                                     <<"claim", turn[w].claims>>)
<1>1. turn[w].claims \in Tokens
  BY DEF PoolNamed, PoolTypeOK, Turn
<1>2. QED
  BY <1>1, RevisionsTyped DEF HandOff, PoolNamed, TurnsNamed, TurnNamed, AtWork, Mine, Kinds

LEMMA ReconciledJobRow ==
    ASSUME PoolNamed, EnqueueReconciledJob
    PROVE  /\ sync.t \in Tasks /\ "full_regression" \in Kinds
           /\ <<"commit", Oldest(sync.t)>> \in Revisions
           /\ Oldest(sync.t) \in CandidatesOf(sync.t)
           /\ EnqueueVerificationJob(sync.t, "full_regression",
                                     <<"commit", Oldest(sync.t)>>)
<1>1. sync.t \in Tasks /\ Oldest(sync.t) \in CandidatesOf(sync.t)
  BY OldestAndNewest DEF EnqueueReconciledJob, PoolNamed, SyncNamed
<1>2. CandidatesOf(sync.t) \subseteq Int
  BY DEF CandidatesOf, Commits
<1>3. QED
  BY <1>1, <1>2, RevisionsTyped DEF EnqueueReconciledJob, Kinds

LEMMA GitSyncJobRow ==
    ASSUME PoolNamed, NEW v \in Verifiers, QueueGitSync(v)
    PROVE  /\ Its(v) \in Tasks /\ "git_sync" \in Kinds
           /\ <<"commit", PromotedCommit(check[v].snap)>> \in Revisions
           /\ EnqueueVerificationJob(Its(v), "git_sync",
                                     <<"commit", PromotedCommit(check[v].snap)>>)
<1>1. PromotedCommit(check[v].snap) \in Int
  BY SnapTyped, RevisionsTyped DEF PoolNamed
<1>2. QED
  BY <1>1, RevisionsTyped DEF QueueGitSync, PoolNamed, ChecksNamed, CheckNamed, AtCheck, Kinds

LEMMA JobsStayTyped == ASSUME PoolNamed, [PoolNext]_everything PROVE JobsTypeOK'
<1>1. TypeOK /\ JobsTypeOK
  BY DEF PoolNamed, PoolTypeOK
<1> USE DEF JobsTypeOK
<1>2. NoJobTicket \in JobTicket
  BY QueueConstants DEF NoJobTicket, JobTicket, Kinds, Tokens
<1>3. CASE UNCHANGED jobvars
  BY <1>1, <1>3 DEF jobvars
<1>4. CASE EndIteration \/ Crash
  BY <1>1, <1>2, <1>4, EndFrame DEF Down
<1>5. CASE SyncStep
  <2>1. CASE EnqueueReconciledJob
    BY <1>1, <1>5, <2>1, ReconciledJobRow, EnqueueJobRow, SyncFrame
  <2>2. QED
    BY <1>1, <1>5, <2>1, SyncFrame
       DEF SyncStep, ReconcilePromotedCommit, EnqueueProposal, EnqueuePromoted,
           CompletePromoted, EndReconcile, EndSync
<1>6. ASSUME NEW w \in Workers, TurnStep(w) PROVE JobsTypeOK'
  <2>1. CASE HandOff(w)
    BY <1>1, <1>6, <2>1, HandOffRow, EnqueueJobRow, TurnFrame
  <2>2. QED
    BY <1>1, <1>6, <2>1, TurnFrame
       DEF TurnStep, PoolClaim, Dispatch, CodingEnds, PromoteCandidate, RecordPromotion,
           PromotionUnseen, CompleteTurn, RetryLater, ParkTask, ParkProposal, Fail, FailAgain
<1>7. ASSUME NEW v \in Verifiers, CheckStep(v) PROVE JobsTypeOK'
  <2>1. CASE UNCHANGED job /\ (UNCHANGED checking \/ EndCheck(v))
    BY <1>1, <1>2, <2>1 DEF EndCheck
  <2>2. CASE StartCheck(v)
    BY <1>1, <2>2, ClaimJobRow DEF StartCheck
  <2>3. CASE QueueGitSync(v)
    BY <1>1, <2>3, GitSyncJobRow, EnqueueJobRow DEF QueueGitSync
  <2>4. ASSUME NEW status \in JobStatuses, NEW taskStatus \in Statuses,
               FinishVerificationJob(v, status, taskStatus),
               UNCHANGED checking \/ EndCheck(v)
        PROVE  JobsTypeOK'
    BY <1>1, <1>2, <2>4, FinishRows DEF EndCheck
  <2>5. CASE \/ FinishVerified(v) \/ SyncFails(v) \/ GitSyncs(v) \/ GitSyncFails(v)
             \/ FinishRecoveryPending(v) \/ FinishTerminal(v) \/ FinishNeedsRepair(v)
    BY <2>4, <2>5, PoolStatuses
       DEF FinishVerified, SyncFails, GitSyncs, GitSyncFails, FinishRecoveryPending,
           FinishTerminal, FinishNeedsRepair
  <2>6. QED
    BY <1>7, <2>1, <2>2, <2>3, <2>5
       DEF CheckStep, ReadProposal, RegressionPasses, RegressionFails, SyncRuntime,
           RecordVerified, RecordSyncPending, RecordGitSynced, RecoveredBefore,
           RevertPromoted, RevertFails, RecordRecoveryPending, RecordReverted,
           RecordTerminal, RecordRepair, RequeueForRepair, CheckFails, jobvars
<1>8. CASE JobTimePasses
  BY <1>1, <1>8, JobTimeRows
<1>9. QED
  BY <1>3, <1>4, <1>5, <1>6, <1>7, <1>8, StepKinds
     DEF BeginIteration, ReconcileGitStatuses, everything, allvars

----------------------------------------------------------------------------
(* The proposals, row by row.                                              *)

PropOnly(t) == /\ prop' \in [Tasks -> Proposal]
               /\ \A u \in Tasks \ {t} : prop'[u] = prop[u]

LEMMA ProposalFacts ==
    /\ QueueStatuses \cup {Pending, "promoted", "archived_failed", Parked,
          "verification_failure_recovery_pending", "verification_failure_reverted",
          "reverted_verification_failure"} = ProposalStatuses
    /\ {"proposed", "implementation_paused"} = QueueStatuses
    /\ Pending \notin QueueStatuses /\ Parked \notin QueueStatuses
    /\ "promoted" \notin QueueStatuses /\ "archived_failed" \notin QueueStatuses
    /\ {0, Elsewhere} \subseteq CommitRefs /\ 0 .. MaxCommits \subseteq CommitRefs
    /\ Elsewhere # 0 /\ Elsewhere \notin Nat
    /\ NewProposal \in Proposal
<1>1. {0, Elsewhere} \subseteq CommitRefs /\ 0 .. MaxCommits \subseteq CommitRefs
  BY PoolConstants DEF CommitRefs, Elsewhere
<1>2. NewProposal \in Proposal
  BY <1>1 DEF NewProposal, Proposal, ProposalStatuses, QueueStatuses
<1>3. QED
  BY <1>1, <1>2 DEF ProposalStatuses, QueueStatuses, Pending, Parked, Elsewhere

\* A candidate of a task fits into a column.
LEMMA CandidatesTyped ==
    ASSUME PoolNamed, NEW t
    PROVE  /\ CandidatesOf(t) \subseteq 1 .. MaxCommits
           /\ CandidatesOf(t) \subseteq CommitRefs
<1>1. Len(main) \in Nat
  BY DEF PoolNamed, PoolTypeOK
<1>2. CandidatesOf(t) \subseteq 1 .. MaxCommits
  BY <1>1, PoolConstants DEF CandidatesOf, Commits, PoolNamed, CandidatesFit
<1>3. QED
  BY <1>2, ProposalFacts

LEMMA ReconciledRow ==
    ASSUME PoolNamed, NEW t \in Tasks, ReconcilePromotedCommit(t)
    PROVE  /\ PropOnly(t) /\ Oldest(t) \in CandidatesOf(t)
           /\ prop'[t].status = Pending /\ prop'[t].cand = Oldest(t)
           /\ prop'[t].promo = prop[t].promo
           /\ prop'[t].recovered = prop[t].recovered
<1> DEFINE row == [prop[t] EXCEPT !.status = Pending, !.cand = Oldest(t)]
<1>1. prop[t] \in Proposal /\ prop \in [Tasks -> Proposal]
  BY DEF PoolNamed, PoolTypeOK
<1>2. CandidatesOf(t) # {}
  BY DEF ReconcilePromotedCommit, PoolNamed, SyncNamed
<1>3. Oldest(t) \in CandidatesOf(t) /\ Oldest(t) \in CommitRefs
  BY <1>2, OldestAndNewest, CandidatesTyped DEF PoolNamed
<1>4. /\ row \in Proposal /\ row.status = Pending /\ row.cand = Oldest(t)
      /\ row.promo = prop[t].promo /\ row.recovered = prop[t].recovered
  BY <1>1, <1>3, ProposalFacts DEF Proposal
<1>5. prop' = [prop EXCEPT ![t] = row]
  BY <1>1 DEF ReconcilePromotedCommit
<1>6. QED
  BY <1>1, <1>3, <1>4, <1>5 DEF PropOnly

LEMMA CodingEndsRow ==
    ASSUME PoolNamed, NEW w \in Workers,
           NEW status \in {"implementation_paused", "archived_failed"},
           CodingEnds(w, status)
    PROVE  /\ Mine(w) \in Tasks /\ PropOnly(Mine(w))
           /\ prop'[Mine(w)].status = status
           /\ prop'[Mine(w)].cand \in {prop[Mine(w)].cand, Elsewhere, 0}
           /\ prop'[Mine(w)].promo = 0 /\ prop'[Mine(w)].recovered = FALSE
<1> DEFINE t == Mine(w)
<1>1. t \in Tasks /\ prop \in [Tasks -> Proposal] /\ prop[t].cand \in CommitRefs
  BY DEF CodingEnds, PoolNamed, PoolTypeOK, TurnsNamed, TurnNamed, AtWork, Mine, Proposal
<1>2. PICK cand \in {prop[t].cand, Elsewhere, 0}, release \in BOOLEAN :
         prop' = [prop EXCEPT ![t] = [status |-> status, cand |-> cand, promo |-> 0,
                                      recovered |-> FALSE, release |-> release]]
  BY DEF CodingEnds
<1>3. [status |-> status, cand |-> cand, promo |-> 0, recovered |-> FALSE,
       release |-> release] \in Proposal
  BY <1>1, ProposalFacts DEF Proposal
<1>4. QED
  BY <1>1, <1>2, <1>3 DEF PropOnly

LEMMA RecordPromotionRow ==
    ASSUME PoolNamed, NEW w \in Workers, RecordPromotion(w)
    PROVE  /\ Mine(w) \in Tasks /\ PropOnly(Mine(w))
           /\ prop'[Mine(w)].status = IF Defer THEN Pending ELSE "promoted"
           /\ prop'[Mine(w)].cand \in {turn[w].commit, Elsewhere}
           /\ prop'[Mine(w)].promo = turn[w].commit
           /\ prop'[Mine(w)].recovered = FALSE /\ prop'[Mine(w)].release
<1> DEFINE t == Mine(w)
           status == IF Defer THEN Pending ELSE "promoted"
<1>1. t \in Tasks /\ prop \in [Tasks -> Proposal] /\ turn[w].commit \in CommitRefs
  BY DEF RecordPromotion, PoolNamed, PoolTypeOK, TurnsNamed, TurnNamed, AtWork, Mine, Turn
<1>2. PICK cand \in {turn[w].commit, Elsewhere} :
         prop' = [prop EXCEPT ![t] = [status |-> status, cand |-> cand,
                                      promo |-> turn[w].commit, recovered |-> FALSE,
                                      release |-> TRUE]]
  BY DEF RecordPromotion
<1>3. [status |-> status, cand |-> cand, promo |-> turn[w].commit,
       recovered |-> FALSE, release |-> TRUE] \in Proposal
  BY <1>1, ProposalFacts DEF Proposal
<1>4. QED
  BY <1>1, <1>2, <1>3 DEF PropOnly

LEMMA PromotionUnseenRow ==
    ASSUME PoolNamed, NEW w \in Workers, PromotionUnseen(w)
    PROVE  /\ Mine(w) \in Tasks /\ PropOnly(Mine(w))
           /\ prop'[Mine(w)].status = "implementation_paused"
           /\ prop'[Mine(w)].cand \in {turn[w].commit, Elsewhere}
           /\ prop'[Mine(w)].promo = 0 /\ prop'[Mine(w)].recovered = FALSE
<1> DEFINE t == Mine(w)
<1>1. t \in Tasks /\ prop \in [Tasks -> Proposal] /\ turn[w].commit \in CommitRefs
  BY DEF PromotionUnseen, PoolNamed, PoolTypeOK, TurnsNamed, TurnNamed, AtWork, Mine, Turn
<1>2. PICK cand \in {turn[w].commit, Elsewhere} :
         prop' = [prop EXCEPT ![t] = [status |-> "implementation_paused", cand |-> cand,
                                      promo |-> 0, recovered |-> FALSE, release |-> TRUE]]
  BY DEF PromotionUnseen
<1>3. [status |-> "implementation_paused", cand |-> cand, promo |-> 0,
       recovered |-> FALSE, release |-> TRUE] \in Proposal
  BY <1>1, ProposalFacts DEF Proposal
<1>4. QED
  BY <1>1, <1>2, <1>3 DEF PropOnly

\* A write of the status alone.
LEMMA StatusOnlyRow ==
    ASSUME PoolTypeOK, NEW t \in Tasks, NEW status \in ProposalStatuses,
           prop' = [prop EXCEPT ![t].status = status]
    PROVE  /\ PropOnly(t) /\ prop'[t].status = status
           /\ prop'[t].cand = prop[t].cand /\ prop'[t].promo = prop[t].promo
           /\ prop'[t].recovered = prop[t].recovered
<1> DEFINE row == [prop[t] EXCEPT !.status = status]
<1>1. prop[t] \in Proposal /\ prop \in [Tasks -> Proposal]
  BY DEF PoolTypeOK
<1>2. /\ row \in Proposal /\ row.status = status /\ row.cand = prop[t].cand
      /\ row.promo = prop[t].promo /\ row.recovered = prop[t].recovered
  BY <1>1 DEF Proposal
<1>3. prop' = [prop EXCEPT ![t] = row]
  BY <1>1
<1>4. QED
  BY <1>1, <1>2, <1>3 DEF PropOnly

\* The rewrites of a verifier's records: the row it read, with a new status.
LEMMA RewriteRow ==
    ASSUME PoolTypeOK, NEW t \in Tasks, NEW status \in ProposalStatuses,
           NEW snap \in Proposal, NEW recovered \in BOOLEAN,
           Rewrite(t, status, snap, recovered)
    PROVE  /\ PropOnly(t) /\ prop'[t].status = status
           /\ prop'[t].cand = prop[t].cand /\ prop'[t].promo = snap.promo
           /\ prop'[t].recovered = recovered /\ prop'[t].release = snap.release
<1> DEFINE row == [prop[t] EXCEPT !.status = status, !.promo = snap.promo,
                                  !.recovered = recovered, !.release = snap.release]
<1>1. prop[t] \in Proposal /\ prop \in [Tasks -> Proposal]
  BY DEF PoolTypeOK
<1>2. /\ row \in Proposal /\ row.status = status /\ row.cand = prop[t].cand
      /\ row.promo = snap.promo /\ row.recovered = recovered
      /\ row.release = snap.release
  BY <1>1 DEF Proposal
<1>3. prop' = [prop EXCEPT ![t] = row]
  BY DEF Rewrite
<1>4. QED
  BY <1>1, <1>2, <1>3 DEF PropOnly

\* The steps of a verifier that write the proposal.
LEMMA VerifierRows ==
    ASSUME PoolNamed, NEW v \in Verifiers
    PROVE  /\ RecordVerified(v) \/ RecordSyncPending(v) \/ RecordRecoveryPending(v)
                \/ RecordReverted(v) \/ RecordTerminal(v) =>
                   /\ Its(v) \in Tasks /\ PropOnly(Its(v))
                   /\ prop'[Its(v)].cand = prop[Its(v)].cand
                   /\ prop'[Its(v)].promo = check[v].snap.promo
           /\ RecordVerified(v) => prop'[Its(v)].status = "promoted"
           /\ RecordSyncPending(v) => prop'[Its(v)].status = Pending
           /\ RecordVerified(v) \/ RecordSyncPending(v) =>
                   prop'[Its(v)].recovered = check[v].snap.recovered
           /\ RecordRecoveryPending(v) =>
                   /\ prop'[Its(v)].status = "verification_failure_recovery_pending"
                   /\ prop'[Its(v)].recovered = FALSE
           /\ RecordReverted(v) =>
                   prop'[Its(v)].status = "verification_failure_reverted"
           /\ RecordTerminal(v) =>
                   prop'[Its(v)].status = "reverted_verification_failure"
           /\ RecordReverted(v) \/ RecordTerminal(v) => prop'[Its(v)].recovered = TRUE
           /\ RecordGitSynced(v) =>
                   /\ Its(v) \in Tasks /\ PropOnly(Its(v))
                   /\ prop'[Its(v)].status = "promoted"
                   /\ prop'[Its(v)].cand = prop[Its(v)].cand
                   /\ prop'[Its(v)].promo = prop[Its(v)].promo
                   /\ prop'[Its(v)].recovered = prop[Its(v)].recovered
<1> DEFINE snap == check[v].snap
<1>1. PoolTypeOK /\ snap \in Proposal /\ snap.recovered \in BOOLEAN
  BY SnapTyped DEF PoolNamed
<1>2. AtCheck(v) => Its(v) \in Tasks
  BY DEF PoolNamed, ChecksNamed, CheckNamed
<1>3. ASSUME RecordVerified(v)
      PROVE  Its(v) \in Tasks /\ Rewrite(Its(v), "promoted", snap, snap.recovered)
  BY <1>2, <1>3 DEF RecordVerified, AtCheck
<1>4. ASSUME RecordSyncPending(v)
      PROVE  Its(v) \in Tasks /\ Rewrite(Its(v), Pending, snap, snap.recovered)
  BY <1>2, <1>4 DEF RecordSyncPending, AtCheck
<1>5. ASSUME RecordRecoveryPending(v)
      PROVE  /\ Its(v) \in Tasks
             /\ Rewrite(Its(v), "verification_failure_recovery_pending", snap, FALSE)
  BY <1>2, <1>5 DEF RecordRecoveryPending, AtCheck
<1>6. ASSUME RecordReverted(v)
      PROVE  /\ Its(v) \in Tasks
             /\ Rewrite(Its(v), "verification_failure_reverted", snap, TRUE)
  BY <1>2, <1>6 DEF RecordReverted, AtCheck
<1>7. ASSUME RecordTerminal(v)
      PROVE  /\ Its(v) \in Tasks
             /\ Rewrite(Its(v), "reverted_verification_failure", snap, TRUE)
  BY <1>2, <1>7 DEF RecordTerminal, AtCheck
<1>8. ASSUME RecordGitSynced(v)
      PROVE  Its(v) \in Tasks /\ prop' = [prop EXCEPT ![Its(v)].status = "promoted"]
  BY <1>2, <1>8 DEF RecordGitSynced, AtCheck
<1>9. {"promoted", Pending, "verification_failure_recovery_pending",
       "verification_failure_reverted", "reverted_verification_failure"}
         \subseteq ProposalStatuses
  BY ProposalFacts
<1> DEFINE Row(status, recovered) ==
        /\ Its(v) \in Tasks /\ PropOnly(Its(v)) /\ prop'[Its(v)].status = status
        /\ prop'[Its(v)].cand = prop[Its(v)].cand
        /\ prop'[Its(v)].promo = snap.promo
        /\ prop'[Its(v)].recovered = recovered
<1>10. RecordVerified(v) => Row("promoted", snap.recovered)
  BY <1>1, <1>3, <1>9, RewriteRow
<1>11. RecordSyncPending(v) => Row(Pending, snap.recovered)
  BY <1>1, <1>4, <1>9, RewriteRow
<1>12. RecordRecoveryPending(v) => Row("verification_failure_recovery_pending", FALSE)
  BY <1>1, <1>5, <1>9, RewriteRow
<1>13. RecordReverted(v) => Row("verification_failure_reverted", TRUE)
  BY <1>1, <1>6, <1>9, RewriteRow
<1>14. RecordTerminal(v) => Row("reverted_verification_failure", TRUE)
  BY <1>1, <1>7, <1>9, RewriteRow
<1>15. RecordGitSynced(v) =>
          /\ Its(v) \in Tasks /\ PropOnly(Its(v))
          /\ prop'[Its(v)].status = "promoted"
          /\ prop'[Its(v)].cand = prop[Its(v)].cand
          /\ prop'[Its(v)].promo = prop[Its(v)].promo
          /\ prop'[Its(v)].recovered = prop[Its(v)].recovered
  BY <1>1, <1>8, <1>9, StatusOnlyRow
<1>16. QED
  BY <1>10, <1>11, <1>12, <1>13, <1>14, <1>15

LEMMA RecordRepairRow ==
    ASSUME PoolNamed, NEW v \in Verifiers, RecordRepair(v)
    PROVE  /\ Its(v) \in Tasks /\ PropOnly(Its(v))
           /\ prop'[Its(v)].status = "implementation_paused"
           /\ prop'[Its(v)].cand \in {0, prop[Its(v)].cand}
           /\ prop'[Its(v)].promo = check[v].snap.promo
           /\ prop'[Its(v)].recovered = TRUE
<1> DEFINE t == Its(v)
<1>1. /\ t \in Tasks /\ prop \in [Tasks -> Proposal] /\ prop[t].cand \in CommitRefs
      /\ check[v].snap.promo \in CommitRefs /\ check[v].snap.release \in BOOLEAN
  BY SnapTyped DEF RecordRepair, PoolNamed, PoolTypeOK, ChecksNamed, CheckNamed, AtCheck, Proposal
<1>2. PICK cand \in {0, prop[t].cand} :
         prop' = [prop EXCEPT ![t] =
                    [status |-> "implementation_paused", cand |-> cand,
                     promo |-> check[v].snap.promo, recovered |-> TRUE,
                     release |-> check[v].snap.release]]
  BY <1>1 DEF RecordRepair
<1>3. [status |-> "implementation_paused", cand |-> cand,
       promo |-> check[v].snap.promo, recovered |-> TRUE,
       release |-> check[v].snap.release] \in Proposal
  BY <1>1, ProposalFacts DEF Proposal
<1>4. QED
  BY <1>1, <1>2, <1>3 DEF PropOnly

LEMMA AncestryRow ==
    ASSUME PoolNamed, ReconcileGitStatuses
    PROVE  /\ prop' \in [Tasks -> Proposal] /\ Ancestry
           /\ \A t \in Tasks :
                /\ prop'[t].status \in {prop[t].status, "promoted"}
                /\ prop'[t].status # prop[t].status => prop'[t].cand \in Commits
                /\ prop'[t].cand \in {prop[t].cand} \cup CandidatesOf(t)
                /\ prop'[t].promo = prop[t].promo
                /\ prop'[t].recovered = prop[t].recovered
           /\ UNCHANGED <<allvars, main, phase, sync, turn, check, repairs, worktree,
                          tested>>
<1>1. ASSUME NEW t \in Tasks
      PROVE  /\ prop'[t] \in Proposal
             /\ prop'[t].status \in {prop[t].status, "promoted"}
             /\ prop'[t].status # prop[t].status => prop'[t].cand \in Commits
             /\ prop'[t].cand \in {prop[t].cand} \cup CandidatesOf(t)
             /\ prop'[t].promo = prop[t].promo
             /\ prop'[t].recovered = prop[t].recovered
  <2> DEFINE row == prop[t]
             cand == IF row.cand = 0 /\ row.status # "promoted" /\ CandidatesOf(t) # {}
                     THEN Newest(t) ELSE row.cand
             new == [row EXCEPT !.cand = cand,
                                !.status = IF cand \in Commits THEN "promoted" ELSE @]
  <2>1. row \in Proposal
    BY DEF PoolNamed, PoolTypeOK
  <2>2. CandidatesOf(t) # {} => Newest(t) \in CandidatesOf(t)
    BY OldestAndNewest DEF PoolNamed
  <2>3. cand \in {row.cand} \cup CandidatesOf(t) /\ cand \in CommitRefs
    BY <2>1, <2>2, CandidatesTyped DEF Proposal
  <2>4. /\ new \in Proposal /\ new.cand = cand
        /\ new.status \in {row.status, "promoted"}
        /\ new.status # row.status => new.cand \in Commits
        /\ new.promo = row.promo /\ new.recovered = row.recovered
    BY <2>1, <2>3, ProposalFacts DEF Proposal
  <2>5. prop'[t] = new
    BY DEF ReconcileGitStatuses, AncestryOf
  <2>6. QED
    BY <2>3, <2>4, <2>5
<1>2. prop' = [t \in Tasks |-> prop'[t]]
  BY DEF ReconcileGitStatuses
<1>3. prop' \in [Tasks -> Proposal]
  BY <1>1, <1>2
<1>4. QED
  BY <1>1, <1>3 DEF ReconcileGitStatuses

\* Which steps write the proposals.
PropWrite ==
    \/ \E t \in Tasks : ReconcilePromotedCommit(t)
    \/ \E w \in Workers :
          \/ \E status \in {"implementation_paused", "archived_failed"} :
                CodingEnds(w, status)
          \/ RecordPromotion(w) \/ PromotionUnseen(w) \/ ParkProposal(w)
    \/ \E v \in Verifiers :
          \/ RecordVerified(v) \/ RecordSyncPending(v) \/ RecordRecoveryPending(v)
          \/ RecordReverted(v) \/ RecordTerminal(v) \/ RecordGitSynced(v)
          \/ RecordRepair(v)
    \/ ReconcileGitStatuses

LEMMA PropWrites == ASSUME [PoolNext]_everything PROVE prop' = prop \/ PropWrite
<1> USE DEF everything, allvars, vars, jobvars, poolvars
<1>1. ASSUME NEW w \in Workers, TurnStep(w) PROVE prop' = prop \/ PropWrite
  BY <1>1 DEF TurnStep, PoolClaim, Dispatch, PromoteCandidate, HandOff,
              CompleteTurn, RetryLater, ParkTask, Fail, FailAgain, PropWrite
<1>2. ASSUME NEW v \in Verifiers, CheckStep(v) PROVE prop' = prop \/ PropWrite
  BY <1>2 DEF CheckStep, StartCheck, ReadProposal, RegressionPasses, RegressionFails,
              SyncRuntime, FinishVerified, SyncFails, QueueGitSync, GitSyncs,
              GitSyncFails, RecoveredBefore, RevertPromoted, RevertFails,
              FinishRecoveryPending, FinishTerminal, FinishNeedsRepair,
              RequeueForRepair, CheckFails, PropWrite
<1>3. CASE SyncStep
  BY <1>3 DEF SyncStep, EnqueueProposal, EnqueuePromoted, CompletePromoted,
              EnqueueReconciledJob, EndReconcile, EndSync, PropWrite
<1>4. QED
  BY StepKinds, EndFrame, <1>1, <1>2, <1>3
     DEF BeginIteration, Down, JobTimePasses, JobRetryComesDue, PropWrite

LEMMA ParkProposalRow ==
    ASSUME PoolNamed, NEW w \in Workers, ParkProposal(w)
    PROVE  /\ Mine(w) \in Tasks /\ PropOnly(Mine(w))
           /\ prop'[Mine(w)].status = Parked
           /\ prop'[Mine(w)].cand = prop[Mine(w)].cand
           /\ prop'[Mine(w)].promo = prop[Mine(w)].promo
           /\ prop'[Mine(w)].recovered = prop[Mine(w)].recovered
<1>1. Mine(w) \in Tasks /\ prop' = [prop EXCEPT ![Mine(w)].status = Parked]
  BY DEF ParkProposal, PoolNamed, TurnsNamed, TurnNamed, AtWork, Mine
<1>2. QED
  BY <1>1, StatusOnlyRow, ProposalFacts DEF PoolNamed

LEMMA PropsStayTyped ==
    ASSUME PoolNamed, [PoolNext]_everything PROVE prop' \in [Tasks -> Proposal]
<1>1. CASE prop' = prop
  BY <1>1 DEF PoolNamed, PoolTypeOK
<1>2. CASE PropWrite
  BY <1>2, ReconciledRow, CodingEndsRow, RecordPromotionRow, PromotionUnseenRow,
     ParkProposalRow, VerifierRows, RecordRepairRow, AncestryRow DEF PropWrite, PropOnly
<1>3. QED
  BY <1>1, <1>2, PropWrites

LEMMA MainStaysTyped ==
    ASSUME PoolNamed, [PoolNext]_everything
    PROVE  main' \in Seq([of: Tasks, undoes: 0 .. MaxCommits]) /\ CandidatesFit'
<1>1. /\ main \in Seq([of: Tasks, undoes: 0 .. MaxCommits]) /\ CandidatesFit
      /\ Len(main) \in Nat
  BY DEF PoolNamed, PoolTypeOK
<1> DEFINE Commit == [of: Tasks, undoes: 0 .. MaxCommits]
<1>2. main' \in Seq([of: Tasks, undoes: 0 .. MaxCommits])
  <2>1. \A c \in Commit : Append(main, c) \in Seq(Commit)
    BY <1>1, AppendProperties
  <2>2. QED
    BY <1>1, <2>1, MainOnlyGrows DEF Grows
<1>3. CandidatesFit'
  <2>1. CASE main' = main
    BY <1>1, <2>1 DEF CandidatesFit, Commits
  <2>2. ASSUME NEW c, main' = Append(main, c), c.undoes = 0 => Len(main) < MaxCommits,
               c \in [of: Tasks, undoes: 0 .. MaxCommits]
        PROVE  CandidatesFit'
    <3>1. /\ Len(main') = Len(main) + 1 /\ main'[Len(main) + 1] = c
          /\ \A i \in 1 .. Len(main) : main'[i] = main[i]
      BY <1>1, <2>2, AppendProperties
    <3>2. QED
      BY <1>1, <2>2, <3>1, PoolConstants DEF CandidatesFit, Commits
  <2>3. ASSUME NEW w \in Workers, PromoteCandidate(w) PROVE CandidatesFit'
    <3>1. Mine(w) \in Tasks
      BY <2>3 DEF PromoteCandidate, PoolNamed, TurnsNamed, TurnNamed, AtWork, Mine
    <3>2. [of |-> Mine(w), undoes |-> 0] \in [of: Tasks, undoes: 0 .. MaxCommits]
      BY <3>1, PoolConstants
    <3>3. QED
      BY <2>2, <2>3, <3>2 DEF PromoteCandidate
  <2>4. ASSUME NEW v \in Verifiers, RevertPromoted(v) PROVE CandidatesFit'
    <3> DEFINE c == [of |-> Its(v), undoes |-> PromotedCommit(check[v].snap)]
    <3>1. Its(v) \in Tasks /\ main' = Append(main, c) /\ c.undoes \in Commits
      BY <2>4 DEF RevertPromoted, PoolNamed, ChecksNamed, CheckNamed, AtCheck
    <3>2. c.undoes # 0 /\ c.undoes \in 0 .. MaxCommits
      BY <1>1, <3>1, SnapTyped DEF Commits, PoolNamed, CommitRefs, Elsewhere
    <3>3. QED
      BY <2>2, <3>1, <3>2
  <2>5. QED
    BY <2>1, <2>3, <2>4, MainWrites
<1>4. QED
  BY <1>2, <1>3

----------------------------------------------------------------------------
(* The threads.                                                            *)

\* The end of an iteration leaves no ticket, whichever way it comes.
LEMMA EndIsClean ==
    ASSUME PoolNamed, EndIteration \/ Crash
    PROVE  /\ \A w \in Workers : held'[w] = NoTicket /\ turn'[w] = IdleTurn
           /\ \A v \in Verifiers : checking'[v] = NoJobTicket /\ check'[v] = IdleCheck
           /\ \A th \in Threads : pidOf'[th] = NoPid
           /\ turn' = [w \in Workers |-> IdleTurn]
           /\ check' = [v \in Verifiers |-> IdleCheck]
           /\ phase' = "down" /\ sync' = IdleSync
           /\ UNCHANGED <<task, minted, job, prop, main, repairs, worktree, tested>>
<1>1. Down /\ phase # "down"
  BY EndFrame
<1>2. PICK p \in Pids : Die(p)
  BY EndFrame
<1>3. PICK q \in Pids : \A th \in Threads : pidOf[th] = q
  BY <1>1 DEF PoolNamed, OneProcess
<1>4. q = p \/ Threads = {}
  BY <1>2, <1>3 DEF Die, Live
<1>5. Workers \subseteq Threads
  BY QueueConstants
<1>6. QED
  BY <1>1, <1>2, <1>3, <1>4, <1>5 DEF Down, Die

LEMMA IdleThreadsTyped ==
    /\ \A at \in TurnStates : [IdleTurn EXCEPT !.at = at] \in Turn
    /\ \A at \in TurnStates : [IdleTurn EXCEPT !.at = at].at = at
    /\ IdleTurn \in Turn /\ IdleTurn.at = "idle"
    /\ \A at \in CheckStates : [IdleCheck EXCEPT !.at = at] \in Check
    /\ \A at \in CheckStates : [IdleCheck EXCEPT !.at = at].at = at
    /\ IdleCheck \in Check /\ IdleCheck.at = "idle"
    /\ NoTicket.task = NoTask /\ NoJobTicket.task = NoTask
    /\ NoJobTicket.kind = "full_regression"
    /\ IdleSync \in SyncState /\ IdleSync.at = "reconcile" /\ IdleSync.todo = {}
<1>1. "proposed" \in ProposalStatuses /\ 0 \in CommitRefs /\ NewProposal \in Proposal
  BY ProposalFacts
<1>2. 0 \in Tokens
  BY QueueConstants DEF Tokens
<1>3. QED
  BY <1>1, <1>2 DEF IdleTurn, Turn, TurnStates, IdleCheck, Check, CheckStates,
                    NoTicket, NoJobTicket, IdleSync, SyncState

\* Where a worker's step leaves it, and what it remembers.
LEMMA GoToRow ==
    ASSUME PoolTypeOK, NEW w \in Workers, NEW at \in TurnStates, GoTo(w, at)
    PROVE  /\ turn' \in [Workers -> Turn]
           /\ turn'[w].at = at /\ turn'[w].task = turn[w].task
           /\ turn'[w].result = turn[w].result /\ turn'[w].commit = turn[w].commit
           /\ turn'[w].claims = turn[w].claims
BY DEF PoolTypeOK, GoTo, Turn

LEMMA EndTurnRow ==
    ASSUME PoolTypeOK, NEW w \in Workers, NEW at \in {"idle", "over"}, EndTurn(w, at)
    PROVE  turn' \in [Workers -> Turn] /\ turn'[w].at = at
<1>1. [IdleTurn EXCEPT !.at = at] \in Turn /\ [IdleTurn EXCEPT !.at = at].at = at
  BY IdleThreadsTyped DEF TurnStates
<1>2. QED
  BY <1>1 DEF PoolTypeOK, EndTurn

LEMMA TurnStepNamed ==
    ASSUME PoolNamed, NEW w \in Workers, TurnStep(w)
    PROVE  turn' \in [Workers -> Turn] /\ TurnNamed(w)'
<1> DEFINE Good == turn' \in [Workers -> Turn] /\ TurnNamed(w)'
<1>1. /\ PoolTypeOK /\ TypeOK /\ TurnNamed(w) /\ phase' = phase
      /\ turn \in [Workers -> Turn] /\ turn[w] \in Turn
      /\ held \in [Workers -> Ticket] /\ held[w] \in Ticket
  BY TurnFrame DEF PoolNamed, PoolTypeOK, TypeOK, TurnsNamed
<1>2. CASE PoolClaim(w)
  <2>1. PICK lane \in Lanes : ClaimTask(w, lane)
    BY <1>2 DEF PoolClaim
  <2>2. PICK t \in Tasks : held' = [held EXCEPT ![w] = [task |-> t, token |-> minted + 1]]
    BY <1>1, <2>1, ClaimRow DEF PoolNamed
  <2>3. held'[w].task = t
    BY <1>1, <2>2
  <2>4. task'[t].claims \in Tokens
    BY QueueStaysTyped DEF QueueTyped, TypeOK, TaskRow, PoolNext
  <2> DEFINE new == [IdleTurn EXCEPT !.task = t, !.claims = task'[t].claims,
                        !.at = IF task'[t].claims > MaxClaims THEN "exhausted"
                                                              ELSE "dispatch"]
  <2>5. turn' = [turn EXCEPT ![w] = new]
    BY <1>2, <2>3 DEF PoolClaim
  <2>6. new \in Turn /\ new.task = t /\ new.at \in {"exhausted", "dispatch"}
    BY <2>4, IdleThreadsTyped DEF Turn, TurnStates
  <2>7. turn' \in [Workers -> Turn] /\ turn'[w] = new
    BY <1>1, <2>5, <2>6
  <2>8. phase = "turns" /\ NoTask \notin Tasks
    BY <1>2, QueueConstants DEF PoolClaim
  <2>9. QED
    BY <1>1, <2>3, <2>6, <2>7, <2>8 DEF TurnNamed, AtWork
<1>3. CASE Dispatch(w)
  <2>1. prop[Mine(w)].status \in ProposalStatuses
    BY <1>1, <1>3 DEF Dispatch, TurnNamed, AtWork, Mine, PoolTypeOK, Proposal
  <2>2. QED
    BY <1>1, <1>3, <2>1 DEF Dispatch, TurnNamed, AtWork, Turn, TurnStates, vars
<1>4. ASSUME NEW status \in {"implementation_paused", "archived_failed"},
             CodingEnds(w, status)
      PROVE  Good
  <2>1. status \in ProposalStatuses
    BY ProposalFacts
  <2>2. QED
    BY <1>1, <1>4, <2>1 DEF CodingEnds, TurnNamed, AtWork, Turn, TurnStates, vars
<1>5. CASE PromoteCandidate(w)
  <2>1. Len(main) + 1 \in CommitRefs
    <3>1. Len(main) \in Nat /\ Len(main) < MaxCommits
      BY <1>1, <1>5 DEF PoolTypeOK, PromoteCandidate
    <3>2. QED
      BY <3>1, PoolConstants DEF CommitRefs
  <2>2. QED
    BY <1>1, <1>5, <2>1 DEF PromoteCandidate, TurnNamed, AtWork, Turn, TurnStates, vars
<1>6. CASE RecordPromotion(w)
  <2>1. (IF Defer THEN Pending ELSE "promoted") \in ProposalStatuses
    BY ProposalFacts
  <2>2. QED
    BY <1>1, <1>6, <2>1
       DEF RecordPromotion, TurnNamed, AtWork, Turn, TurnStates, vars
<1>7. CASE HandOff(w)
  BY <1>1, <1>7 DEF HandOff, GoTo, TurnNamed, AtWork, Turn, TurnStates, vars
<1>8. CASE Fail(w)
  BY <1>1, <1>8 DEF Fail, GoTo, TurnNamed, AtWork, Turn, TurnStates, vars
<1>9. ASSUME held'[w] = NoTicket,
             \/ \E at \in {"idle", "over"} : EndTurn(w, at)
             \/ GoTo(w, "failed") /\ AtWork(w)
      PROVE  Good
  <2>1. CASE \E at \in {"idle", "over"} : EndTurn(w, at)
    BY <1>1, <1>9, <2>1, EndTurnRow, IdleThreadsTyped DEF TurnNamed, AtWork
  <2>2. CASE GoTo(w, "failed") /\ AtWork(w)
    BY <1>1, <1>9, <2>2, GoToRow, IdleThreadsTyped DEF TurnNamed, AtWork, TurnStates
  <2>3. QED
    BY <1>9, <2>1, <2>2
<1>10. CASE CompleteTurn(w) \/ RetryLater(w)
  <2>1. held'[w] = NoTicket
    BY <1>1, <1>10, GiveBackFrame DEF CompleteTurn, RetryLater
  <2>2. QED
    BY <1>9, <1>10, <2>1 DEF CompleteTurn, RetryLater, AtWork
<1>11. CASE ParkTask(w)
  <2>1. held'[w] = NoTicket
    BY <1>1, <1>11, GiveBackFrame DEF ParkTask
  <2>2. 0 \in CommitRefs
    BY ProposalFacts
  <2>3. QED
    BY <1>1, <1>11, <2>1, <2>2, IdleThreadsTyped
       DEF ParkTask, TurnNamed, AtWork, Turn, TurnStates
<1>12. CASE ParkProposal(w)
  <2>1. held'[w] = held[w] /\ held[w] = NoTicket
    BY <1>1, <1>12 DEF ParkProposal, vars, TurnNamed
  <2>2. QED
    BY <1>9, <1>12, <2>1 DEF ParkProposal
<1>13. CASE FailAgain(w)
  BY <1>1, <1>9, <1>13 DEF FailAgain, LetGo
<1>14. CASE PromotionUnseen(w)
  <2>1. "implementation_paused" \in ProposalStatuses
    BY ProposalFacts
  <2>2. QED
    BY <1>1, <1>14, <2>1
       DEF PromotionUnseen, TurnNamed, AtWork, Turn, TurnStates, vars
<1>15. QED
  BY <1>2, <1>3, <1>4, <1>5, <1>6, <1>7, <1>8, <1>10, <1>11, <1>12, <1>13, <1>14
     DEF TurnStep

LEMMA TurnsStayNamed ==
    ASSUME PoolNamed, [PoolNext]_everything
    PROVE  turn' \in [Workers -> Turn] /\ TurnsNamed'
<1>1. TurnsNamed /\ turn \in [Workers -> Turn] /\ PoolTypeOK
  BY DEF PoolNamed, PoolTypeOK
<1>2. CASE UNCHANGED <<turn, held>> /\ (phase' = phase \/ phase # "turns")
  BY <1>1, <1>2 DEF TurnsNamed, TurnNamed, AtWork
<1>3. CASE EndIteration \/ Crash
  BY <1>3, EndIsClean, IdleThreadsTyped DEF TurnsNamed, TurnNamed, AtWork
<1>4. ASSUME NEW w \in Workers, TurnStep(w) PROVE turn' \in [Workers -> Turn] /\ TurnsNamed'
  <2>1. turn' \in [Workers -> Turn] /\ TurnNamed(w)'
    BY <1>4, TurnStepNamed
  <2>2. ASSUME NEW x \in Workers \ {w} PROVE TurnNamed(x)'
    <3>1. turn'[x] = turn[x] /\ held'[x] = held[x] /\ phase' = phase
      BY <1>1, <1>4, TurnFrame
    <3>2. QED
      BY <1>1, <3>1 DEF TurnsNamed, TurnNamed, AtWork
  <2>3. QED
    BY <2>1, <2>2 DEF TurnsNamed
<1>5. QED
  BY <1>2, <1>3, <1>4, StepKinds, SyncFrame, CheckFrame, TimeFrame
     DEF BeginIteration, JobTimePasses, JobRetryComesDue, ReconcileGitStatuses,
         everything, allvars, vars, poolvars

\* Where a verifier's step leaves it, and what it remembers.
LEMMA MoveRow ==
    ASSUME PoolTypeOK, NEW v \in Verifiers, NEW at \in CheckStates, Move(v, at)
    PROVE  /\ check' \in [Verifiers -> Check]
           /\ check'[v].at = at /\ check'[v].snap = check[v].snap
           /\ check'[v].allowed = check[v].allowed
BY DEF PoolTypeOK, Move, Check

LEMMA EndCheckRow ==
    ASSUME PoolTypeOK, NEW v \in Verifiers, EndCheck(v)
    PROVE  /\ check' \in [Verifiers -> Check] /\ check'[v].at = "over"
           /\ checking'[v] = NoJobTicket
<1>1. [IdleCheck EXCEPT !.at = "over"] \in Check
      /\ [IdleCheck EXCEPT !.at = "over"].at = "over"
  BY IdleThreadsTyped DEF CheckStates
<1>2. QED
  BY <1>1 DEF PoolTypeOK, JobsTypeOK, EndCheck

LEMMA CheckStepNamed ==
    ASSUME PoolNamed, NEW v \in Verifiers, CheckStep(v)
    PROVE  check' \in [Verifiers -> Check] /\ CheckNamed(v)'
<1> DEFINE Good == check' \in [Verifiers -> Check] /\ CheckNamed(v)'
<1>1. /\ PoolTypeOK /\ TypeOK /\ JobsTypeOK /\ CheckNamed(v) /\ phase' = phase
      /\ check \in [Verifiers -> Check] /\ check[v] \in Check
      /\ checking \in [Verifiers -> JobTicket] /\ checking[v] \in JobTicket
  BY CheckFrame DEF PoolNamed, PoolTypeOK, JobsTypeOK, ChecksNamed
<1>2. CASE EndCheck(v)
  BY <1>1, <1>2, EndCheckRow, IdleThreadsTyped DEF CheckNamed, AtCheck
<1>3. ASSUME NEW at \in CheckStates \ {"idle", "over"}, Move(v, at), AtCheck(v),
             UNCHANGED checking,
             checking[v].kind = "git_sync" => at \in {"claimed", "git_synced"},
             at = "git_synced" => checking[v].kind = "git_sync"
      PROVE  Good
  BY <1>1, <1>3, MoveRow DEF CheckNamed, AtCheck, Its
<1>4. CASE StartCheck(v)
  <2>1. PICK t \in Tasks, k \in Kinds :
           checking' = [checking EXCEPT ![v] =
                          [task |-> t, kind |-> k, token |-> minted + 1]]
    BY <1>1, <1>4, ClaimJobRow DEF StartCheck
  <2>2. checking'[v].task = t /\ checking'[v].kind = k
    BY <1>1, <2>1
  <2>3. Move(v, "claimed") /\ phase = "turns"
    BY <1>4 DEF StartCheck
  <2>4. check' \in [Verifiers -> Check] /\ check'[v].at = "claimed"
    BY <1>1, <2>3, MoveRow DEF CheckStates
  <2>5. QED
    BY <1>1, <2>2, <2>3, <2>4 DEF CheckNamed, AtCheck, Its
<1>5. CASE ReadProposal(v)
  <2>1. prop[Its(v)] \in Proposal
    BY <1>1, <1>5 DEF ReadProposal, CheckNamed, AtCheck, PoolTypeOK
  <2>2. QED
    BY <1>1, <1>5, <2>1
       DEF ReadProposal, CheckNamed, AtCheck, Its, jobvars, Check, CheckStates
<1>6. CASE RegressionFails(v)
  <2>1. RepairAllowed(Its(v)) \in BOOLEAN
    BY PoolConstants DEF RepairAllowed
  <2>2. QED
    BY <1>1, <1>6, <2>1
       DEF RegressionFails, CheckNamed, AtCheck, Its, jobvars, Check, CheckStates
<1>7. CASE RegressionPasses(v) \/ SyncRuntime(v) \/ RecordVerified(v)
  BY <1>1, <1>3, <1>7
     DEF RegressionPasses, SyncRuntime, RecordVerified, CheckNamed, AtCheck, jobvars,
         CheckStates
<1>8. CASE SyncFails(v) \/ QueueGitSync(v) \/ FinishNeedsRepair(v)
  BY <1>1, <1>3, <1>8
     DEF SyncFails, QueueGitSync, FinishNeedsRepair, CheckNamed, AtCheck, CheckStates
<1>9. CASE GitSyncs(v)
  BY <1>1, <1>3, <1>9 DEF GitSyncs, CheckNamed, AtCheck, CheckStates
<1>10. CASE RecoveredBefore(v) \/ RevertPromoted(v) \/ RevertFails(v)
            \/ RecordRecoveryPending(v)
  BY <1>1, <1>3, <1>10
     DEF RecoveredBefore, RevertPromoted, RevertFails, RecordRecoveryPending,
         CheckNamed, AtCheck, jobvars, CheckStates
<1>11. CASE RecordReverted(v) \/ RecordTerminal(v) \/ RecordRepair(v)
  BY <1>1, <1>3, <1>11
     DEF RecordReverted, RecordTerminal, RecordRepair, CheckNamed, AtCheck, jobvars,
         CheckStates
<1>12. QED
  BY <1>2, <1>4, <1>5, <1>6, <1>7, <1>8, <1>9, <1>10, <1>11
     DEF CheckStep, FinishVerified, RecordSyncPending, RecordGitSynced, GitSyncFails,
         FinishRecoveryPending, FinishTerminal, RequeueForRepair, CheckFails

LEMMA ChecksStayNamed ==
    ASSUME PoolNamed, [PoolNext]_everything
    PROVE  check' \in [Verifiers -> Check] /\ ChecksNamed'
<1>1. ChecksNamed /\ check \in [Verifiers -> Check] /\ PoolTypeOK
  BY DEF PoolNamed, PoolTypeOK
<1>2. CASE UNCHANGED <<check, checking>> /\ (phase' = phase \/ phase # "turns")
  BY <1>1, <1>2 DEF ChecksNamed, CheckNamed, AtCheck, Its
<1>3. CASE EndIteration \/ Crash
  BY <1>3, EndIsClean, IdleThreadsTyped DEF ChecksNamed, CheckNamed, AtCheck
<1>4. ASSUME NEW v \in Verifiers, CheckStep(v)
      PROVE  check' \in [Verifiers -> Check] /\ ChecksNamed'
  <2>1. check' \in [Verifiers -> Check] /\ CheckNamed(v)'
    BY <1>4, CheckStepNamed
  <2>2. ASSUME NEW x \in Verifiers \ {v} PROVE CheckNamed(x)'
    <3>1. check'[x] = check[x] /\ checking'[x] = checking[x] /\ phase' = phase
      BY <1>1, <1>4, CheckFrame
    <3>2. QED
      BY <1>1, <3>1 DEF ChecksNamed, CheckNamed, AtCheck, Its
  <2>3. QED
    BY <2>1, <2>2 DEF ChecksNamed
<1>5. QED
  BY <1>2, <1>3, <1>4, StepKinds, SyncFrame, TurnFrame, TimeFrame
     DEF BeginIteration, JobTimePasses, JobRetryComesDue, ReconcileGitStatuses,
         everything, allvars, jobvars, poolvars

\* The synchronisation.
LEMMA SyncStaysNamed ==
    ASSUME PoolNamed, [PoolNext]_everything PROVE sync' \in SyncState /\ SyncNamed'
<1> DEFINE Good == sync' \in SyncState /\ SyncNamed'
<1>1. sync \in SyncState /\ SyncNamed /\ PoolTypeOK
  BY DEF PoolNamed, PoolTypeOK
<1>2. \A t : CandidatesOf(t) \subseteq CandidatesOf(t)'
  BY <1>1, MainOnlyGrows, MainGrows
<1>3. CASE UNCHANGED <<sync, phase>>
  BY <1>1, <1>2, <1>3 DEF SyncNamed
<1>4. CASE EndIteration \/ Crash
  BY <1>4, EndIsClean, IdleThreadsTyped DEF SyncNamed
<1>5. ASSUME NEW p \in Pids, BeginIteration(p) PROVE Good
  <2> DEFINE todo == {t \in Tasks : prop[t].status \in QueueStatuses /\ CandidatesOf(t) # {}}
             new == [IdleSync EXCEPT !.todo = todo]
  <2>1. new \in SyncState /\ new.at = "reconcile" /\ new.todo = todo
    BY IdleThreadsTyped DEF SyncState
  <2>2. sync' = new /\ phase' = "sync"
    BY <1>5 DEF BeginIteration
  <2>3. QED
    BY <1>2, <2>1, <2>2 DEF SyncNamed
<1>6. CASE SyncStep
  <2> USE DEF SyncState
  <2>1. phase = "sync"
    BY <1>6, SyncFrame
  <2>2. ASSUME NEW t \in Tasks, ReconcilePromotedCommit(t) PROVE Good
    BY <1>1, <1>2, <2>1, <2>2 DEF ReconcilePromotedCommit, SyncNamed, SyncUnchanged
  <2>3. ASSUME NEW t \in Tasks, EnqueueProposal(t) PROVE Good
    BY <1>1, <1>2, <2>1, <2>3 DEF EnqueueProposal, SyncNamed, SyncUnchanged
  <2>4. CASE EnqueuePromoted
    BY <1>1, <1>2, <2>1, <2>4 DEF EnqueuePromoted, SyncNamed, SyncUnchanged
  <2>5. CASE CompletePromoted \/ EnqueueReconciledJob
    BY <1>1, <1>2, <2>1, <2>5
       DEF CompletePromoted, EnqueueReconciledJob, SyncNamed, SyncUnchanged
  <2>6. CASE EndReconcile
    BY <1>1, <2>1, <2>6 DEF EndReconcile, SyncNamed, SyncUnchanged
  <2>7. CASE EndSync
    BY <2>7, IdleThreadsTyped DEF EndSync, SyncNamed
  <2>8. QED
    BY <1>6, <2>2, <2>3, <2>4, <2>5, <2>6, <2>7 DEF SyncStep
<1>7. QED
  BY <1>3, <1>4, <1>5, <1>6, StepKinds, TurnFrame, CheckFrame
     DEF JobTimePasses, ReconcileGitStatuses, everything, poolvars

LEMMA ProcessStaysOne ==
    ASSUME PoolNamed, [PoolNext]_everything
    PROVE  phase' \in {"down", "sync", "turns"} /\ OneProcess'
<1>1. phase \in {"down", "sync", "turns"} /\ OneProcess
  BY DEF PoolNamed, PoolTypeOK
<1>2. CASE UNCHANGED pidOf /\ (phase = "down" <=> phase' = "down")
            /\ phase' \in {"down", "sync", "turns"}
  BY <1>1, <1>2 DEF OneProcess
<1>3. CASE EndIteration \/ Crash
  BY <1>3, EndIsClean DEF OneProcess
<1>4. ASSUME NEW p \in Pids, BeginIteration(p)
      PROVE  phase' \in {"down", "sync", "turns"} /\ OneProcess'
  BY <1>4 DEF BeginIteration, OneProcess
<1>5. CASE SyncStep
  <2>1. pidOf' = pidOf /\ phase = "sync" /\ phase' \in {"sync", "turns"}
    BY <1>5, SyncFrame DEF SyncStep, SyncUnchanged, ReconcilePromotedCommit,
       EnqueueProposal, EnqueuePromoted, CompletePromoted, EnqueueReconciledJob,
       EndReconcile, EndSync
  <2>2. QED
    BY <1>2, <2>1
<1>6. QED
  BY <1>1, <1>2, <1>3, <1>4, <1>5, StepKinds, TurnFrame, CheckFrame, TimeFrame
     DEF JobTimePasses, JobRetryComesDue, ReconcileGitStatuses, everything, allvars,
         vars, poolvars

\* A release worktree is removed, or edited again, or takes the commit that its
\* task's worker promotes.
EditsTree(t) ==
    \/ \E w \in Workers : /\ Dispatch(w) /\ turn[w].at = "dispatch" /\ t = Mine(w)
                          /\ prop[t].status \in QueueStatuses
    \/ \E v \in Verifiers : RecordRepair(v)

LEMMA TreeWrites ==
    ASSUME PoolNamed, [PoolNext]_everything
    PROVE  \/ worktree' = worktree
           \/ \E t \in Tasks : worktree' = [worktree EXCEPT ![t] = Removed]
           \/ \E t \in Tasks : worktree' = [worktree EXCEPT ![t] = 0] /\ EditsTree(t)
           \/ \E w \in Workers : /\ PromoteCandidate(w) /\ Mine(w) \in Tasks
                                 /\ \E tree \in {Len(main) + 1, Removed} :
                                       worktree' = [worktree EXCEPT ![Mine(w)] = tree]
<1> DEFINE Resets ==
              \/ \E t \in Tasks : worktree' = [worktree EXCEPT ![t] = Removed]
              \/ \E t \in Tasks : worktree' = [worktree EXCEPT ![t] = 0] /\ EditsTree(t)
<1>1. worktree \in [Tasks -> CommitRefs]
  BY DEF PoolNamed, PoolTypeOK
<1>2. ASSUME NEW w \in Workers, TurnStep(w)
      PROVE  \/ worktree' = worktree \/ Resets
             \/ /\ PromoteCandidate(w) /\ Mine(w) \in Tasks
                /\ \E tree \in {Len(main) + 1, Removed} :
                      worktree' = [worktree EXCEPT ![Mine(w)] = tree]
  <2>1. AtWork(w) => Mine(w) \in Tasks
    BY DEF PoolNamed, TurnsNamed, TurnNamed, Mine
  <2>2. CASE Dispatch(w)
    BY <1>1, <2>1, <2>2 DEF Dispatch, AtWork, EditsTree
  <2>3. ASSUME NEW status, CodingEnds(w, status) PROVE worktree' = worktree \/ Resets
    BY <2>1, <2>3 DEF CodingEnds, AtWork, RemoveWorktree
  <2>4. CASE PromoteCandidate(w)
    BY <2>1, <2>4 DEF PromoteCandidate, AtWork
  <2>5. QED
    BY <1>2, <2>2, <2>3, <2>4
       DEF TurnStep, PoolClaim, RecordPromotion, PromotionUnseen, HandOff, CompleteTurn,
           RetryLater, ParkTask, ParkProposal, Fail, FailAgain
<1>3. ASSUME NEW v \in Verifiers, CheckStep(v) PROVE worktree' = worktree \/ Resets
  <2>1. AtCheck(v) => Its(v) \in Tasks
    BY DEF PoolNamed, ChecksNamed, CheckNamed
  <2>2. CASE RecordRepair(v)
    BY <1>1, <2>1, <2>2 DEF RecordRepair, AtCheck, EditsTree
  <2>3. CASE FinishVerified(v) \/ RecordGitSynced(v) \/ FinishTerminal(v)
    BY <2>1, <2>3
       DEF FinishVerified, RecordGitSynced, FinishTerminal, CleanUp, RemoveWorktree, AtCheck
  <2>4. QED
    BY <1>3, <2>2, <2>3
       DEF CheckStep, StartCheck, ReadProposal, RegressionPasses, RegressionFails,
           SyncRuntime, RecordVerified, SyncFails, QueueGitSync, RecordSyncPending,
           GitSyncs, GitSyncFails, RecoveredBefore, RevertPromoted, RevertFails,
           RecordRecoveryPending, FinishRecoveryPending, RecordReverted, RecordTerminal,
           FinishNeedsRepair, RequeueForRepair, CheckFails
<1>4. QED
  BY <1>2, <1>3, StepKinds, SyncFrame, EndIsClean
     DEF BeginIteration, JobTimePasses, ReconcileGitStatuses, everything, poolvars

\* A commit becomes tested by a regression that passes, or without deferral by
\* its own promotion.
LEMMA TestWrites ==
    ASSUME PoolNamed, [PoolNext]_everything
    PROVE  \/ tested' = tested
           \/ \E w \in Workers : /\ PromoteCandidate(w) /\ ~Defer
                                 /\ tested' = tested \cup {Len(main) + 1}
           \/ \E v \in Verifiers : /\ RegressionPasses(v)
                                   /\ tested' = tested \cup InTree(v)
<1>1. ASSUME NEW w \in Workers, TurnStep(w)
      PROVE  \/ tested' = tested
             \/ PromoteCandidate(w) /\ ~Defer /\ tested' = tested \cup {Len(main) + 1}
  BY <1>1
     DEF TurnStep, PoolClaim, Dispatch, CodingEnds, PromoteCandidate, RecordPromotion,
         PromotionUnseen, HandOff, CompleteTurn, RetryLater, ParkTask, ParkProposal, Fail,
         FailAgain
<1>2. ASSUME NEW v \in Verifiers, CheckStep(v)
      PROVE  \/ tested' = tested
             \/ RegressionPasses(v) /\ tested' = tested \cup InTree(v)
  <2>1. RegressionPasses(v) => tested' = tested \cup InTree(v)
    BY DEF RegressionPasses
  <2>2. ~RegressionPasses(v) => tested' = tested
    BY <1>2 DEF CheckStep, StartCheck, ReadProposal, RegressionFails,
       SyncRuntime, RecordVerified, FinishVerified, SyncFails, QueueGitSync,
       RecordSyncPending, GitSyncs, RecordGitSynced, GitSyncFails, RecoveredBefore,
       RevertPromoted, RevertFails, RecordRecoveryPending, FinishRecoveryPending,
       RecordReverted, RecordTerminal, FinishTerminal, RecordRepair, FinishNeedsRepair,
       RequeueForRepair, CheckFails
  <2>3. QED
    BY <2>1, <2>2
<1>3. QED
  BY <1>1, <1>2, StepKinds, SyncFrame, EndIsClean
     DEF BeginIteration, JobTimePasses, ReconcileGitStatuses, everything, poolvars

LEMMA HistoryStaysTyped ==
    ASSUME PoolNamed, [PoolNext]_everything
    PROVE  /\ repairs' \in [Tasks -> Nat]
           /\ worktree' \in [Tasks -> CommitRefs] /\ tested' \subseteq Nat
<1>1. /\ repairs \in [Tasks -> Nat] /\ tested \subseteq Nat /\ Len(main) \in Nat
      /\ worktree \in [Tasks -> CommitRefs]
  BY DEF PoolNamed, PoolTypeOK
<1>2. worktree' \in [Tasks -> CommitRefs]
  <2>1. {0, Removed} \subseteq CommitRefs
    BY ProposalFacts DEF Removed
  <2>2. \A w \in Workers : PromoteCandidate(w) => Len(main) + 1 \in CommitRefs
    BY <1>1, PoolConstants DEF PromoteCandidate, CommitRefs
  <2>3. QED
    BY <1>1, <2>1, <2>2, TreeWrites
<1>3. tested' \subseteq Nat
  <2>1. Len(main) + 1 \in Nat /\ Commits \subseteq Nat
    BY <1>1 DEF Commits
  <2>2. \A v \in Verifiers : InTree(v) \subseteq Commits
    BY DEF InTree
  <2>3. QED
    BY <1>1, <2>1, <2>2, TestWrites
<1>4. ASSUME NEW v \in Verifiers, CheckStep(v) PROVE repairs' \in [Tasks -> Nat]
  <2>1. repairs' = repairs \/ FinishNeedsRepair(v)
    BY <1>4 DEF CheckStep, StartCheck, ReadProposal, RegressionPasses, RegressionFails,
       SyncRuntime, RecordVerified, FinishVerified, SyncFails, QueueGitSync,
       RecordSyncPending, GitSyncs, RecordGitSynced, GitSyncFails, RecoveredBefore,
       RevertPromoted, RevertFails, RecordRecoveryPending, FinishRecoveryPending,
       RecordReverted, RecordTerminal, FinishTerminal, RecordRepair, RequeueForRepair,
       CheckFails
  <2>2. ASSUME FinishNeedsRepair(v) PROVE repairs' \in [Tasks -> Nat]
    <3>1. Its(v) \in Tasks /\ repairs' = [repairs EXCEPT ![Its(v)] = @ + 1]
      BY <2>2 DEF FinishNeedsRepair, PoolNamed, ChecksNamed, CheckNamed, AtCheck
    <3>2. repairs[Its(v)] + 1 \in Nat
      BY <1>1, <3>1
    <3>3. QED
      BY <1>1, <3>1, <3>2
  <2>3. QED
    BY <1>1, <2>1, <2>2
<1>5. repairs' \in [Tasks -> Nat]
  BY <1>1, <1>4, StepKinds, SyncFrame, EndIsClean, TurnFrame
     DEF BeginIteration, JobTimePasses, ReconcileGitStatuses, everything, poolvars
<1>6. QED
  BY <1>2, <1>3, <1>5

----------------------------------------------------------------------------
LEMMA PoolStartsNamed == ASSUME PoolInit PROVE PoolNamed
<1>1. TypeOK /\ ClaimsAreMinted
  BY InitEstablishesInvariant DEF PoolInit, IInv
<1>2. JobsTypeOK
  <2>1. NoJob \in JobRow /\ NoJobTicket \in JobTicket
    BY QueueConstants, RevisionsTyped
       DEF NoJob, JobRow, JobStatuses, NoJobTicket, JobTicket, Kinds, Tokens
  <2>2. QED
    BY <2>1 DEF PoolInit, JobsInit, JobsTypeOK
<1>3. PoolTypeOK
  BY <1>1, <1>2, ProposalFacts, IdleThreadsTyped, EmptySeq DEF PoolInit, PoolTypeOK, Removed
<1>4. CandidatesFit
  BY DEF PoolInit, CandidatesFit, Commits
<1>5. OneProcess /\ SyncNamed
  BY IdleThreadsTyped DEF PoolInit, Init, OneProcess, SyncNamed
<1>6. TurnsNamed /\ ChecksNamed
  BY IdleThreadsTyped
     DEF PoolInit, Init, JobsInit, TurnsNamed, TurnNamed, AtWork, ChecksNamed,
         CheckNamed, AtCheck
<1>7. QED
  BY <1>1, <1>3, <1>4, <1>5, <1>6 DEF PoolNamed

LEMMA PoolStaysNamed == ASSUME PoolNamed, [PoolNext]_everything PROVE PoolNamed'
<1>1. PoolTypeOK'
  BY QueueStaysTyped, JobsStayTyped, PropsStayTyped, MainStaysTyped, ProcessStaysOne,
     SyncStaysNamed, TurnsStayNamed, ChecksStayNamed, HistoryStaysTyped
     DEF PoolTypeOK, QueueTyped
<1>2. QED
  BY <1>1, QueueStaysTyped, MainStaysTyped, ProcessStaysOne, SyncStaysNamed,
     TurnsStayNamed, ChecksStayNamed DEF PoolNamed, QueueTyped

\* The three stores and the threads' locals hold values of their types, and
\* every thread at work is at work on a task of its own ticket.
THEOREM PoolTyped == PoolSpec => []PoolTypeOK
<1>1. PoolInit => PoolNamed
  BY PoolStartsNamed
<1>2. PoolNamed /\ [PoolNext]_everything => PoolNamed'
  BY PoolStaysNamed
<1>3. PoolNamed => PoolTypeOK
  BY DEF PoolNamed
<1>4. QED
  BY <1>1, <1>2, <1>3, PTL DEF PoolSpec

----------------------------------------------------------------------------
(* The steps of the threads by where they lead.                            *)

\* A verifier goes on with the same job and the same reading of the row.
Goes(v, from, to) ==
    /\ check[v].at = from /\ check'[v].at = to /\ check'[v].snap = check[v].snap
    /\ check'[v].allowed = check[v].allowed /\ checking'[v] = checking[v]

LEMMA CheckMoves ==
    ASSUME PoolNamed, NEW v \in Verifiers, CheckStep(v)
    PROVE  \/ StartCheck(v) /\ check[v].at = "idle" /\ check'[v].at = "claimed"
              /\ check'[v].snap = check[v].snap /\ check'[v].allowed = check[v].allowed
           \/ EndCheck(v) /\ check'[v].at = "over" /\ ~check'[v].allowed
              /\ checking'[v] = NoJobTicket
           \/ ReadProposal(v) /\ check[v].at = "claimed" /\ check'[v].at = "testing"
              /\ check'[v].snap = prop[Its(v)] /\ check'[v].allowed = check[v].allowed
              /\ checking'[v] = checking[v] /\ checking[v].kind = "full_regression"
           \/ RegressionFails(v) /\ check[v].at = "testing" /\ check'[v].at = "failed"
              /\ check'[v].snap = check[v].snap
              /\ check'[v].allowed = RepairAllowed(Its(v)) /\ checking'[v] = checking[v]
           \/ RegressionPasses(v) /\ Goes(v, "testing", "passed")
           \/ SyncRuntime(v) /\ Goes(v, "passed", "synced")
           \/ RecordVerified(v) /\ Goes(v, "synced", "promoted")
           \/ SyncFails(v) /\ Goes(v, "passed", "unsynced")
           \/ QueueGitSync(v) /\ Goes(v, "unsynced", "sync_queued")
           \/ GitSyncs(v) /\ Goes(v, "claimed", "git_synced")
           \/ RecoveredBefore(v) /\ Goes(v, "failed", "reverted")
           \/ RevertPromoted(v) /\ Goes(v, "failed", "reverted")
           \/ RevertFails(v) /\ Goes(v, "failed", "unreverted")
           \/ RecordRecoveryPending(v) /\ Goes(v, "unreverted", "recovery_pending")
           \/ RecordReverted(v)
              /\ Goes(v, "reverted", IF check[v].allowed THEN "repair" ELSE "terminal")
           \/ RecordTerminal(v) /\ Goes(v, "terminal", "terminal_recorded")
           \/ RecordRepair(v) /\ Goes(v, "repair", "repair_recorded")
           \/ FinishNeedsRepair(v) /\ Goes(v, "repair_recorded", "requeue")
<1>1. PoolTypeOK /\ check \in [Verifiers -> Check] /\ check[v] \in Check
  BY DEF PoolNamed, PoolTypeOK
<1>2. EndCheck(v) => /\ check'[v].at = "over" /\ ~check'[v].allowed
                     /\ checking'[v] = NoJobTicket
  BY <1>1, EndCheckRow DEF EndCheck, IdleCheck
<1>3. ASSUME NEW at \in CheckStates, Move(v, at), checking' = checking
      PROVE  Goes(v, check[v].at, at)
  BY <1>1, <1>3, MoveRow DEF Goes
<1>4. StartCheck(v) =>
         /\ check[v].at = "idle" /\ check'[v].at = "claimed"
         /\ check'[v].snap = check[v].snap /\ check'[v].allowed = check[v].allowed
  BY <1>1, MoveRow DEF StartCheck, CheckStates
<1>5. ReadProposal(v) =>
         /\ check[v].at = "claimed" /\ check'[v].at = "testing"
         /\ check'[v].snap = prop[Its(v)] /\ check'[v].allowed = check[v].allowed
         /\ checking'[v] = checking[v] /\ checking[v].kind = "full_regression"
  BY <1>1 DEF ReadProposal, Check, jobvars
<1>6. RegressionFails(v) =>
         /\ check[v].at = "testing" /\ check'[v].at = "failed"
         /\ check'[v].snap = check[v].snap
         /\ check'[v].allowed = RepairAllowed(Its(v)) /\ checking'[v] = checking[v]
  BY <1>1 DEF RegressionFails, Check, jobvars
<1>7. /\ RegressionPasses(v) => Goes(v, "testing", "passed")
      /\ SyncRuntime(v) => Goes(v, "passed", "synced")
      /\ RecordVerified(v) => Goes(v, "synced", "promoted")
      /\ SyncFails(v) => Goes(v, "passed", "unsynced")
      /\ QueueGitSync(v) => Goes(v, "unsynced", "sync_queued")
      /\ GitSyncs(v) => Goes(v, "claimed", "git_synced")
  BY <1>3 DEF RegressionPasses, SyncRuntime, RecordVerified, SyncFails, QueueGitSync,
     GitSyncs, jobvars, CheckStates
<1>8. /\ RecoveredBefore(v) => Goes(v, "failed", "reverted")
      /\ RevertPromoted(v) => Goes(v, "failed", "reverted")
      /\ RevertFails(v) => Goes(v, "failed", "unreverted")
      /\ RecordRecoveryPending(v) => Goes(v, "unreverted", "recovery_pending")
  BY <1>3 DEF RecoveredBefore, RevertPromoted, RevertFails, RecordRecoveryPending,
     jobvars, CheckStates
<1>9. /\ RecordReverted(v) =>
            Goes(v, "reverted", IF check[v].allowed THEN "repair" ELSE "terminal")
      /\ RecordTerminal(v) => Goes(v, "terminal", "terminal_recorded")
      /\ RecordRepair(v) => Goes(v, "repair", "repair_recorded")
      /\ FinishNeedsRepair(v) => Goes(v, "repair_recorded", "requeue")
  BY <1>3 DEF RecordReverted, RecordTerminal, RecordRepair, FinishNeedsRepair,
     jobvars, CheckStates
<1>10. \/ StartCheck(v) \/ EndCheck(v) \/ ReadProposal(v) \/ RegressionFails(v)
       \/ RegressionPasses(v) \/ SyncRuntime(v) \/ RecordVerified(v) \/ SyncFails(v)
       \/ QueueGitSync(v) \/ GitSyncs(v) \/ RecoveredBefore(v) \/ RevertPromoted(v)
       \/ RevertFails(v) \/ RecordRecoveryPending(v) \/ RecordReverted(v)
       \/ RecordTerminal(v) \/ RecordRepair(v) \/ FinishNeedsRepair(v)
  BY DEF CheckStep, FinishVerified, RecordSyncPending, RecordGitSynced, GitSyncFails,
         FinishRecoveryPending, FinishTerminal, RequeueForRepair, CheckFails
<1>11. QED
  BY <1>2, <1>4, <1>5, <1>6, <1>7, <1>8, <1>9, <1>10

\* A worker goes on with the same task and the same claim.
Turns(w, from, to) ==
    /\ turn[w].at = from /\ turn'[w].at = to /\ turn'[w].task = turn[w].task
    /\ turn'[w].claims = turn[w].claims

\* A worker that does not go on has no task any more.
TurnEnds(w) == turn'[w].at \in {"idle", "over"}

LEMMA TurnMoves ==
    ASSUME PoolNamed, NEW w \in Workers, TurnStep(w)
    PROVE  \/ PoolClaim(w) /\ turn[w].at = "idle" /\ held[w] = NoTicket
              /\ turn'[w].at \in {"dispatch", "exhausted"}
              /\ turn'[w].task = held'[w].task
           \/ Dispatch(w) /\ turn'[w].at \in {"coding", "result"}
              /\ Turns(w, "dispatch", turn'[w].at)
              /\ (turn'[w].at = "coding" <=> prop[Mine(w)].status \in QueueStatuses)
              /\ turn'[w].result = prop[Mine(w)].status
           \/ \E status \in {"implementation_paused", "archived_failed"} :
                 CodingEnds(w, status) /\ Turns(w, "coding", "result")
                 /\ turn'[w].result = status
           \/ PromoteCandidate(w) /\ Turns(w, "coding", "committed")
              /\ turn'[w].commit = Len(main) + 1
           \/ RecordPromotion(w) /\ Turns(w, "committed", "result")
              /\ turn'[w].result = (IF Defer THEN Pending ELSE "promoted")
           \/ PromotionUnseen(w) /\ Turns(w, "committed", "result") /\ Faults
              /\ turn'[w].result = "implementation_paused"
           \/ HandOff(w) /\ Turns(w, "result", "handoff")
           \/ CompleteTurn(w) /\ turn[w].at \in {"handoff", "result"}
              /\ (TurnEnds(w) \/ (Faults /\ Turns(w, turn[w].at, "failed")))
           \/ RetryLater(w) /\ turn[w].at \in {"result", "failed"} /\ TurnEnds(w)
           \/ ParkTask(w) /\ turn[w].at \in {"exhausted", "result", "failed"}
              /\ Turns(w, turn[w].at, "park")
           \/ ParkProposal(w) /\ turn[w].at = "park" /\ TurnEnds(w)
           \/ Fail(w) /\ Turns(w, turn[w].at, "failed") /\ AtWork(w)
              /\ turn[w].at \notin {"park", "exhausted"}
           \/ FailAgain(w) /\ turn[w].at \in {"exhausted", "failed", "park"}
              /\ TurnEnds(w)
<1>1. PoolTypeOK /\ turn \in [Workers -> Turn] /\ turn[w] \in Turn
  BY DEF PoolNamed, PoolTypeOK
<1>2. ASSUME NEW at \in {"idle", "over"}, EndTurn(w, at) PROVE TurnEnds(w)
  BY <1>1, <1>2, EndTurnRow DEF TurnEnds
<1>3. ASSUME NEW at \in TurnStates, GoTo(w, at)
      PROVE  Turns(w, turn[w].at, at)
  BY <1>1, <1>3, GoToRow DEF Turns
<1>4. CASE PoolClaim(w)
  <2> DEFINE new == [IdleTurn EXCEPT !.task = held'[w].task,
                        !.claims = task'[held'[w].task].claims,
                        !.at = IF task'[held'[w].task].claims > MaxClaims
                               THEN "exhausted" ELSE "dispatch"]
  <2>1. turn' = [turn EXCEPT ![w] = new] /\ turn[w].at = "idle" /\ held[w] = NoTicket
    BY <1>4 DEF PoolClaim, ClaimTask
  <2>2. new.task = held'[w].task /\ new.at \in {"exhausted", "dispatch"}
    BY DEF IdleTurn
  <2>3. QED
    BY <1>1, <1>4, <2>1, <2>2
<1>5. Dispatch(w) => /\ turn'[w].at \in {"coding", "result"}
                     /\ Turns(w, "dispatch", turn'[w].at)
                     /\ turn'[w].at = "coding" <=> prop[Mine(w)].status \in QueueStatuses
                     /\ turn'[w].result = prop[Mine(w)].status
  BY <1>1 DEF Dispatch, Turns, Turn
<1>6. ASSUME NEW status \in {"implementation_paused", "archived_failed"},
             CodingEnds(w, status)
      PROVE  Turns(w, "coding", "result") /\ turn'[w].result = status
  BY <1>1, <1>6 DEF CodingEnds, Turns, Turn
<1>7. PromoteCandidate(w) => /\ Turns(w, "coding", "committed")
                             /\ turn'[w].commit = Len(main) + 1
  BY <1>1 DEF PromoteCandidate, Turns, Turn
<1>8. RecordPromotion(w) => /\ Turns(w, "committed", "result")
                            /\ turn'[w].result = (IF Defer THEN Pending ELSE "promoted")
  BY <1>1 DEF RecordPromotion, Turns, Turn
<1>9. HandOff(w) => Turns(w, "result", "handoff")
  BY <1>3 DEF HandOff, TurnStates
<1>10. CompleteTurn(w) => /\ turn[w].at \in {"handoff", "result"}
                          /\ TurnEnds(w) \/ (Faults /\ Turns(w, turn[w].at, "failed"))
  <2>1. ASSUME CompleteTurn(w)
        PROVE  /\ turn[w].at \in {"handoff", "result"}
               /\ (\E at \in {"idle", "over"} : EndTurn(w, at))
                     \/ (Faults /\ GoTo(w, "failed"))
    BY <2>1 DEF CompleteTurn
  <2>2. GoTo(w, "failed") => Turns(w, turn[w].at, "failed")
    BY <1>3 DEF TurnStates
  <2>3. QED
    BY <1>2, <2>1, <2>2
<1>11. RetryLater(w) => turn[w].at \in {"result", "failed"} /\ TurnEnds(w)
  BY <1>2 DEF RetryLater
<1>12. ParkTask(w) => /\ turn[w].at \in {"exhausted", "result", "failed"}
                      /\ Turns(w, turn[w].at, "park")
  BY <1>1 DEF ParkTask, Turns, Turn
<1>13. ParkProposal(w) => turn[w].at = "park" /\ TurnEnds(w)
  BY <1>2 DEF ParkProposal
<1>14. Fail(w) => /\ Turns(w, turn[w].at, "failed") /\ AtWork(w)
                  /\ turn[w].at \notin {"park", "exhausted"}
  BY <1>3 DEF Fail, AtWork, TurnStates
<1>15. FailAgain(w) => turn[w].at \in {"exhausted", "failed", "park"} /\ TurnEnds(w)
  BY <1>2 DEF FailAgain
<1>16. PromotionUnseen(w) => /\ Turns(w, "committed", "result") /\ Faults
                             /\ turn'[w].result = "implementation_paused"
  BY <1>1 DEF PromotionUnseen, Turns, Turn
<1>17. QED
  BY <1>4, <1>5, <1>6, <1>7, <1>8, <1>9, <1>10, <1>11, <1>12, <1>13, <1>14, <1>15,
     <1>16 DEF TurnStep
=============================================================================
