----------------------- MODULE CodexWorkerPoolProofs -----------------------
(***************************************************************************)
(* For any number of proposals, workers, verifiers and processes, and any  *)
(* bounds.  Whatever crashes or fails: no commit is reverted twice and no  *)
(* job sends its task back more often than allowed.  Without repairs: no   *)
(* worker loses its row to a verifier.  Without crashes and failing        *)
(* writes: no task is claimed more often than allowed.                     *)
(***************************************************************************)
EXTENDS CodexWorkerPoolTypes

----------------------------------------------------------------------------
(* No commit is reverted twice.                                            *)

\* A commit reverts only what was in main before it.
RevertsLookBack == \A j \in Commits : main[j].undoes < j

LEMMA PromotionAppends ==
    ASSUME PoolNamed, NEW w \in Workers, PromoteCandidate(w)
    PROVE  /\ Mine(w) \in Tasks /\ Len(main) \in Nat /\ Grows
           /\ Len(main') = Len(main) + 1 /\ Commits' = Commits \cup {Len(main) + 1}
           /\ \A i \in Commits : main'[i] = main[i]
           /\ main'[Len(main) + 1].of = Mine(w) /\ main'[Len(main) + 1].undoes = 0
<1> DEFINE C == [of: Tasks, undoes: 0 .. MaxCommits]
           c == [of |-> Mine(w), undoes |-> 0]
<1>1. Mine(w) \in Tasks /\ main \in Seq(C) /\ main' = Append(main, c)
  BY DEF PromoteCandidate, PoolNamed, PoolTypeOK, TurnsNamed, TurnNamed, AtWork, Mine
<1>2. c \in C
  BY <1>1, PoolConstants
<1>3. /\ Len(main') = Len(main) + 1 /\ main'[Len(main) + 1] = c
      /\ \A i \in 1 .. Len(main) : main'[i] = main[i]
  BY <1>1, <1>2, AppendProperties
<1>4. Len(main) \in Nat
  BY <1>1
<1>5. QED
  BY <1>1, <1>2, <1>3, <1>4 DEF Commits, Grows

LEMMA RevertAppends ==
    ASSUME PoolNamed, NEW v \in Verifiers, RevertPromoted(v)
    PROVE  /\ Its(v) \in Tasks /\ Len(main) \in Nat /\ Grows
           /\ Len(main') = Len(main) + 1 /\ Commits' = Commits \cup {Len(main) + 1}
           /\ \A i \in Commits : main'[i] = main[i]
           /\ main'[Len(main) + 1].undoes = PromotedCommit(check[v].snap)
           /\ PromotedCommit(check[v].snap) \in Commits
           /\ PromotedCommit(check[v].snap) # 0
           /\ ~Reverted(PromotedCommit(check[v].snap))
<1> DEFINE C == [of: Tasks, undoes: 0 .. MaxCommits]
           commit == PromotedCommit(check[v].snap)
           c == [of |-> Its(v), undoes |-> commit]
<1>1. /\ Its(v) \in Tasks /\ main \in Seq(C) /\ main' = Append(main, c)
      /\ commit \in Commits /\ ~Reverted(commit)
  BY DEF RevertPromoted, AlreadyRecovered, PoolNamed, PoolTypeOK, ChecksNamed,
         CheckNamed, AtCheck
<1>2. Len(main) \in Nat
  BY <1>1
<1>3. commit \in 0 .. MaxCommits /\ commit # 0
  BY <1>1, <1>2, SnapTyped DEF PoolNamed, CommitRefs, Elsewhere, Commits
<1>4. c \in C
  BY <1>1, <1>3
<1>5. /\ Len(main') = Len(main) + 1 /\ main'[Len(main) + 1] = c
      /\ \A i \in 1 .. Len(main) : main'[i] = main[i]
  BY <1>1, <1>4, AppendProperties
<1>6. QED
  BY <1>1, <1>2, <1>3, <1>4, <1>5 DEF Commits, Grows

Undone == PoolNamed /\ RevertsLookBack /\ RevertedOnce

LEMMA UndoneIsInductive == ASSUME Undone, [PoolNext]_everything PROVE Undone'
<1>1. PoolNamed' /\ PoolNamed
  BY PoolStaysNamed DEF Undone
<1>2. CASE main' = main
  BY <1>1, <1>2 DEF Undone, RevertsLookBack, RevertedOnce, Commits
<1>3. ASSUME NEW w \in Workers, PromoteCandidate(w)
      PROVE  RevertsLookBack' /\ RevertedOnce'
  <2>1. /\ Len(main) \in Nat /\ Commits' = Commits \cup {Len(main) + 1}
        /\ \A i \in Commits : main'[i] = main[i]
        /\ main'[Len(main) + 1].undoes = 0
    BY <1>1, <1>3, PromotionAppends
  <2>2. RevertsLookBack'
    BY <2>1 DEF Undone, RevertsLookBack, Commits
  <2>3. RevertedOnce'
    BY <2>1 DEF Undone, RevertedOnce
  <2>4. QED
    BY <2>2, <2>3
<1>4. ASSUME NEW v \in Verifiers, RevertPromoted(v)
      PROVE  RevertsLookBack' /\ RevertedOnce'
  <2> DEFINE commit == PromotedCommit(check[v].snap)
  <2>1. /\ Len(main) \in Nat /\ Commits' = Commits \cup {Len(main) + 1}
        /\ \A i \in Commits : main'[i] = main[i]
        /\ main'[Len(main) + 1].undoes = commit /\ commit \in Commits /\ commit # 0
        /\ ~Reverted(commit)
    BY <1>1, <1>4, RevertAppends
  <2>2. \A j \in Commits : main[j].undoes # commit
    BY <2>1 DEF Reverted
  <2>3. RevertsLookBack'
    BY <2>1 DEF Undone, RevertsLookBack, Commits
  <2>4. RevertedOnce'
    <3> SUFFICES ASSUME NEW i \in Commits', NEW j \in Commits', main'[i].undoes # 0,
                        main'[i].undoes = main'[j].undoes
                 PROVE  i = j
      BY DEF RevertedOnce
    <3>1. i \in Commits /\ j \in Commits => i = j
      BY <2>1 DEF Undone, RevertedOnce
    <3>2. QED
      BY <2>1, <2>2, <3>1
  <2>5. QED
    BY <2>3, <2>4
<1>5. QED
  BY <1>1, <1>2, <1>3, <1>4, MainWrites DEF Undone

\* "a retried verifier can never revert the same original commit twice":
\* whatever is killed or fails between the revert and its record.
THEOREM RevertsOnce == PoolSpec => []RevertedOnce
<1>1. PoolInit => Undone
  BY PoolStartsNamed DEF PoolInit, Undone, RevertsLookBack, RevertedOnce, Commits
<1>2. Undone /\ [PoolNext]_everything => Undone'
  BY UndoneIsInductive
<1>3. Undone => RevertedOnce
  BY DEF Undone
<1>4. QED
  BY <1>1, <1>2, <1>3, PTL DEF PoolSpec

----------------------------------------------------------------------------
(* A verifier that has not finished still owns its job.                    *)

Unfinished == {"claimed", "testing", "passed", "synced", "promoted", "failed",
               "unreverted", "recovery_pending", "reverted", "repair", "terminal",
               "terminal_recorded", "repair_recorded"}

JobTicketHolds(v) ==
    check[v].at \in Unfinished =>
        /\ job[Its(v)][checking[v].kind].status = "claimed"
        /\ job[Its(v)][checking[v].kind].by = v
        /\ job[Its(v)][checking[v].kind].token = checking[v].token

JobTicketsHold == \A v \in Verifiers : JobTicketHolds(v)

\* Which steps write the jobs.
Finishes(v, status, taskStatus) ==
    /\ status \in JobStatuses \ {"absent", "claimed"}
    /\ taskStatus \in Statuses \ (Claimable \cup {"absent"})
    /\ FinishVerificationJob(v, status, taskStatus)

JobWrite ==
    \/ EnqueueReconciledJob \/ JobTimePasses
    \/ \E w \in Workers : HandOff(w)
    \/ \E v \in Verifiers : StartCheck(v) \/ QueueGitSync(v)
    \/ \E v \in Verifiers : \E status, taskStatus :
          CheckStep(v) /\ Finishes(v, status, taskStatus)

LEMMA JobWrites == ASSUME [PoolNext]_everything PROVE job' = job \/ JobWrite
<1> USE DEF everything, allvars, vars, jobvars, poolvars
<1>1. ASSUME NEW w \in Workers, TurnStep(w) PROVE job' = job \/ HandOff(w)
  BY <1>1 DEF TurnStep, PoolClaim, Dispatch, CodingEnds, PromoteCandidate,
              RecordPromotion, PromotionUnseen, CompleteTurn, RetryLater, ParkTask,
              ParkProposal, Fail, FailAgain
<1>2. ASSUME NEW v \in Verifiers, CheckStep(v) PROVE job' = job \/ JobWrite
  <2>1. CASE \/ FinishVerified(v) \/ SyncFails(v) \/ GitSyncs(v) \/ GitSyncFails(v)
             \/ FinishRecoveryPending(v) \/ FinishTerminal(v) \/ FinishNeedsRepair(v)
    <3>1. /\ {"verified", "verified_pending_sync", "synced", "requeued",
              "failed_terminal", "failed_needs_repair"}
                \subseteq JobStatuses \ {"absent", "claimed"}
          /\ {"verified", Pending, "reverted_verification_failure",
              "repairing_post_promotion"} \subseteq Statuses \ (Claimable \cup {"absent"})
      BY PoolStatuses DEF Claimable, Pending
    <3>2. \E status, taskStatus : Finishes(v, status, taskStatus)
      BY <2>1, <3>1 DEF FinishVerified, SyncFails, GitSyncs, GitSyncFails,
         FinishRecoveryPending, FinishTerminal, FinishNeedsRepair, Finishes
    <3>3. QED
      BY <1>2, <3>2 DEF JobWrite
  <2>2. CASE StartCheck(v) \/ QueueGitSync(v)
    BY <2>2 DEF JobWrite
  <2>3. QED
    BY <1>2, <2>1, <2>2 DEF CheckStep, ReadProposal, RegressionPasses, RegressionFails,
       SyncRuntime, RecordVerified, RecordSyncPending, RecordGitSynced, RecoveredBefore,
       RevertPromoted, RevertFails, RecordRecoveryPending, RecordReverted,
       RecordTerminal, RecordRepair, RequeueForRepair, CheckFails
<1>3. CASE SyncStep
  BY <1>3 DEF SyncStep, ReconcilePromotedCommit, EnqueueProposal, EnqueuePromoted,
              CompletePromoted, EndReconcile, EndSync, JobWrite
<1>4. QED
  BY StepKinds, EndFrame, <1>1, <1>2, <1>3
     DEF BeginIteration, Down, ReconcileGitStatuses, JobWrite

\* What one step may do to one job.
JobKept(t, k) == /\ job'[t][k].status = job[t][k].status
                 /\ job'[t][k].by = job[t][k].by /\ job'[t][k].token = job[t][k].token

JobQueued(t, k) == /\ job[t][k].status \notin ClaimableJob \cup {"claimed"}
                   /\ job'[t][k].status = "queued" /\ job'[t][k].by = Nobody

LEMMA JobSteps ==
    ASSUME PoolNamed, [PoolNext]_everything, NEW t \in Tasks, NEW k \in Kinds
    PROVE  \/ JobKept(t, k)
           \/ /\ JobQueued(t, k)
              /\ \/ EnqueueReconciledJob /\ t = sync.t /\ k = "full_regression"
                 \/ \E w \in Workers : HandOff(w) /\ t = Mine(w) /\ k = "full_regression"
                 \/ \E v \in Verifiers : QueueGitSync(v) /\ t = Its(v) /\ k = "git_sync"
           \/ \E v \in Verifiers :
                /\ StartCheck(v) /\ job[t][k].status \in ClaimableJob
                /\ job'[t][k].status = "claimed" /\ job'[t][k].by = v
                /\ checking'[v].task = t /\ checking'[v].kind = k
                /\ job'[t][k].token = checking'[v].token
           \/ \E v \in Verifiers :
                /\ CheckStep(v) /\ t = Its(v) /\ k = checking[v].kind
                /\ job[t][k].by = v /\ job[t][k].token = checking[v].token
                /\ \E status, taskStatus :
                      Finishes(v, status, taskStatus) /\ job'[t][k].status = status
<1>1. /\ TypeOK /\ JobsTypeOK /\ checking \in [Verifiers -> JobTicket]
  BY DEF PoolNamed, PoolTypeOK, JobsTypeOK
<1>2. CASE job' = job
  BY <1>2 DEF JobKept
<1>3. CASE JobTimePasses
  BY <1>1, <1>3, JobTimeRows DEF JobKept
<1>4. CASE EnqueueReconciledJob
  BY <1>1, <1>4, ReconciledJobRow, EnqueueJobRow DEF JobKept, JobQueued, JobOnly
<1>5. ASSUME NEW w \in Workers, HandOff(w)
      PROVE  \/ JobKept(t, k)
             \/ JobQueued(t, k) /\ t = Mine(w) /\ k = "full_regression"
  <2>1. \E u \in Tasks, rev \in Revisions :
           u = Mine(w) /\ EnqueueVerificationJob(u, "full_regression", rev)
    BY <1>5, HandOffRow
  <2>2. QED
    BY <1>1, <2>1, EnqueueJobRow DEF JobKept, JobQueued, JobOnly, Kinds
<1>6. ASSUME NEW v \in Verifiers, QueueGitSync(v)
      PROVE  \/ JobKept(t, k)
             \/ JobQueued(t, k) /\ t = Its(v) /\ k = "git_sync"
  <2>1. \E u \in Tasks, rev \in Revisions :
           u = Its(v) /\ EnqueueVerificationJob(u, "git_sync", rev)
    BY <1>6, GitSyncJobRow
  <2>2. QED
    BY <1>1, <2>1, EnqueueJobRow DEF JobKept, JobQueued, JobOnly, Kinds
<1>7. ASSUME NEW v \in Verifiers, StartCheck(v)
      PROVE  \/ JobKept(t, k)
             \/ /\ job[t][k].status \in ClaimableJob
                /\ job'[t][k].status = "claimed" /\ job'[t][k].by = v
                /\ checking'[v].task = t /\ checking'[v].kind = k
                /\ job'[t][k].token = checking'[v].token
  <2>1. PICK u \in Tasks, l \in Kinds :
           /\ checking' = [checking EXCEPT ![v] =
                                  [task |-> u, kind |-> l, token |-> minted + 1]]
           /\ JobOnly(u, l) /\ job[u][l].status \in ClaimableJob
           /\ job'[u][l].status = "claimed" /\ job'[u][l].by = v
           /\ job'[u][l].token = minted + 1
    BY <1>1, <1>7, ClaimJobRow DEF StartCheck
  <2>2. /\ checking'[v].task = u /\ checking'[v].kind = l
        /\ checking'[v].token = minted + 1
    BY <1>1, <2>1
  <2>3. QED
    BY <2>1, <2>2 DEF JobKept, JobOnly
<1>8. ASSUME NEW v \in Verifiers, NEW status, NEW taskStatus,
             Finishes(v, status, taskStatus)
      PROVE  \/ JobKept(t, k)
             \/ /\ t = Its(v) /\ k = checking[v].kind
                /\ job[t][k].by = v /\ job[t][k].token = checking[v].token
                /\ job'[t][k].status = status
  <2>1. /\ JobOnly(Its(v), checking[v].kind)
        /\ job'[Its(v)][checking[v].kind].status = status
        /\ job[Its(v)][checking[v].kind].by = v
        /\ job[Its(v)][checking[v].kind].token = checking[v].token
    BY <1>1, <1>8, FinishRows DEF Finishes
  <2>2. QED
    BY <2>1 DEF JobKept, JobOnly
<1>9. QED
  BY <1>2, <1>3, <1>4, <1>5, <1>6, <1>7, <1>8, JobWrites DEF JobWrite

\* Nobody but the verifier a claimed job names writes its row.
LEMMA ClaimedJobStays ==
    ASSUME PoolNamed, [PoolNext]_everything, NEW v \in Verifiers, NEW t \in Tasks,
           NEW k \in Kinds, job[t][k].status = "claimed", job[t][k].by = v,
           ~CheckStep(v)
    PROVE  JobKept(t, k)
BY JobSteps DEF JobQueued, ClaimableJob

\* A verifier that does not move stays where it is, unless the iteration ends.
LEMMA VerifierStays ==
    ASSUME PoolNamed, [PoolNext]_everything, NEW v \in Verifiers, ~CheckStep(v)
    PROVE  \/ check'[v] = check[v] /\ checking'[v] = checking[v]
           \/ /\ EndIteration \/ Crash
              /\ check'[v] = IdleCheck /\ checking'[v] = NoJobTicket
BY StepKinds, EndIsClean, SyncFrame, TurnFrame, CheckFrame, JobTimeRows
   DEF BeginIteration, ReconcileGitStatuses, everything, allvars, jobvars, poolvars,
       PoolNamed, PoolTypeOK

\* Likewise a worker.
LEMMA WorkerStays ==
    ASSUME PoolNamed, [PoolNext]_everything, NEW w \in Workers, ~TurnStep(w)
    PROVE  \/ turn'[w] = turn[w] /\ held'[w] = held[w]
           \/ /\ EndIteration \/ Crash
              /\ turn'[w] = IdleTurn /\ held'[w] = NoTicket
BY StepKinds, EndIsClean, SyncFrame, TurnFrame, CheckFrame, TimeFrame
   DEF BeginIteration, ReconcileGitStatuses, JobTimePasses, JobRetryComesDue,
       everything, allvars, vars, poolvars, PoolNamed, PoolTypeOK

\* A step of a verifier that goes on is none that ends its claim.
LEMMA JobTicketsStay ==
    ASSUME PoolNamed, JobTicketsHold, [PoolNext]_everything PROVE JobTicketsHold'
<1> SUFFICES ASSUME NEW v \in Verifiers, check'[v].at \in Unfinished
             PROVE  /\ job'[Its(v)'][checking'[v].kind].status = "claimed"
                    /\ job'[Its(v)'][checking'[v].kind].by = v
                    /\ job'[Its(v)'][checking'[v].kind].token = checking'[v].token
  BY DEF JobTicketsHold, JobTicketHolds
<1>1. /\ check[v].at \in Unfinished => Its(v) \in Tasks /\ checking[v].kind \in Kinds
      /\ JobTicketHolds(v) /\ checking[v] \in JobTicket
  BY DEF PoolNamed, PoolTypeOK, JobsTypeOK, ChecksNamed, CheckNamed, AtCheck,
         Unfinished, JobTicket, JobTicketsHold
<1>2. CASE ~CheckStep(v)
  <2>1. check'[v] = check[v] /\ checking'[v] = checking[v]
    BY <1>2, VerifierStays, IdleThreadsTyped DEF Unfinished
  <2>2. JobKept(Its(v), checking[v].kind)
    BY <1>1, <1>2, <2>1, ClaimedJobStays DEF JobTicketHolds
  <2>3. QED
    BY <1>1, <2>1, <2>2 DEF JobKept, JobTicketHolds, Its
<1>3. CASE StartCheck(v)
  <2>1. PICK t \in Tasks, k \in Kinds :
           /\ checking' = [checking EXCEPT ![v] =
                                  [task |-> t, kind |-> k, token |-> minted + 1]]
           /\ job'[t][k].status = "claimed" /\ job'[t][k].by = v
           /\ job'[t][k].token = minted + 1
    BY <1>3, ClaimJobRow DEF StartCheck, PoolNamed, PoolTypeOK
  <2>2. checking'[v] = [task |-> t, kind |-> k, token |-> minted + 1]
    BY <2>1 DEF PoolNamed, PoolTypeOK, JobsTypeOK
  <2>3. QED
    BY <2>1, <2>2 DEF Its
<1>4. CASE CheckStep(v) /\ ~StartCheck(v)
  <2>1. UNCHANGED job /\ checking'[v] = checking[v] /\ check[v].at \in Unfinished
    BY <1>4, CheckMoves
       DEF Goes, Unfinished, ReadProposal, RegressionFails, RegressionPasses,
           SyncRuntime, RecordVerified, RecoveredBefore, RevertPromoted, RevertFails,
           RecordRecoveryPending, RecordReverted, RecordTerminal, RecordRepair, jobvars
  <2>2. QED
    BY <1>1, <2>1 DEF JobTicketHolds, Its
<1>5. QED
  BY <1>2, <1>3, <1>4

----------------------------------------------------------------------------
(* No job sends its task back for repair more often than allowed.          *)

\* The permission a verifier read is still good when it makes use of it.
AllowedFit(v) ==
    /\ check[v].allowed => AtCheck(v) /\ KeepRepairing
    /\ check[v].at \in {"repair", "repair_recorded"} => check[v].allowed
    /\ check[v].at \in Unfinished /\ check[v].allowed =>
          checking[v].kind = "full_regression" /\ repairs[Its(v)] < MaxRepairs

Repaired == /\ PoolNamed /\ JobTicketsHold /\ RepairsAreBounded
            /\ \A v \in Verifiers : AllowedFit(v)

LEMMA RepairWrites ==
    ASSUME PoolNamed, [PoolNext]_everything
    PROVE  \/ repairs' = repairs
           \/ \E v \in Verifiers :
                /\ FinishNeedsRepair(v) /\ Its(v) \in Tasks
                /\ check[v].at = "repair_recorded" /\ checking[v].kind = "full_regression"
                /\ repairs' = [repairs EXCEPT ![Its(v)] = @ + 1]
<1>1. ASSUME NEW v \in Verifiers, CheckStep(v)
      PROVE  repairs' = repairs \/ FinishNeedsRepair(v)
  BY <1>1 DEF CheckStep, StartCheck, ReadProposal, RegressionPasses, RegressionFails,
     SyncRuntime, RecordVerified, FinishVerified, SyncFails, QueueGitSync,
     RecordSyncPending, GitSyncs, RecordGitSynced, GitSyncFails, RecoveredBefore,
     RevertPromoted, RevertFails, RecordRecoveryPending, FinishRecoveryPending,
     RecordReverted, RecordTerminal, FinishTerminal, RecordRepair, RequeueForRepair,
     CheckFails
<1>2. ASSUME NEW v \in Verifiers, FinishNeedsRepair(v)
      PROVE  /\ Its(v) \in Tasks /\ checking[v].kind = "full_regression"
             /\ check[v].at = "repair_recorded"
             /\ repairs' = [repairs EXCEPT ![Its(v)] = @ + 1]
  <2>1. checking[v].kind \in Kinds
    BY DEF PoolNamed, PoolTypeOK, JobsTypeOK, JobTicket
  <2>2. QED
    BY <1>2, <2>1
       DEF FinishNeedsRepair, PoolNamed, ChecksNamed, CheckNamed, AtCheck, Kinds
<1>3. QED
  BY <1>1, <1>2, StepKinds, SyncFrame, TurnFrame, EndIsClean
     DEF BeginIteration, ReconcileGitStatuses, everything, poolvars

LEMMA RepairedIsInductive == ASSUME Repaired, [PoolNext]_everything PROVE Repaired'
<1>1. PoolNamed /\ PoolNamed' /\ JobTicketsHold' /\ repairs \in [Tasks -> Nat]
  BY PoolStaysNamed, JobTicketsStay DEF Repaired, PoolNamed, PoolTypeOK
<1>2. RepairsAreBounded'
  BY <1>1, RepairWrites, PoolConstants DEF Repaired, RepairsAreBounded, AllowedFit, Unfinished
<1>3. ASSUME NEW v \in Verifiers PROVE AllowedFit(v)'
  <2>1. AllowedFit(v) /\ (Its(v) \in Tasks \/ ~AtCheck(v))
    BY <1>1 DEF Repaired, PoolNamed, ChecksNamed, CheckNamed
  <2>2. CASE ~CheckStep(v)
    <3>1. CASE check'[v] = IdleCheck
      BY <3>1 DEF AllowedFit, IdleCheck, Unfinished
    <3>2. CASE check'[v] = check[v] /\ checking'[v] = checking[v]
      <4>1. ASSUME check[v].at \in Unfinished, check[v].allowed
            PROVE  repairs'[Its(v)] = repairs[Its(v)]
        <5>1. /\ checking[v].kind = "full_regression" /\ Its(v) \in Tasks
              /\ job[Its(v)]["full_regression"].by = v
          BY <1>3, <2>1, <4>1
             DEF Repaired, JobTicketsHold, JobTicketHolds, AllowedFit, AtCheck, Unfinished
        <5>2. ASSUME NEW x \in Verifiers, FinishNeedsRepair(x),
                     check[x].at = "repair_recorded",
                     checking[x].kind = "full_regression"
              PROVE  Its(x) # Its(v)
          <6>1. x # v
            BY <2>2, <5>2 DEF CheckStep
          <6>2. job[Its(x)]["full_regression"].by = x
            BY <5>2 DEF Repaired, JobTicketsHold, JobTicketHolds, Unfinished
          <6>3. QED
            BY <5>1, <6>1, <6>2
        <5>3. QED
          BY <1>1, <5>1, <5>2, RepairWrites
      <4>2. QED
        BY <3>2, <4>1 DEF Repaired, AllowedFit, AtCheck, Its
    <3>3. QED
      BY <1>1, <2>2, <3>1, <3>2, VerifierStays
  <2>3. CASE CheckStep(v) /\ FinishNeedsRepair(v)
    BY <1>1, <2>3, CheckMoves DEF Repaired, AllowedFit, Goes, AtCheck, Unfinished,
       FinishNeedsRepair
  <2>4. CASE CheckStep(v) /\ ~FinishNeedsRepair(v)
    <3>1. ASSUME NEW x \in Verifiers, FinishNeedsRepair(x) PROVE FALSE
      <4>1. x # v /\ check[x].at = "repair_recorded" /\ Move(x, "requeue")
        BY <2>4, <3>1 DEF FinishNeedsRepair
      <4>2. check'[x] = check[x]
        BY <1>1, <2>4, <4>1, CheckFrame DEF PoolNamed
      <4>3. check'[x].at = "requeue"
        BY <1>1, <4>1 DEF Move, PoolNamed, PoolTypeOK, Check
      <4>4. QED
        BY <4>1, <4>2, <4>3
    <3>2. repairs' = repairs
      BY <1>1, <3>1, RepairWrites
    <3>3. checking[v].kind \in Kinds /\ (AtCheck(v) => CheckNamed(v) /\ AllowedFit(v))
      BY <1>1, <2>1 DEF PoolNamed, PoolTypeOK, JobsTypeOK, JobTicket, ChecksNamed
    <3>4. ~check[v].allowed \/ AtCheck(v)
      BY <1>3 DEF Repaired, AllowedFit
    <3>5. QED
      BY <1>1, <2>4, <3>2, <3>3, <3>4, CheckMoves
         DEF Goes, AllowedFit, AtCheck, CheckNamed, Kinds, Unfinished, RepairAllowed, Its,
             StartCheck
  <2>5. QED
    BY <2>2, <2>3, <2>4
<1>4. QED
  BY <1>1, <1>2, <1>3 DEF Repaired

\* No job is sent back for repair more often than max_verification_repairs,
\* though the verifier counted the repairs before it began the revert, and
\* other verifiers, crashes and reports come between.
THEOREM RepairsStayBounded == PoolSpec => []RepairsAreBounded
<1>1. PoolInit => Repaired
  BY PoolStartsNamed, IdleThreadsTyped, PoolConstants
     DEF PoolInit, Repaired, RepairsAreBounded, JobTicketsHold, JobTicketHolds,
         Unfinished, AllowedFit, IdleCheck
<1>2. Repaired /\ [PoolNext]_everything => Repaired'
  BY RepairedIsInductive
<1>3. Repaired => RepairsAreBounded
  BY DEF Repaired
<1>4. QED
  BY <1>1, <1>2, <1>3, PTL DEF PoolSpec

----------------------------------------------------------------------------
(* Every commit a row, a local or a payload names is a candidate of its    *)
(* own task, or no commit of main.                                         *)

Refs(t) == {0, Elsewhere} \cup CandidatesOf(t)

PropRefs(t) == prop[t].cand \in Refs(t) /\ prop[t].promo \in Refs(t)

SnapRefs(v) == check[v].at \notin {"idle", "over", "claimed", "git_synced"} =>
                  check[v].snap.cand \in Refs(Its(v)) /\ check[v].snap.promo \in Refs(Its(v))

TurnRefs(w) == turn[w].at = "committed" => turn[w].commit \in CandidatesOf(Mine(w))

SyncedRevision(t) == job[t]["git_sync"].rev[2]

Named == /\ PoolNamed
         /\ \A t \in Tasks : PropRefs(t) /\ SyncedRevision(t) \in Refs(t)
         /\ \A v \in Verifiers : SnapRefs(v)
         /\ \A w \in Workers : TurnRefs(w)

LEMMA RefsGrow ==
    ASSUME PoolNamed, [PoolNext]_everything, NEW t
    PROVE  CandidatesOf(t) \subseteq CandidatesOf(t)' /\ Refs(t) \subseteq Refs(t)'
<1>1. CandidatesOf(t) \subseteq CandidatesOf(t)'
  BY MainOnlyGrows, MainGrows DEF PoolNamed
<1>2. QED
  BY <1>1 DEF Refs

\* A ref that is a commit of main is a candidate.
LEMMA RefsInMain ==
    ASSUME PoolNamed, NEW t, NEW i \in Refs(t), i \in Commits
    PROVE  i \in CandidatesOf(t)
BY DEF Refs, Commits, Elsewhere, PoolNamed, PoolTypeOK

\* What a git_sync job is to synchronise is written by the verifier alone.
LEMMA SyncedRevisionWrites ==
    ASSUME PoolNamed, [PoolNext]_everything, NEW t \in Tasks
    PROVE  \/ SyncedRevision(t)' = SyncedRevision(t)
           \/ \E v \in Verifiers :
                /\ QueueGitSync(v) /\ check[v].at = "unsynced" /\ t = Its(v)
                /\ SyncedRevision(t)' = PromotedCommit(check[v].snap)
<1>1. TypeOK /\ JobsTypeOK /\ "git_sync" \in Kinds /\ "full_regression" \in Kinds
  BY DEF PoolNamed, PoolTypeOK, Kinds
<1> USE DEF SyncedRevision
<1>2. CASE job' = job \/ JobTimePasses
  BY <1>1, <1>2, JobTimeRows
<1>3. ASSUME NEW u \in Tasks, NEW rev \in Revisions,
             EnqueueVerificationJob(u, "full_regression", rev)
      PROVE  SyncedRevision(t)' = SyncedRevision(t)
  <2>1. JobOnly(u, "full_regression")
    BY <1>1, <1>3, EnqueueJobRow
  <2>2. QED
    BY <1>1, <2>1 DEF JobOnly
<1>4. ASSUME NEW w \in Workers, HandOff(w) PROVE SyncedRevision(t)' = SyncedRevision(t)
  BY <1>3, <1>4, HandOffRow
<1>5. CASE EnqueueReconciledJob
  BY <1>3, <1>5, ReconciledJobRow
<1>6. ASSUME NEW v \in Verifiers, StartCheck(v)
      PROVE  SyncedRevision(t)' = SyncedRevision(t)
  <2>1. PICK u \in Tasks, k \in Kinds :
           JobOnly(u, k) /\ job'[u][k].rev = job[u][k].rev
    BY <1>1, <1>6, ClaimJobRow DEF StartCheck
  <2>2. QED
    BY <1>1, <2>1 DEF JobOnly
<1>7. ASSUME NEW v \in Verifiers, QueueGitSync(v)
      PROVE  \/ SyncedRevision(t)' = SyncedRevision(t)
             \/ /\ t = Its(v) /\ check[v].at = "unsynced"
                /\ SyncedRevision(t)' = PromotedCommit(check[v].snap)
  <2> DEFINE rev == <<"commit", PromotedCommit(check[v].snap)>>
  <2>1. Its(v) \in Tasks /\ JobOnly(Its(v), "git_sync") /\ job'[Its(v)]["git_sync"].rev = rev
    BY <1>1, <1>7, GitSyncJobRow, EnqueueJobRow
  <2>2. rev[2] = PromotedCommit(check[v].snap)
    OBVIOUS
  <2>3. QED
    BY <1>1, <1>7, <2>1, <2>2 DEF JobOnly, QueueGitSync
<1>8. ASSUME NEW v \in Verifiers, NEW status, NEW taskStatus,
             Finishes(v, status, taskStatus)
      PROVE  SyncedRevision(t)' = SyncedRevision(t)
  <2>1. /\ JobOnly(Its(v), checking[v].kind)
        /\ job'[Its(v)][checking[v].kind].rev = job[Its(v)][checking[v].kind].rev
    BY <1>1, <1>8, FinishRows DEF Finishes
  <2>2. QED
    BY <1>1, <2>1 DEF JobOnly
<1>9. QED
  BY <1>2, <1>4, <1>5, <1>6, <1>7, <1>8, JobWrites DEF JobWrite

LEMMA PropsStayNamed ==
    ASSUME Named, [PoolNext]_everything, NEW t \in Tasks PROVE PropRefs(t)'
<1>1. PoolNamed /\ PropRefs(t) /\ Refs(t) \subseteq Refs(t)'
      /\ CandidatesOf(t) \subseteq Refs(t) /\ {0, Elsewhere} \subseteq Refs(t)
  BY RefsGrow DEF Named, Refs
<1> DEFINE Good == prop'[t].cand \in Refs(t) /\ prop'[t].promo \in Refs(t)
<1>2. ASSUME NEW u \in Tasks, ReconcilePromotedCommit(u) PROVE Good
  BY <1>1, <1>2, ReconciledRow DEF PropOnly, PropRefs
<1>3. ASSUME NEW w \in Workers, NEW status \in {"implementation_paused", "archived_failed"},
             CodingEnds(w, status)
      PROVE  Good
  BY <1>1, <1>3, CodingEndsRow DEF PropOnly, PropRefs
<1>4. ASSUME NEW w \in Workers, RecordPromotion(w) PROVE Good
  <2>1. turn[w].commit \in CandidatesOf(Mine(w))
    BY <1>4 DEF RecordPromotion, Named, TurnRefs
  <2>2. QED
    BY <1>1, <1>4, <2>1, RecordPromotionRow DEF PropOnly, PropRefs
<1>5. ASSUME NEW w \in Workers, ParkProposal(w) PROVE Good
  BY <1>1, <1>5, ParkProposalRow DEF PropOnly, PropRefs
<1>6. ASSUME NEW v \in Verifiers,
             \/ RecordVerified(v) \/ RecordSyncPending(v) \/ RecordRecoveryPending(v)
             \/ RecordReverted(v) \/ RecordTerminal(v)
      PROVE  Good
  <2>1. check[v].snap.promo \in Refs(Its(v))
    BY <1>6 DEF RecordVerified, RecordSyncPending, RecordRecoveryPending, RecordReverted,
                RecordTerminal, Named, SnapRefs
  <2>2. QED
    BY <1>1, <1>6, <2>1, VerifierRows DEF PropOnly, PropRefs
<1>7. ASSUME NEW v \in Verifiers, RecordGitSynced(v) PROVE Good
  BY <1>1, <1>7, VerifierRows DEF PropOnly, PropRefs
<1>8. ASSUME NEW v \in Verifiers, RecordRepair(v) PROVE Good
  <2>1. check[v].snap.promo \in Refs(Its(v))
    BY <1>8 DEF RecordRepair, Named, SnapRefs
  <2>2. QED
    BY <1>1, <1>8, <2>1, RecordRepairRow DEF PropOnly, PropRefs
<1>9. ASSUME ReconcileGitStatuses PROVE Good
  BY <1>1, <1>9, AncestryRow DEF PropRefs
<1>10. ASSUME NEW w \in Workers, PromotionUnseen(w) PROVE Good
  <2>1. turn[w].commit \in CandidatesOf(Mine(w))
    BY <1>10 DEF PromotionUnseen, Named, TurnRefs
  <2>2. QED
    BY <1>1, <1>10, <2>1, PromotionUnseenRow DEF PropOnly, PropRefs
<1>11. Good
  <2>1. PropWrite => Good
    BY <1>2, <1>3, <1>4, <1>5, <1>6, <1>7, <1>8, <1>9, <1>10 DEF PropWrite
  <2>2. QED
    BY <1>1, <2>1, PropWrites DEF PropRefs
<1>12. QED
  BY <1>1, <1>11 DEF PropRefs

\* A verifier that goes on keeps what it read, and what it read stays good.
LEMMA SnapsStayNamed ==
    ASSUME Named, [PoolNext]_everything, NEW v \in Verifiers PROVE SnapRefs(v)'
<1> DEFINE far == {"idle", "over", "claimed", "git_synced"}
<1>1. PoolNamed /\ SnapRefs(v) /\ (AtCheck(v) => Its(v) \in Tasks)
  BY DEF Named, PoolNamed, ChecksNamed, CheckNamed
<1>2. SUFFICES ASSUME check'[v].at \notin far
               PROVE  \E u \in Tasks : /\ u = checking'[v].task
                                       /\ check'[v].snap.cand \in Refs(u)
                                       /\ check'[v].snap.promo \in Refs(u)
  <2>1. ASSUME NEW u \in Tasks, u = checking'[v].task, NEW i \in Refs(u)
        PROVE  i \in Refs(Its(v))'
    <3>1. i \in Refs(u)'
      BY <1>1, <2>1, RefsGrow
    <3>2. QED
      BY <2>1, <3>1 DEF Refs, CandidatesOf, Its
  <2>2. QED
    BY <1>2, <2>1 DEF SnapRefs
<1>3. CASE ~CheckStep(v)
  BY <1>1, <1>2, <1>3, VerifierStays, IdleThreadsTyped DEF SnapRefs, AtCheck, Its
<1>4. CASE CheckStep(v)
  <2>1. \/ check[v].at \notin far /\ check'[v].snap = check[v].snap
              /\ checking'[v] = checking[v]
        \/ /\ check[v].at = "claimed" /\ check'[v].snap = prop[Its(v)]
           /\ checking'[v] = checking[v]
    BY <1>1, <1>2, <1>4, CheckMoves DEF Goes
  <2>2. CASE check[v].at = "claimed" /\ check'[v].snap = prop[Its(v)]
    BY <1>1, <2>1, <2>2 DEF Named, PropRefs, AtCheck, Its
  <2>3. QED
    BY <1>1, <2>1, <2>2 DEF SnapRefs, AtCheck, Its
<1>5. QED
  BY <1>3, <1>4

LEMMA TurnsStayRefs ==
    ASSUME Named, [PoolNext]_everything, NEW w \in Workers PROVE TurnRefs(w)'
<1>1. PoolNamed /\ TurnRefs(w) /\ (AtWork(w) => Mine(w) \in Tasks)
  BY DEF Named, PoolNamed, TurnsNamed, TurnNamed, Mine
<1>2. SUFFICES ASSUME turn'[w].at = "committed"
               PROVE  turn'[w].commit \in CandidatesOf(Mine(w))'
  BY DEF TurnRefs
<1>3. CASE ~TurnStep(w)
  <2>1. turn'[w] = turn[w] /\ Mine(w) \in Tasks
    BY <1>1, <1>2, <1>3, WorkerStays, IdleThreadsTyped DEF AtWork
  <2>2. PICK u \in Tasks : u = turn[w].task
    BY <2>1 DEF Mine
  <2>3. turn[w].commit \in CandidatesOf(u)'
    BY <1>1, <1>2, <2>1, <2>2, RefsGrow DEF TurnRefs, Mine
  <2>4. QED
    BY <2>1, <2>2, <2>3 DEF CandidatesOf, Mine
<1>4. CASE TurnStep(w)
  <2>1. /\ PromoteCandidate(w) /\ turn'[w].task = turn[w].task
        /\ turn'[w].commit = Len(main) + 1
    BY <1>1, <1>2, <1>4, TurnMoves DEF Turns, TurnEnds
  <2>2. /\ Commits' = Commits \cup {Len(main) + 1}
        /\ main'[Len(main) + 1].of = turn[w].task /\ main'[Len(main) + 1].undoes = 0
    BY <1>1, <2>1, PromotionAppends DEF Mine
  <2>3. QED
    BY <2>1, <2>2 DEF CandidatesOf, Mine
<1>5. QED
  BY <1>3, <1>4

LEMMA NamedIsInductive == ASSUME Named, [PoolNext]_everything PROVE Named'
<1>1. PoolNamed /\ PoolNamed'
  BY PoolStaysNamed DEF Named
<1>2. ASSUME NEW t \in Tasks PROVE SyncedRevision(t)' \in Refs(t)'
  <2>1. Refs(t) \subseteq Refs(t)' /\ SyncedRevision(t) \in Refs(t)
    BY <1>1, RefsGrow DEF Named
  <2>2. ASSUME NEW v \in Verifiers, check[v].at = "unsynced", t = Its(v)
        PROVE  PromotedCommit(check[v].snap) \in Refs(t)
    BY <2>2 DEF Named, SnapRefs, PromotedCommit
  <2>3. QED
    BY <1>1, <2>1, <2>2, SyncedRevisionWrites
<1>3. QED
  BY <1>1, <1>2, PropsStayNamed, SnapsStayNamed, TurnsStayRefs DEF Named

LEMMA PoolStartsWithNames == ASSUME PoolInit PROVE Named
<1>1. ASSUME NEW t \in Tasks PROVE PropRefs(t) /\ SyncedRevision(t) \in Refs(t)
  BY <1>1 DEF PoolInit, JobsInit, PropRefs, SyncedRevision, Refs, NewProposal, NoJob,
              NoRevision, Kinds
<1>2. QED
  BY <1>1, PoolStartsNamed, IdleThreadsTyped DEF PoolInit, Named, SnapRefs, TurnRefs

\* Without the report, the status "promoted" is written by these alone.
LEMMA WhoPromotes ==
    ASSUME PoolNamed, ~Ancestry, [PoolNext]_everything, NEW t \in Tasks,
           prop'[t].status = "promoted", prop[t].status # "promoted"
    PROVE  \/ \E w \in Workers : RecordPromotion(w) /\ ~Defer /\ t = Mine(w)
           \/ \E v \in Verifiers : /\ RecordVerified(v) \/ RecordGitSynced(v)
                                   /\ t = Its(v)
<1> USE ProposalFacts DEF PropOnly
<1>1. ASSUME NEW u \in Tasks, ReconcilePromotedCommit(u) PROVE FALSE
  BY <1>1, ReconciledRow DEF Pending
<1>2. ASSUME NEW w \in Workers, NEW status \in {"implementation_paused", "archived_failed"},
             CodingEnds(w, status)
      PROVE  FALSE
  BY <1>2, CodingEndsRow
<1>3. ASSUME NEW w \in Workers, RecordPromotion(w) PROVE ~Defer /\ t = Mine(w)
  BY <1>3, RecordPromotionRow DEF Pending
<1>4. ASSUME NEW w \in Workers, ParkProposal(w) PROVE FALSE
  BY <1>4, ParkProposalRow DEF Parked
<1>5. ASSUME NEW v \in Verifiers,
             RecordSyncPending(v) \/ RecordRecoveryPending(v) \/ RecordReverted(v)
                \/ RecordTerminal(v)
      PROVE  FALSE
  BY <1>5, VerifierRows DEF Pending
<1>6. ASSUME NEW v \in Verifiers, RecordRepair(v) PROVE FALSE
  BY <1>6, RecordRepairRow
<1>7. ASSUME NEW v \in Verifiers, RecordVerified(v) \/ RecordGitSynced(v)
      PROVE  t = Its(v)
  BY <1>7, VerifierRows
<1>8. ~ReconcileGitStatuses
  BY DEF ReconcileGitStatuses
<1>9. ASSUME NEW w \in Workers, PromotionUnseen(w) PROVE FALSE
  BY <1>9, PromotionUnseenRow
<1>10. QED
  BY <1>1, <1>2, <1>3, <1>4, <1>5, <1>6, <1>7, <1>8, <1>9, PropWrites DEF PropWrite

----------------------------------------------------------------------------
(* Without repairs, nobody takes a row from a worker that holds its ticket. *)

NoRepair(v) == check[v].at \notin {"repair", "repair_recorded", "requeue"}

TicketGood(w) ==
    held[w].task # NoTask =>
        /\ Owns(w) /\ task[held[w].task].status \notin Claimable
        /\ task[held[w].task].pid = pidOf[w]

Ticketed == /\ Repaired
            /\ \A v \in Verifiers : NoRepair(v)
            /\ \A w \in Workers : TicketGood(w)

\* What a worker's step, and a verifier's, may do to the queue.
LEMMA TurnTaskWrites ==
    ASSUME NEW w \in Workers, TurnStep(w)
    PROVE  \/ UNCHANGED <<task, held>>
           \/ PoolClaim(w) /\ \E lane \in Lanes : ClaimTask(w, lane)
           \/ \E status \in Statuses : GiveBack(w, status)
           \/ LetGo(w) /\ UNCHANGED task
BY PoolStatuses
   DEF TurnStep, PoolClaim, Dispatch, CodingEnds, PromoteCandidate, RecordPromotion,
       PromotionUnseen, HandOff, CompleteTurn, RetryLater, ParkTask, ParkProposal, Fail, FailAgain, vars

LEMMA CheckTaskWrites ==
    ASSUME NEW v \in Verifiers, CheckStep(v)
    PROVE  \/ task' = task
           \/ \E status, taskStatus : Finishes(v, status, taskStatus)
           \/ RequeueForRepair(v)
<1>1. /\ {"verified", "verified_pending_sync", "synced", "requeued",
          "failed_terminal", "failed_needs_repair"}
            \subseteq JobStatuses \ {"absent", "claimed"}
      /\ {"verified", Pending, "reverted_verification_failure",
          "repairing_post_promotion"} \subseteq Statuses \ (Claimable \cup {"absent"})
  BY PoolStatuses DEF Claimable, Pending
<1>2. CASE \/ FinishVerified(v) \/ SyncFails(v) \/ GitSyncs(v) \/ GitSyncFails(v)
           \/ FinishRecoveryPending(v) \/ FinishTerminal(v) \/ FinishNeedsRepair(v)
  BY <1>1, <1>2 DEF FinishVerified, SyncFails, GitSyncs, GitSyncFails,
     FinishRecoveryPending, FinishTerminal, FinishNeedsRepair, Finishes
<1>3. QED
  BY <1>2 DEF CheckStep, StartCheck, ClaimVerificationJob, ReadProposal,
     RegressionPasses, RegressionFails, SyncRuntime, RecordVerified, QueueGitSync,
     RecordSyncPending, RecordGitSynced, RecoveredBefore, RevertPromoted, RevertFails,
     RecordRecoveryPending, RecordReverted, RecordTerminal, RecordRepair, CheckFails

\* A ticket is held by a worker that is at work in a live process.
LEMMA HoldersLive ==
    ASSUME PoolNamed, NEW w \in Workers, held[w].task # NoTask
    PROVE  /\ AtWork(w) /\ phase = "turns" /\ held[w].task = Mine(w) /\ Mine(w) \in Tasks
           /\ pidOf[w] \in Live
<1>1. AtWork(w) /\ phase = "turns" /\ held[w].task = Mine(w) /\ Mine(w) \in Tasks
  BY DEF PoolNamed, TurnsNamed, TurnNamed, AtWork, Mine
<1>2. w \in Threads /\ \E p \in Pids : \A th \in Threads : pidOf[th] = p
  BY <1>1, QueueConstants DEF PoolNamed, OneProcess
<1>3. QED
  BY <1>1, <1>2, QueueConstants DEF Live

\* Two tickets that are both good are for different tasks.
LEMMA OwnersDiffer ==
    ASSUME NEW w \in Workers, NEW x \in Workers, Owns(w), Owns(x),
           held[w].task = held[x].task
    PROVE  w = x
BY DEF Owns

LEMMA OthersKeepTheirRows ==
    ASSUME PoolNamed, [PoolNext]_everything, NEW w \in Workers, held[w].task # NoTask,
           TicketGood(w), ~TurnStep(w), held'[w] = held[w],
           \A v \in Verifiers : ~RequeueForRepair(v)
    PROVE  TicketGood(w)'
<1> DEFINE t == held[w].task
<1>1. /\ t \in Tasks /\ phase = "turns" /\ pidOf[w] \in Live /\ Owns(w)
      /\ task[t].status \notin Claimable /\ task[t].pid = pidOf[w]
      /\ task[t].by = w /\ task[t].token = held[w].token
      /\ TypeOK /\ JobsTypeOK /\ ClaimsAreMinted
  BY HoldersLive DEF TicketGood, Owns, PoolNamed, PoolTypeOK
<1>2. SUFFICES /\ task'[t].status \notin Claimable /\ task'[t].pid = task[t].pid
               /\ task'[t].by = task[t].by /\ task'[t].token = task[t].token
               /\ pidOf'[w] = pidOf[w]
  BY <1>1 DEF TicketGood, Owns
<1>3. CASE UNCHANGED <<task, pidOf>>
  BY <1>1, <1>3
<1>4. ASSUME NEW x \in Workers, TurnStep(x)
      PROVE  task'[t] = task[t] /\ pidOf' = pidOf
  <2>1. x # w /\ pidOf' = pidOf
    BY <1>4, TurnFrame
  <2>2. ASSUME NEW lane \in Lanes, ClaimTask(x, lane) PROVE task'[t] = task[t]
    BY <1>1, <2>2, ClaimRow
  <2>3. ASSUME NEW status \in Statuses, GiveBack(x, status) PROVE task'[t] = task[t]
    <3>1. RowOnly(held[x].task) /\ (~Owns(x) => task' = task)
      BY <1>1, <2>3, GiveBackRow
    <3>2. Owns(x) => held[x].task # t
      BY <1>1, <2>1, OwnersDiffer
    <3>3. QED
      BY <1>1, <3>1, <3>2 DEF RowOnly
  <2>4. QED
    BY <1>4, <2>1, <2>2, <2>3, TurnTaskWrites
<1>5. ASSUME NEW v \in Verifiers, CheckStep(v)
      PROVE  /\ task'[t].status \notin Claimable /\ task'[t].pid = task[t].pid
             /\ task'[t].by = task[t].by /\ task'[t].token = task[t].token
             /\ pidOf' = pidOf
  <2>1. ASSUME NEW status, NEW taskStatus, Finishes(v, status, taskStatus)
        PROVE  /\ task'[t].status \notin Claimable /\ task'[t].pid = task[t].pid
               /\ task'[t].by = task[t].by /\ task'[t].token = task[t].token
    <3>1. /\ RowOnly(Its(v)) /\ Its(v) \in Tasks /\ taskStatus \notin Claimable
          /\ task'[Its(v)] = [task[Its(v)] EXCEPT !.status = taskStatus]
      BY <1>1, <2>1, FinishRows DEF Finishes
    <3>2. task[Its(v)] \in TaskRow
      BY <1>1, <3>1 DEF TypeOK
    <3>3. QED
      BY <1>1, <3>1, <3>2 DEF RowOnly, TaskRow
  <2>2. QED
    BY <1>1, <1>5, <2>1, CheckTaskWrites, CheckFrame
<1>6. CASE TimePasses
  <2>1. TimeRow(t) /\ pidOf' = pidOf /\ ~Reclaimable(task[t])
    BY <1>1, <1>6, TimeRows, TimeFrame DEF Reclaimable
  <2>2. QED
    BY <1>1, <2>1 DEF TimeRow, Claimable
<1>7. CASE EndIteration \/ Crash
  BY <1>1, <1>7, EndIsClean, IdleThreadsTyped
<1>8. QED
  BY <1>1, <1>3, <1>4, <1>5, <1>6, <1>7, StepKinds, SyncFrame, JobTimeRows
     DEF BeginIteration, ReconcileGitStatuses, everything, allvars, vars

LEMMA TicketStaysGood ==
    ASSUME Ticketed, [PoolNext]_everything, NEW w \in Workers PROVE TicketGood(w)'
<1>1. /\ PoolNamed /\ TicketGood(w) /\ TypeOK /\ ClaimsAreMinted
      /\ \A v \in Verifiers : ~RequeueForRepair(v)
  BY DEF Ticketed, Repaired, PoolNamed, PoolTypeOK, NoRepair, RequeueForRepair
<1>2. CASE ~TurnStep(w)
  <2>1. CASE held'[w].task = NoTask
    BY <2>1 DEF TicketGood
  <2>2. CASE held'[w].task # NoTask
    <3>1. held'[w] = held[w]
      BY <1>1, <1>2, <2>2, WorkerStays, IdleThreadsTyped
    <3>2. QED
      BY <1>1, <1>2, <2>2, <3>1, OthersKeepTheirRows
  <2>3. QED
    BY <2>1, <2>2
<1>3. CASE TurnStep(w)
  <2>1. CASE UNCHANGED <<task, held>>
    BY <1>1, <1>3, <2>1, TurnFrame DEF TicketGood, Owns
  <2>2. ASSUME NEW lane \in Lanes, ClaimTask(w, lane) PROVE TicketGood(w)'
    <3>1. PICK t \in Tasks :
             /\ held' = [held EXCEPT ![w] = [task |-> t, token |-> minted + 1]]
             /\ task'[t].status = "claimed" /\ task'[t].by = w
             /\ task'[t].pid = pidOf[w] /\ task'[t].token = minted + 1
      BY <1>1, <2>2, ClaimRow
    <3>2. held'[w] = [task |-> t, token |-> minted + 1] /\ pidOf' = pidOf
      BY <1>1, <2>2, <3>1 DEF TypeOK, ClaimTask
    <3>3. QED
      BY <3>1, <3>2, QueueConstants DEF TicketGood, Owns, Claimable
  <2>3. CASE held' = [held EXCEPT ![w] = NoTicket]
    <3>1. held'[w].task = NoTask
      BY <1>1, <2>3, IdleThreadsTyped DEF TypeOK
    <3>2. QED
      BY <3>1 DEF TicketGood
  <2>4. QED
    BY <1>3, <2>1, <2>2, <2>3, TurnTaskWrites, GiveBackFrame DEF LetGo
<1>4. QED
  BY <1>2, <1>3

LEMMA TicketedIsInductive ==
    ASSUME ~KeepRepairing, Ticketed, [PoolNext]_everything PROVE Ticketed'
<1>1. PoolNamed /\ Repaired'
  BY RepairedIsInductive DEF Ticketed, Repaired
<1>2. ASSUME NEW v \in Verifiers PROVE NoRepair(v)'
  <2>1. NoRepair(v) /\ ~check[v].allowed
    BY <1>2 DEF Ticketed, Repaired, AllowedFit
  <2>2. CASE ~CheckStep(v)
    BY <1>1, <2>1, <2>2, VerifierStays, IdleThreadsTyped DEF NoRepair
  <2>3. CASE CheckStep(v)
    BY <1>1, <2>1, <2>3, CheckMoves DEF Goes, NoRepair
  <2>4. QED
    BY <2>2, <2>3
<1>3. QED
  BY <1>1, <1>2, TicketStaysGood DEF Ticketed

LEMMA PoolStartsTicketed == ASSUME PoolInit PROVE Ticketed
<1>1. Repaired
  BY PoolStartsNamed, IdleThreadsTyped, PoolConstants
     DEF PoolInit, Repaired, RepairsAreBounded, JobTicketsHold, JobTicketHolds,
         Unfinished, AllowedFit, IdleCheck
<1>2. QED
  BY <1>1, IdleThreadsTyped
     DEF PoolInit, Init, Ticketed, NoRepair, TicketGood

\* Finishing a verification job writes the task without looking whose it is.
\* As long as verifiers send nothing back for repair, no worker that holds its
\* ticket has lost its row to them, to another worker or to a reclaim.
THEOREM TicketsStayGood ==
    ASSUME ~KeepRepairing PROVE PoolSpec => []TicketsAreGood
<1>1. PoolInit => Ticketed
  BY PoolStartsTicketed
<1>2. Ticketed /\ [PoolNext]_everything => Ticketed'
  BY TicketedIsInductive
<1>3. Ticketed => TicketsAreGood
  BY DEF Ticketed, TicketGood, TicketsAreGood
<1>4. QED
  BY <1>1, <1>2, <1>3, PTL DEF PoolSpec

----------------------------------------------------------------------------
(* No task is claimed more often than allowed.                             *)

\* At each moment a task is offered to the workers, or a worker is making
\* something of it, or its verification is under way.
Offered(t) == task[t].status \in Claimable

WorksOn(w, t) ==
    /\ Mine(w) = t
    /\ turn[w].at \in {"dispatch", "coding", "committed", "result", "park"}

Full(t) == job[t]["full_regression"].status

LiveJob(t) == Full(t) \in ClaimableJob \cup {"claimed"}

\* The job has been finished and the task not yet been sent back.
Requeues(v, t) == Its(v) = t /\ check[v].at = "requeue"

OneStage(t) ==
    /\ Offered(t) => ~LiveJob(t) /\ \A v \in Verifiers : ~Requeues(v, t)
    /\ \A w \in Workers : WorksOn(w, t) =>
          /\ ~Offered(t) /\ ~LiveJob(t) /\ \A v \in Verifiers : ~Requeues(v, t)
          /\ \A x \in Workers : WorksOn(x, t) => x = w
    /\ \A v \in Verifiers : Requeues(v, t) =>
          /\ ~LiveJob(t)
          /\ \A u \in Verifiers : Requeues(u, t) => u = v

Spare(t) == task[t].claims < MaxClaims

Queueing(t) == prop[t].status \in QueueStatuses

\* A task that is offered may be claimed once more; and one whose proposal
\* waits in the queue will be offered, unless a worker is about to park it.
ClaimsCounted(t) ==
    /\ task[t].claims <= MaxClaims
    /\ Offered(t) => Spare(t)
    /\ Queueing(t) => Spare(t) \/ \E w \in Workers : WorksOn(w, t)

\* Only the verifier that records a repair puts a proposal back in the queue
\* while its job is live.
RepairComesFirst(t) ==
    Queueing(t) /\ LiveJob(t) =>
        /\ Full(t) = "claimed"
        /\ \E v \in Verifiers : Its(v) = t /\ check[v].at = "repair_recorded"

\* No claim outlives its worker's turn, so nothing is reclaimed.
RowOwned(t) ==
    task[t].token # 0 =>
        \E w \in Workers :
            /\ held[w].task = t /\ held[w].token = task[t].token
            /\ task[t].by = w /\ task[t].pid = pidOf[w]

TaskCounted(t) ==
    OneStage(t) /\ ClaimsCounted(t) /\ RepairComesFirst(t) /\ RowOwned(t)

TurnCounted(w) ==
    /\ turn[w].at \notin {"exhausted", "failed"}
    /\ \A t \in Tasks : WorksOn(w, t) => turn[w].claims = task[t].claims
    /\ turn[w].at = "result" /\ ~Retryable(w) => ~Queueing(Mine(w))

\* A repair was allowed when a claim was left, and none has been made since.
CheckCounted(v) ==
    /\ check[v].allowed =>
          /\ Spare(Its(v))
          /\ check[v].at \in {"failed", "unreverted", "recovery_pending", "reverted",
                              "repair", "terminal", "terminal_recorded",
                              "repair_recorded", "requeue"}
    /\ check[v].at = "requeue" => check[v].allowed

SyncCounted ==
    /\ \A t \in sync.todo : Spare(t) /\ ~LiveJob(t)
    /\ sync.at = "enqueue_promoted" => Spare(sync.t) /\ ~LiveJob(sync.t)
    /\ sync.at = "enqueue_job" => ~Offered(sync.t)
    /\ sync.at \in {"enqueue_promoted", "complete", "enqueue_job"} =>
          ~Queueing(sync.t) /\ sync.t \notin sync.todo

Counted == /\ Repaired /\ SyncCounted
           /\ \A t \in Tasks : TaskCounted(t)
           /\ \A w \in Workers : TurnCounted(w)
           /\ \A v \in Verifiers : CheckCounted(v)

Steady == ~Crashes /\ ~Faults

\* What every lemma below needs.
LEMMA CountedNames ==
    ASSUME Counted
    PROVE  /\ PoolNamed /\ PoolTypeOK /\ TypeOK /\ JobsTypeOK /\ ClaimsAreMinted
           /\ JobTicketsHold
           /\ task \in [Tasks -> TaskRow] /\ \A t \in Tasks : task[t].claims \in Nat
           /\ MaxClaims \in Nat /\ "full_regression" \in Kinds
           /\ \A w \in Workers : TurnNamed(w) /\ TurnCounted(w)
           /\ \A v \in Verifiers : CheckNamed(v) /\ CheckCounted(v) /\ AllowedFit(v)
           /\ \A t \in Tasks : TaskCounted(t)
<1>1. task \in [Tasks -> TaskRow] /\ TypeOK
  BY DEF Counted, Repaired, PoolNamed, PoolTypeOK, TypeOK
<1>2. \A t \in Tasks : task[t].claims \in Nat
  BY <1>1, QueueConstants DEF TaskRow, Tokens
<1>3. QED
  BY <1>1, <1>2, PoolConstants
     DEF Counted, Repaired, PoolNamed, PoolTypeOK, TurnsNamed, ChecksNamed, Kinds

\* Outside the turns nobody is at work and no row is claimed.
LEMMA NobodyIsAtWork ==
    ASSUME Counted, phase # "turns", NEW t \in Tasks
    PROVE  /\ \A w \in Workers : ~AtWork(w) /\ ~WorksOn(w, t)
           /\ \A v \in Verifiers : ~AtCheck(v) /\ ~Requeues(v, t)
           /\ task[t].token = 0
           /\ Queueing(t) => Spare(t) /\ ~LiveJob(t)
<1>1. /\ \A w \in Workers : ~AtWork(w) /\ ~WorksOn(w, t)
      /\ \A v \in Verifiers : ~AtCheck(v) /\ ~Requeues(v, t)
  BY CountedNames DEF TurnNamed, CheckNamed, AtWork, AtCheck, WorksOn, Requeues
<1>2. \A w \in Workers : held[w].task = NoTask
  BY <1>1, CountedNames DEF TurnNamed, AtWork
<1>3. task[t].token = 0
  BY <1>2, CountedNames, QueueConstants DEF TaskCounted, RowOwned
<1>4. Queueing(t) => Spare(t) /\ ~LiveJob(t)
  <2>1. \A v \in Verifiers : check[v].at # "repair_recorded"
    BY <1>1 DEF AtCheck
  <2>2. QED
    BY <1>1, <2>1, CountedNames DEF TaskCounted, ClaimsCounted, RepairComesFirst
<1>5. QED
  BY <1>1, <1>3, <1>4

\* A step that brings a task no nearer to a claim keeps the count.
Unaffected(t) ==
    /\ task'[t].claims = task[t].claims /\ (Offered(t)' => Offered(t))
    /\ task'[t].token = task[t].token /\ task'[t].by = task[t].by
    /\ task'[t].pid = task[t].pid
    /\ (LiveJob(t)' => LiveJob(t)) /\ (Queueing(t)' => Queueing(t))
    /\ \A w \in Workers :
          /\ WorksOn(w, t)' <=> WorksOn(w, t)
          /\ held[w].task = t => held'[w] = held[w] /\ pidOf'[w] = pidOf[w]
    /\ \A v \in Verifiers : Requeues(v, t)' => Requeues(v, t)
    /\ Queueing(t)' /\ LiveJob(t)' =>
          /\ Full(t) = "claimed" => Full(t)' = "claimed"
          /\ \A v \in Verifiers : Its(v) = t /\ check[v].at = "repair_recorded" =>
                (Its(v) = t /\ check[v].at = "repair_recorded")'

LEMMA UnaffectedStaysCounted ==
    ASSUME Counted, NEW t \in Tasks, Unaffected(t) PROVE TaskCounted(t)'
<1>1. TaskCounted(t) /\ (LiveJob(t)' => LiveJob(t)) /\ (Spare(t)' <=> Spare(t))
  BY CountedNames DEF Unaffected, Spare
<1>2. OneStage(t)'
  BY <1>1 DEF TaskCounted, OneStage, Unaffected
<1>3. ClaimsCounted(t)'
  BY <1>1 DEF TaskCounted, ClaimsCounted, Unaffected
<1>4. RepairComesFirst(t)'
  BY <1>1 DEF TaskCounted, RepairComesFirst, Unaffected
<1>5. RowOwned(t)'
  <2>1. SUFFICES ASSUME task'[t].token # 0
                 PROVE  \E w \in Workers :
                           /\ held'[w].task = t /\ held'[w].token = task'[t].token
                           /\ task'[t].by = w /\ task'[t].pid = pidOf'[w]
    BY DEF RowOwned
  <2>2. PICK w \in Workers :
           /\ held[w].task = t /\ held[w].token = task[t].token
           /\ task[t].by = w /\ task[t].pid = pidOf[w]
    BY <1>1, <2>1 DEF TaskCounted, RowOwned, Unaffected
  <2>3. QED
    BY <2>2 DEF Unaffected
<1>6. QED
  BY <1>2, <1>3, <1>4, <1>5 DEF TaskCounted

\* Nothing is left to synchronise outside the synchronisation.
LEMMA SyncIsOver ==
    ASSUME Counted, [PoolNext]_everything, phase' # "sync" PROVE SyncCounted'
<1>1. sync' = IdleSync
  BY CountedNames, PoolStaysNamed DEF PoolNamed, SyncNamed
<1>2. QED
  BY <1>1, IdleThreadsTyped DEF SyncCounted

\* The steps that are neither a worker's, a verifier's nor the synchronisation's.
LEMMA QuietStepsCount ==
    ASSUME Steady, Counted,
           \/ TimePasses /\ UNCHANGED <<jobvars, poolvars>>
           \/ JobTimePasses /\ UNCHANGED poolvars
           \/ ReconcileGitStatuses
           \/ UNCHANGED everything
    PROVE  /\ UNCHANGED <<phase, sync, turn, check, checking, held, pidOf>>
           /\ \A t \in Tasks : Unaffected(t)
<1>1. UNCHANGED <<phase, sync, turn, check, checking, held, pidOf>>
  BY CountedNames, TimeFrame, JobTimeRows, AncestryRow
     DEF jobvars, poolvars, everything, allvars, vars
<1> SUFFICES ASSUME NEW t \in Tasks PROVE Unaffected(t)
  BY <1>1
<1>2. /\ \A w \in Workers : WorksOn(w, t)' <=> WorksOn(w, t)
      /\ \A v \in Verifiers : Requeues(v, t)' <=> Requeues(v, t)
      /\ \A v \in Verifiers : Its(v)' = Its(v)
  BY <1>1 DEF WorksOn, Requeues, Mine, Its
<1>3. CASE TimePasses /\ UNCHANGED <<jobvars, poolvars>>
  <2>1. TimeRow(t) /\ task'[t].claims = task[t].claims
    BY <1>3, CountedNames, TimeRows DEF TimeRow
  <2>2. ~Reclaimable(task[t])
    <3>1. SUFFICES ASSUME task[t].token # 0 PROVE task[t].pid \in Live
      BY DEF Reclaimable
    <3>2. PICK w \in Workers : held[w].task = t /\ task[t].pid = pidOf[w]
      BY <3>1, CountedNames DEF TaskCounted, RowOwned
    <3>3. QED
      BY <3>2, CountedNames, HoldersLive, QueueConstants
  <2>3. Offered(t)' => Offered(t)
    BY <2>1, <2>2 DEF TimeRow, Offered, Claimable, Active
  <2>4. UNCHANGED <<job, prop>>
    BY <1>3 DEF jobvars, poolvars
  <2>5. QED
    BY <1>1, <1>2, <2>1, <2>2, <2>3, <2>4 DEF TimeRow, Unaffected, LiveJob, Full, Queueing
<1>4. CASE JobTimePasses /\ UNCHANGED poolvars
  <2>1. Full(t)' = Full(t) /\ task' = task /\ prop' = prop
    BY <1>4, CountedNames, JobTimeRows DEF Full, vars, poolvars
  <2>2. QED
    BY <1>1, <1>2, <2>1 DEF Unaffected, Offered, LiveJob, Queueing
<1>5. CASE ReconcileGitStatuses
  <2>1. /\ task' = task /\ job' = job
        /\ prop'[t].status \in {prop[t].status, "promoted"}
    BY <1>5, CountedNames, AncestryRow DEF allvars, vars, jobvars
  <2>2. QED
    BY <1>1, <1>2, <2>1, ProposalFacts DEF Unaffected, Offered, Queueing, LiveJob, Full
<1>6. CASE UNCHANGED everything
  BY <1>1, <1>2, <1>6
     DEF Unaffected, Offered, Queueing, LiveJob, Full, everything, allvars, vars, jobvars,
         poolvars
<1>7. QED
  BY <1>3, <1>4, <1>5, <1>6

\* A step that takes no thread anywhere and affects no task keeps the count.
LEMMA QuietlyCounted ==
    ASSUME Counted, [PoolNext]_everything, \A t \in Tasks : Unaffected(t),
           UNCHANGED <<phase, sync, turn, check, checking, held, pidOf>>
    PROVE  Counted'
<1>1. /\ Repaired' /\ \A t \in Tasks : TaskCounted(t)'
      /\ \A t \in Tasks : (LiveJob(t)' => LiveJob(t)) /\ (Spare(t)' <=> Spare(t))
  BY RepairedIsInductive, UnaffectedStaysCounted DEF Counted, Unaffected, Spare
<1>2. ASSUME NEW w \in Workers PROVE TurnCounted(w)'
  <2>1. TurnCounted(w) /\ TurnNamed(w)
    BY CountedNames
  <2>2. turn[w].at = "result" => Mine(w) \in Tasks
    BY <2>1 DEF TurnNamed, AtWork, Mine
  <2>3. QED
    BY <2>1, <2>2 DEF TurnCounted, Unaffected, Mine, Retryable, WorksOn
<1>3. ASSUME NEW v \in Verifiers PROVE CheckCounted(v)'
  <2>1. CheckCounted(v) /\ CheckNamed(v) /\ AllowedFit(v)
    BY CountedNames
  <2>2. check[v].allowed => Its(v) \in Tasks
    BY <2>1 DEF CheckNamed, AllowedFit
  <2>3. QED
    BY <1>1, <2>1, <2>2 DEF CheckCounted, Its
<1>4. SyncCounted'
  <2>1. SyncCounted /\ sync.todo \in SUBSET Tasks
    BY CountedNames DEF Counted, PoolTypeOK, SyncState
  <2>2. sync.at \in {"enqueue_promoted", "complete", "enqueue_job"} => sync.t \in Tasks
    BY CountedNames DEF PoolNamed, SyncNamed
  <2>3. QED
    BY <1>1, <2>1, <2>2 DEF SyncCounted, Unaffected
<1>5. QED
  BY <1>1, <1>2, <1>3, <1>4 DEF Counted

\* Between iterations nobody works on a task, and the proposals in the queue
\* can be claimed once more.
LEMMA BeginKeepsCount ==
    ASSUME Counted, NEW p \in Pids, BeginIteration(p) PROVE Counted'
<1>1. /\ phase # "turns" /\ PoolNext
      /\ UNCHANGED <<task, held, job, checking, prop, turn, check>>
  BY DEF BeginIteration, jobvars, PoolNext
<1>2. ASSUME NEW t \in Tasks PROVE TaskCounted(t)'
  <2>1. /\ task[t].token = 0 /\ \A w \in Workers : ~WorksOn(w, t)
        /\ \A v \in Verifiers : ~Requeues(v, t)
        /\ TaskCounted(t) /\ (Queueing(t) => Spare(t) /\ ~LiveJob(t))
    BY <1>1, CountedNames, NobodyIsAtWork
  <2>2. QED
    BY <1>1, <2>1 DEF TaskCounted, OneStage, ClaimsCounted, RepairComesFirst, RowOwned,
       Offered, WorksOn, LiveJob, Full, Requeues, Spare, Queueing, Mine, Its
<1>3. ASSUME NEW w \in Workers PROVE TurnCounted(w)'
  BY <1>1, CountedNames DEF TurnCounted, WorksOn, Retryable, Queueing, Mine
<1>4. ASSUME NEW v \in Verifiers PROVE CheckCounted(v)'
  BY <1>1, CountedNames DEF CheckCounted, Spare, Its
<1>5. SyncCounted'
  <2>1. /\ sync' = [IdleSync EXCEPT !.todo =
              {t \in Tasks : prop[t].status \in QueueStatuses /\ CandidatesOf(t) # {}}]
    BY DEF BeginIteration
  <2>2. /\ sync'.at = "reconcile"
        /\ \A t \in sync'.todo : t \in Tasks /\ Queueing(t)
    BY <2>1 DEF IdleSync, Queueing
  <2>3. \A t \in sync'.todo : Spare(t) /\ ~LiveJob(t)
    BY <1>1, <2>2, NobodyIsAtWork
  <2>4. QED
    BY <1>1, <2>2, <2>3 DEF SyncCounted, Spare, LiveJob, Full
<1>6. QED
  BY <1>1, <1>2, <1>3, <1>4, <1>5, RepairedIsInductive DEF Counted

\* An iteration ends when every thread is done.
LEMMA EndKeepsCount ==
    ASSUME Steady, Counted, EndIteration \/ Crash PROVE Counted'
<1>1. /\ EndIteration /\ PoolNext /\ PoolNamed /\ phase' = "down"
      /\ \A w \in Workers : turn'[w] = IdleTurn /\ ~AtWork(w)
      /\ \A v \in Verifiers : check'[v] = IdleCheck /\ ~AtCheck(v)
      /\ UNCHANGED <<task, job, prop>>
  BY CountedNames, EndIsClean DEF Steady, Crash, PoolNext, EndIteration, AtWork, AtCheck
<1>2. ASSUME NEW t \in Tasks PROVE TaskCounted(t)'
  <2>1. \A w \in Workers : ~WorksOn(w, t) /\ ~WorksOn(w, t)' /\ held[w].task = NoTask
    BY <1>1, CountedNames, IdleThreadsTyped DEF TurnNamed, AtWork, WorksOn
  <2>2. \A v \in Verifiers :
           ~Requeues(v, t) /\ ~Requeues(v, t)' /\ check[v].at # "repair_recorded"
    BY <1>1, IdleThreadsTyped DEF AtCheck, Requeues
  <2>3. TaskCounted(t) /\ task[t].token = 0
    BY <2>1, CountedNames, QueueConstants DEF TaskCounted, RowOwned
  <2>4. QED
    BY <1>1, <2>1, <2>2, <2>3 DEF TaskCounted, OneStage, ClaimsCounted, RepairComesFirst,
       RowOwned, Offered, LiveJob, Full, Spare, Queueing
<1>3. ASSUME NEW w \in Workers PROVE TurnCounted(w)'
  BY <1>1, IdleThreadsTyped DEF TurnCounted, WorksOn
<1>4. ASSUME NEW v \in Verifiers PROVE CheckCounted(v)'
  BY <1>1, IdleThreadsTyped DEF CheckCounted, IdleCheck
<1>5. QED
  BY <1>1, <1>2, <1>3, <1>4, RepairedIsInductive, SyncIsOver DEF Counted

\* Only work that may be claimed once more is offered by the synchronisation.
LEMMA SyncKeepsCount ==
    ASSUME Steady, Counted, SyncStep PROVE Counted'
<1>1. /\ phase = "sync" /\ PoolNext /\ PoolNamed /\ TypeOK /\ JobsTypeOK
      /\ SyncCounted /\ sync \in SyncState /\ sync.todo \in SUBSET Tasks
      /\ sync.at \in {"enqueue_promoted", "complete", "enqueue_job"} => sync.t \in Tasks
      /\ UNCHANGED <<pidOf, held, checking, turn, check>>
  BY CountedNames, SyncFrame
     DEF PoolNext, Counted, PoolNamed, PoolTypeOK, SyncState, SyncNamed
<1>2. ASSUME NEW t \in Tasks
      PROVE  /\ \A w \in Workers : ~WorksOn(w, t) /\ ~WorksOn(w, t)'
             /\ \A v \in Verifiers : ~Requeues(v, t) /\ ~Requeues(v, t)'
             /\ task[t].token = 0 /\ TaskCounted(t)
             /\ Queueing(t) => Spare(t) /\ ~LiveJob(t)
  <2>1. /\ \A w \in Workers : ~WorksOn(w, t)
        /\ \A v \in Verifiers : ~Requeues(v, t)
        /\ task[t].token = 0 /\ TaskCounted(t)
        /\ Queueing(t) => Spare(t) /\ ~LiveJob(t)
    BY <1>1, CountedNames, NobodyIsAtWork
  <2>2. QED
    BY <1>1, <2>1 DEF WorksOn, Requeues, Mine, Its
<1>3. ASSUME \A t \in Tasks :
                /\ task'[t].claims = task[t].claims
                /\ task'[t].token = 0
                /\ Offered(t)' => (Offered(t) \/ Spare(t)) /\ ~LiveJob(t)'
                /\ Queueing(t)' => Queueing(t) /\ ~LiveJob(t)',
             SyncCounted'
      PROVE  Counted'
  <2>1. ASSUME NEW t \in Tasks PROVE TaskCounted(t)'
    BY <1>2, <1>3 DEF TaskCounted, OneStage, ClaimsCounted, RepairComesFirst, RowOwned,
       Spare
  <2>2. ASSUME NEW w \in Workers PROVE TurnCounted(w)' 
    <3>1. TurnCounted(w) /\ turn'[w] = turn[w] /\ ~AtWork(w)
      BY <1>1, CountedNames DEF TurnNamed
    <3>2. QED
      BY <3>1 DEF TurnCounted, WorksOn, AtWork
  <2>3. ASSUME NEW v \in Verifiers PROVE CheckCounted(v)'
    <3>1. check'[v] = check[v] /\ ~AtCheck(v) /\ ~check[v].allowed
      BY <1>1, CountedNames DEF CheckNamed, AllowedFit
    <3>2. QED
      BY <3>1 DEF CheckCounted, AtCheck
  <2>4. QED
    BY <1>1, <1>3, <2>1, <2>2, <2>3, RepairedIsInductive DEF Counted
<1>4. ASSUME NEW t \in Tasks, ReconcilePromotedCommit(t) PROVE Counted'
  <2>1. /\ prop'[t].status = Pending /\ PropOnly(t) /\ task' = task /\ job' = job
        /\ t \in sync.todo
        /\ sync'.t = t /\ sync'.at = "enqueue_promoted" /\ sync'.todo = sync.todo \ {t}
    BY <1>1, <1>4, ReconciledRow DEF ReconcilePromotedCommit
  <2>2. \A u \in Tasks : Queueing(u)' => Queueing(u)
    BY <2>1, ProposalFacts DEF PropOnly, Queueing
  <2>3. SyncCounted'
    BY <1>1, <2>1, ProposalFacts DEF SyncCounted, Spare, LiveJob, Full, Queueing
  <2>4. ASSUME NEW u \in Tasks
        PROVE  /\ task'[u].claims = task[u].claims /\ task'[u].token = 0
               /\ Offered(u)' => Offered(u) /\ ~LiveJob(u)'
               /\ Queueing(u)' => Queueing(u) /\ ~LiveJob(u)'
    BY <1>2, <2>1, <2>2 DEF Offered, LiveJob, Full, TaskCounted, OneStage
  <2>5. QED
    BY <1>3, <2>3, <2>4
<1>5. ASSUME NEW t \in Tasks, EnqueueTask(t, FpOf[t]), Spare(t), ~LiveJob(t),
             UNCHANGED <<job, prop>>, SyncCounted'
      PROVE  Counted'
  <2>1. /\ RowOnly(t) /\ task'[t].claims = task[t].claims
        /\ task'[t].token \in {task[t].token, 0}
    BY <1>1, <1>5, EnqueueRow, QueueConstants
  <2>2. ASSUME NEW u \in Tasks
        PROVE  /\ task'[u].claims = task[u].claims /\ task'[u].token = 0
               /\ Offered(u)' => (Offered(u) \/ Spare(u)) /\ ~LiveJob(u)'
               /\ Queueing(u)' => Queueing(u) /\ ~LiveJob(u)'
    BY <1>2, <1>5, <2>1 DEF RowOnly, Offered, LiveJob, Full, TaskCounted, OneStage, Queueing
  <2>3. QED
    BY <1>3, <1>5, <2>2
<1>6. CASE EnqueuePromoted
  <2>1. /\ sync.at = "enqueue_promoted" /\ sync.t \in Tasks
        /\ EnqueueTask(sync.t, FpOf[sync.t])
        /\ Spare(sync.t) /\ ~LiveJob(sync.t) /\ UNCHANGED <<job, prop>>
        /\ sync'.at \in {"reconcile", "complete"} /\ sync'.t = sync.t
        /\ sync'.todo = sync.todo
    BY <1>1, <1>6 DEF EnqueuePromoted, SyncCounted, SyncState
  <2>2. \A u \in Tasks : task'[u].claims = task[u].claims
    BY <1>1, <2>1, EnqueueRow, QueueConstants DEF RowOnly
  <2>3. SyncCounted'
    BY <1>1, <2>1, <2>2 DEF SyncCounted, Spare, LiveJob, Full, Queueing
  <2>4. QED
    BY <1>5, <2>1, <2>3
<1>7. ASSUME NEW t \in Tasks, EnqueueProposal(t) PROVE Counted'
  <2>1. /\ sync.at = "enqueue" /\ t \in sync.todo /\ EnqueueTask(t, FpOf[t])
        /\ Spare(t) /\ ~LiveJob(t) /\ UNCHANGED <<job, prop>>
        /\ sync'.at = "enqueue" /\ sync'.todo = sync.todo \ {t}
    BY <1>1, <1>7 DEF EnqueueProposal, SyncCounted, SyncState
  <2>2. \A u \in Tasks : task'[u].claims = task[u].claims
    BY <1>1, <2>1, EnqueueRow, QueueConstants DEF RowOnly
  <2>3. SyncCounted'
    BY <1>1, <2>1, <2>2 DEF SyncCounted, Spare, LiveJob, Full
  <2>4. QED
    BY <1>5, <2>1, <2>3
<1>8. CASE CompletePromoted
  <2> DEFINE t == sync.t
             row == [Unclaimed(task[t]) EXCEPT !.status = Pending]
  <2>1. /\ sync.at = "complete" /\ t \in Tasks
        /\ task' = [task EXCEPT ![t] = row] /\ UNCHANGED <<job, prop>>
        /\ sync' = [sync EXCEPT !.at = "enqueue_job"]
    BY <1>1, <1>8 DEF CompletePromoted
  <2>2. row.claims = task[t].claims /\ row.status = Pending /\ row.token = 0
    BY <1>1, <2>1, StatusRow, PoolStatuses DEF TypeOK
  <2>3. /\ sync'.at = "enqueue_job" /\ sync'.t = t /\ sync'.todo = sync.todo
    BY <1>1, <2>1 DEF SyncState
  <2>4. ASSUME NEW u \in Tasks
        PROVE  /\ task'[u].claims = task[u].claims /\ task'[u].token = 0
               /\ Offered(u)' => Offered(u) /\ ~LiveJob(u)'
               /\ Queueing(u)' => Queueing(u) /\ ~LiveJob(u)'
               /\ u = t => ~Offered(u)'
    BY <1>1, <1>2, <2>1, <2>2 DEF TypeOK, Offered, Claimable, Pending, LiveJob, Full,
       TaskCounted, OneStage, Queueing
  <2>5. SyncCounted'
    BY <1>1, <2>1, <2>3, <2>4 DEF SyncCounted, Spare, LiveJob, Full, Queueing, Offered
  <2>6. QED
    BY <1>3, <2>4, <2>5
<1>9. CASE EnqueueReconciledJob
  <2> DEFINE t == sync.t
  <2>1. /\ sync.at = "enqueue_job" /\ t \in Tasks /\ UNCHANGED <<task, prop>>
        /\ sync' = [sync EXCEPT !.at = "reconcile"]
        /\ ~Offered(t) /\ ~Queueing(t) /\ t \notin sync.todo
    BY <1>1, <1>9 DEF EnqueueReconciledJob, SyncCounted
  <2>2. JobOnly(t, "full_regression")
    BY <1>1, <1>9, ReconciledJobRow, EnqueueJobRow
  <2>3. \A u \in Tasks \ {t} : LiveJob(u)' <=> LiveJob(u)
    BY <2>2, CountedNames DEF JobOnly, LiveJob, Full
  <2>4. sync'.at = "reconcile" /\ sync'.todo = sync.todo
    BY <1>1, <2>1 DEF SyncState
  <2>5. ASSUME NEW u \in Tasks
        PROVE  /\ task'[u].claims = task[u].claims /\ task'[u].token = 0
               /\ Offered(u)' => Offered(u) /\ ~LiveJob(u)'
               /\ Queueing(u)' => Queueing(u) /\ ~LiveJob(u)'
    BY <1>2, <2>1, <2>3 DEF Offered, TaskCounted, OneStage, Queueing
  <2>6. SyncCounted'
    BY <1>1, <2>1, <2>3, <2>4 DEF SyncCounted, Spare
  <2>7. QED
    BY <1>3, <2>5, <2>6
<1>10. CASE EndReconcile
  <2>1. /\ UNCHANGED <<task, job, prop>> /\ sync'.at = "enqueue"
        /\ \A t \in sync'.todo : t \in Tasks /\ Queueing(t)
    BY <1>10 DEF EndReconcile, Queueing
  <2>2. SyncCounted'
    BY <1>2, <2>1 DEF SyncCounted, Spare, LiveJob, Full
  <2>3. QED
    BY <1>2, <1>3, <2>1, <2>2 DEF Offered, LiveJob, Full, TaskCounted, OneStage, Queueing
<1>11. CASE EndSync
  <2>1. UNCHANGED <<task, job, prop>> /\ phase' = "turns"
    BY <1>11 DEF EndSync
  <2>2. SyncCounted'
    BY <1>1, <2>1, SyncIsOver
  <2>3. QED
    BY <1>2, <1>3, <2>1, <2>2 DEF Offered, LiveJob, Full, TaskCounted, OneStage, Queueing
<1>12. QED
  BY <1>4, <1>6, <1>7, <1>8, <1>9, <1>10, <1>11 DEF SyncStep

\* Nothing fails, so a worker's step is one of these.
LEMMA SteadyTurns ==
    ASSUME Steady, Counted, NEW w \in Workers, TurnStep(w)
    PROVE  \/ /\ PoolClaim(w) /\ turn[w].at = "idle" /\ held[w] = NoTicket
              /\ turn'[w].at \in {"dispatch", "exhausted"}
              /\ turn'[w].task = held'[w].task
           \/ /\ AtWork(w) /\ turn[w].at \notin {"exhausted", "failed"}
              /\ Mine(w) \in Tasks
              /\ turn'[w].at \notin {"exhausted", "failed"}
              /\ \/ TurnEnds(w)
                 \/ turn'[w].task = Mine(w) /\ turn'[w].claims = turn[w].claims
<1>1. PoolNamed /\ TurnNamed(w) /\ turn[w].at \notin {"exhausted", "failed"}
  BY CountedNames DEF TurnCounted
<1>2. ~Fail(w) /\ ~FailAgain(w) /\ ~Faults
  BY DEF Steady, Fail, FailAgain
<1>3. AtWork(w) => Mine(w) \in Tasks
  BY <1>1 DEF TurnNamed, Mine
<1>4. QED
  <2>1. \/ PoolClaim(w) /\ turn[w].at = "idle" /\ held[w] = NoTicket
           /\ turn'[w].at \in {"dispatch", "exhausted"}
           /\ turn'[w].task = held'[w].task
        \/ /\ turn[w].at \in {"dispatch", "coding", "committed", "result", "handoff", "park"}
           /\ TurnEnds(w) \/ \E at \in {"coding", "result", "committed", "handoff", "park"} :
                                Turns(w, turn[w].at, at)
    BY <1>1, <1>2, TurnMoves, Zenon DEF Turns
  <2>2. CASE TurnEnds(w) /\ AtWork(w)
    BY <1>1, <1>3, <2>2 DEF TurnEnds
  <2>3. ASSUME NEW at \in {"coding", "result", "committed", "handoff", "park"},
               Turns(w, turn[w].at, at), AtWork(w)
        PROVE  /\ turn'[w].at \notin {"exhausted", "failed"}
               /\ turn'[w].task = Mine(w) /\ turn'[w].claims = turn[w].claims
    BY <2>3 DEF Turns, Mine
  <2>4. turn[w].at \in {"dispatch", "coding", "committed", "result", "handoff", "park"}
           => AtWork(w)
    BY DEF AtWork
  <2>5. QED
    BY <1>1, <1>3, <2>1, <2>2, <2>3, <2>4

\* What a worker's step does to the task of its turn, and to the others.
LEMMA TurnElsewhere ==
    ASSUME Steady, Counted, NEW w \in Workers, TurnStep(w), NEW u \in Tasks,
           AtWork(w) => u # Mine(w), AtWork(w)' => u # Mine(w)'
    PROVE  TaskCounted(u)' /\ task'[u].claims = task[u].claims /\ prop'[u] = prop[u]
<1>1. /\ PoolNamed /\ TypeOK /\ JobsTypeOK /\ ClaimsAreMinted
      /\ TurnNamed(w) /\ TurnNamed(w)' /\ PoolTypeOK /\ PoolNext /\ "full_regression" \in Kinds
      /\ UNCHANGED <<checking, check, pidOf>>
      /\ \A x \in Workers \ {w} : turn'[x] = turn[x] /\ held'[x] = held[x]
  BY CountedNames, TurnFrame, TurnStepNamed DEF PoolNext
<1>2. ~WorksOn(w, u) /\ ~WorksOn(w, u)' /\ held[w].task # u /\ held'[w].task # u
  BY <1>1, QueueConstants DEF WorksOn, AtWork, Mine, TurnNamed
<1>3. \/ task'[u] = task[u]
      \/ /\ task[u].status \in Claimable /\ task'[u].status = "superseded_duplicate"
         /\ task'[u].claims = task[u].claims /\ task'[u].token = task[u].token
         /\ task[u].by = task'[u].by /\ task[u].pid = task'[u].pid
  <2>1. ASSUME NEW lane \in Lanes, ClaimTask(w, lane)
        PROVE  \/ task'[u] = task[u]
               \/ /\ task[u].status \in Claimable
                  /\ task'[u].status = "superseded_duplicate"
                  /\ task'[u].claims = task[u].claims /\ task'[u].token = task[u].token
                  /\ task[u].by = task'[u].by /\ task[u].pid = task'[u].pid
    <3>1. PICK t \in FirstInLine(lane) :
             /\ task' = Claimed(t, w)
             /\ held' = [held EXCEPT ![w] = [task |-> t, token |-> minted + 1]]
      BY <2>1 DEF ClaimTask
    <3>2. u # t
      BY <1>1, <1>2, <3>1 DEF TypeOK
    <3>3. /\ task'[u] = IF u \in Peers(t, task[t].fp, Claimable)
                        THEN Supersede(task[u], t) ELSE task[u]
          /\ task[u] \in TaskRow
      BY <1>1, <3>1, <3>2 DEF Claimed, TypeOK
    <3>4. QED
      BY <3>3 DEF Peers, Supersede, TaskRow
  <2>2. ASSUME NEW status \in Statuses, GiveBack(w, status) PROVE task'[u] = task[u]
    BY <1>1, <1>2, <2>2, GiveBackRow DEF RowOnly
  <2>3. QED
    BY <2>1, <2>2, TurnTaskWrites
<1>4. Full(u)' = Full(u)
  <2>1. CASE HandOff(w)
    <3>1. Mine(w) \in Tasks /\ Mine(w) # u /\ JobOnly(Mine(w), "full_regression")
      BY <1>1, <2>1, HandOffRow, EnqueueJobRow DEF HandOff, AtWork
    <3>2. QED
      BY <1>1, <3>1 DEF JobOnly, Full
  <2>2. CASE ~HandOff(w)
    BY <2>2 DEF TurnStep, PoolClaim, Dispatch, CodingEnds, PromoteCandidate,
       RecordPromotion, PromotionUnseen, CompleteTurn, RetryLater, ParkTask, ParkProposal, Fail,
       FailAgain, Full
  <2>3. QED
    BY <2>1, <2>2
<1>5. prop'[u] = prop[u]
  <2>1. CASE RecordPromotion(w)
    BY <1>1, <2>1, RecordPromotionRow DEF PropOnly, RecordPromotion, AtWork
  <2>2. ASSUME NEW status \in {"implementation_paused", "archived_failed"},
               CodingEnds(w, status)
        PROVE  prop'[u] = prop[u]
    BY <1>1, <2>2, CodingEndsRow DEF PropOnly, CodingEnds, AtWork
  <2>3. CASE ParkProposal(w)
    BY <1>1, <2>3, ParkProposalRow DEF PropOnly, ParkProposal, AtWork
  <2>4. ~PromotionUnseen(w)
    BY DEF PromotionUnseen, Steady
  <2>5. QED
    BY <2>1, <2>2, <2>3, <2>4 DEF TurnStep, PoolClaim, Dispatch, PromoteCandidate, HandOff,
       CompleteTurn, RetryLater, ParkTask, Fail, FailAgain
<1>6. Unaffected(u)
  <2>1. Offered(u)' => Offered(u)
    BY <1>3 DEF Offered, Claimable
  <2>2. \A x \in Workers : WorksOn(x, u)' <=> WorksOn(x, u)
    BY <1>1, <1>2 DEF WorksOn, Mine
  <2>3. \A v \in Verifiers : (Requeues(v, u)' <=> Requeues(v, u)) /\ Its(v)' = Its(v)
    BY <1>1 DEF Requeues, Its
  <2>4. QED
    BY <1>1, <1>2, <1>3, <1>4, <1>5, <2>1, <2>2, <2>3 DEF Unaffected, LiveJob, Queueing
<1>7. QED
  BY <1>3, <1>5, <1>6, UnaffectedStaysCounted

\* A task that is claimed was offered; nobody else works on it.
LEMMA ClaimKeepsCount ==
    ASSUME Steady, Counted, NEW w \in Workers, PoolClaim(w)
    PROVE  \E t \in Tasks : /\ t = turn'[w].task /\ Offered(t)
                            /\ TaskCounted(t)' /\ TurnCounted(w)'
<1>1. /\ PoolNamed /\ TypeOK /\ ClaimsAreMinted /\ TurnNamed(w)
      /\ turn \in [Workers -> Turn]
      /\ TurnStep(w) /\ UNCHANGED <<checking, check, pidOf, job, prop>>
      /\ \A x \in Workers \ {w} : turn'[x] = turn[x] /\ held'[x] = held[x]
  BY CountedNames, TurnFrame DEF PoolClaim, TurnStep, PoolTypeOK
<1>2. PICK t \in Tasks :
         /\ held' = [held EXCEPT ![w] = [task |-> t, token |-> minted + 1]]
         /\ task[t].status \in Claimable
         /\ task'[t].status = "claimed" /\ task'[t].by = w
         /\ task'[t].pid = pidOf[w] /\ task'[t].token = minted + 1
         /\ task'[t].claims = task[t].claims + 1
  BY <1>1, ClaimRow DEF PoolClaim
<1>3. held'[w] = [task |-> t, token |-> minted + 1]
  BY <1>1, <1>2 DEF TypeOK
<1>4. turn' = [turn EXCEPT ![w] =
                [IdleTurn EXCEPT !.task = t, !.claims = task'[t].claims,
                    !.at = IF task'[t].claims > MaxClaims THEN "exhausted" ELSE "dispatch"]]
  BY <1>3 DEF PoolClaim
<1>5. /\ TaskCounted(t) /\ Offered(t) /\ Spare(t) /\ MaxClaims \in Nat
      /\ task[t].claims \in Nat /\ ~LiveJob(t)
      /\ \A v \in Verifiers : ~Requeues(v, t)
      /\ \A x \in Workers : ~WorksOn(x, t)
  BY <1>2, CountedNames DEF Offered, TaskCounted, ClaimsCounted, OneStage
<1>6. /\ turn'[w].at = "dispatch" /\ Mine(w)' = t /\ turn'[w].claims = task'[t].claims
      /\ task'[t].claims <= MaxClaims
  BY <1>1, <1>2, <1>4, <1>5 DEF IdleTurn, Mine, Spare
<1>7. /\ WorksOn(w, t)' /\ ~Offered(t)' /\ ~LiveJob(t)'
      /\ \A x \in Workers : WorksOn(x, t)' => x = w
      /\ \A v \in Verifiers : ~Requeues(v, t)'
  <2>1. \A x \in Workers \ {w} : ~WorksOn(x, t)'
    BY <1>1, <1>5 DEF WorksOn, Mine
  <2>2. QED
    BY <1>1, <1>2, <1>5, <1>6, <2>1 DEF WorksOn, Mine, Offered, Claimable, LiveJob, Full,
       Requeues, Its
<1>8. TaskCounted(t)'
  <2>1. OneStage(t)' /\ ClaimsCounted(t)' /\ RepairComesFirst(t)'
    BY <1>6, <1>7 DEF OneStage, ClaimsCounted, RepairComesFirst
  <2>2. RowOwned(t)'
    BY <1>1, <1>2, <1>3 DEF RowOwned
  <2>3. QED
    BY <2>1, <2>2 DEF TaskCounted
<1>9. TurnCounted(w)'
  <2>1. \A u \in Tasks : WorksOn(w, u)' => u = t
    BY <1>6 DEF WorksOn
  <2>2. QED
    BY <1>6, <2>1 DEF TurnCounted
<1>10. QED
  BY <1>5, <1>6, <1>8, <1>9 DEF Mine

\* A step of a worker on its own task.
LEMMA OwnTurnKeepsCount ==
    ASSUME Steady, Counted, NEW w \in Workers, TurnStep(w), AtWork(w), NEW t \in Tasks,
           t = Mine(w)
    PROVE  /\ TaskCounted(t)' /\ TurnCounted(w)' /\ task'[t].claims = task[t].claims
           /\ Queueing(t)' /\ ~Queueing(t) => WorksOn(w, t)
<1>1. /\ PoolNamed /\ PoolTypeOK /\ TypeOK /\ JobsTypeOK /\ ClaimsAreMinted
      /\ TurnNamed(w) /\ TurnCounted(w) /\ TaskCounted(t) /\ PoolNext
      /\ task[t].claims \in Nat /\ MaxClaims \in Nat /\ "full_regression" \in Kinds
      /\ UNCHANGED <<checking, check, pidOf>>
      /\ \A x \in Workers \ {w} : turn'[x] = turn[x] /\ held'[x] = held[x]
      /\ turn \in [Workers -> Turn]
  BY CountedNames, TurnFrame DEF PoolNext, PoolTypeOK
<1>2. /\ \A v \in Verifiers : (Requeues(v, t)' <=> Requeues(v, t)) /\ Its(v)' = Its(v)
      /\ \A v \in Verifiers : check'[v] = check[v]
      /\ \A x \in Workers \ {w} : WorksOn(x, t)' <=> WorksOn(x, t)
  BY <1>1 DEF Requeues, Its, WorksOn, Mine
<1>3. ASSUME UNCHANGED <<task, held, job>>, WorksOn(w, t), WorksOn(w, t)',
             Mine(w)' = Mine(w), turn'[w].claims = turn[w].claims,
             turn'[w].at \notin {"exhausted", "failed"},
             turn'[w].at = "result" /\ ~Retryable(w)' => ~Queueing(t)'
      PROVE  TaskCounted(t)' /\ TurnCounted(w)'
  <2>1. OneStage(t)' /\ ~LiveJob(t)'
    BY <1>1, <1>2, <1>3 DEF TaskCounted, OneStage, Offered, LiveJob, Full
  <2>2. ClaimsCounted(t)' /\ RepairComesFirst(t)'
    BY <1>1, <1>2, <1>3, <2>1
       DEF TaskCounted, ClaimsCounted, RepairComesFirst, Offered, Spare
  <2>3. RowOwned(t)'
    BY <1>1, <1>3 DEF TaskCounted, RowOwned
  <2>4. TurnCounted(w)'
    <3>1. \A u \in Tasks : WorksOn(w, u)' => u = t
      BY <1>3 DEF WorksOn
    <3>2. turn'[w].claims = task'[t].claims
      BY <1>1, <1>3 DEF TurnCounted
    <3>3. QED
      BY <1>3, <3>1, <3>2 DEF TurnCounted
  <2>5. QED
    BY <2>1, <2>2, <2>3, <2>4 DEF TaskCounted
<1>4. CASE Dispatch(w)
  <2>1. /\ Turns(w, "dispatch", turn'[w].at) /\ turn'[w].at \in {"coding", "result"}
        /\ turn'[w].result = prop[t].status
        /\ UNCHANGED <<task, held, job, prop>>
    BY <1>1, <1>4 DEF Dispatch, vars, Turn, Turns, Mine
  <2>2. QED
    BY <1>3, <2>1 DEF Turns, WorksOn, Mine, Retryable, Queueing
<1>5. ASSUME NEW status \in {"implementation_paused", "archived_failed"},
             CodingEnds(w, status)
      PROVE  TaskCounted(t)' /\ TurnCounted(w)' /\ UNCHANGED task /\ WorksOn(w, t)
  <2>1. /\ turn[w].at = "coding" /\ prop'[t].status = status
        /\ turn'[w].at = "result" /\ turn'[w].result = status
        /\ Mine(w)' = t /\ turn'[w].claims = turn[w].claims
        /\ UNCHANGED <<task, held, job>>
    <3>1. prop'[t].status = status
      BY <1>1, <1>5, CodingEndsRow
    <3>2. QED
      BY <1>1, <1>5, <3>1 DEF CodingEnds, vars, Turn, Mine
  <2>2. QED
    BY <1>3, <2>1 DEF WorksOn, Mine, Retryable, Queueing
<1>6. PromoteCandidate(w) => TaskCounted(t)' /\ TurnCounted(w)' /\ UNCHANGED <<task, prop>>
  <2>1. SUFFICES ASSUME PromoteCandidate(w)
                 PROVE  TaskCounted(t)' /\ TurnCounted(w)' /\ UNCHANGED <<task, prop>>
    OBVIOUS
  <2>2. /\ turn[w].at = "coding" /\ turn'[w].at = "committed"
        /\ Mine(w)' = t /\ turn'[w].claims = turn[w].claims
        /\ UNCHANGED <<task, held, job, prop>>
    BY <1>1, <2>1 DEF PromoteCandidate, vars, Turn, Mine
  <2>3. QED
    BY <1>3, <2>2 DEF WorksOn, Mine
<1>7. RecordPromotion(w) =>
          TaskCounted(t)' /\ TurnCounted(w)' /\ UNCHANGED task /\ ~Queueing(t)'
  <2>1. SUFFICES ASSUME RecordPromotion(w)
                 PROVE  /\ TaskCounted(t)' /\ TurnCounted(w)'
                        /\ UNCHANGED task /\ ~Queueing(t)'
    OBVIOUS
  <2>2. /\ turn[w].at = "committed" /\ turn'[w].at = "result"
        /\ Mine(w)' = t /\ turn'[w].claims = turn[w].claims
        /\ UNCHANGED <<task, held, job>>
        /\ prop'[t].status \in {Pending, "promoted"}
    <3>1. prop'[t].status \in {Pending, "promoted"}
      BY <1>1, <2>1, RecordPromotionRow
    <3>2. QED
      BY <1>1, <2>1, <3>1 DEF RecordPromotion, vars, Turn, Mine
  <2>3. ~Queueing(t)'
    BY <2>2, ProposalFacts DEF Queueing
  <2>4. QED
    BY <1>3, <2>2, <2>3 DEF WorksOn, Mine
<1>8. HandOff(w) => TaskCounted(t)' /\ TurnCounted(w)' /\ UNCHANGED <<task, prop>>
  <2>1. SUFFICES ASSUME HandOff(w)
                 PROVE  TaskCounted(t)' /\ TurnCounted(w)' /\ UNCHANGED <<task, prop>>
    OBVIOUS
  <2>2. /\ turn[w].at = "result" /\ turn[w].result = Pending /\ turn'[w].at = "handoff"
        /\ UNCHANGED <<task, held, prop>>
    BY <1>1, <2>1 DEF HandOff, GoTo, vars, Turn
  <2>3. /\ WorksOn(w, t) /\ ~Queueing(t) /\ ~Offered(t)
        /\ \A v \in Verifiers : ~Requeues(v, t)
        /\ \A x \in Workers : WorksOn(x, t) => x = w
    BY <1>1, <2>2, ProposalFacts
       DEF WorksOn, TurnCounted, Retryable, TaskCounted, OneStage
  <2>4. \A x \in Workers : ~WorksOn(x, t)'
    BY <1>2, <2>2, <2>3 DEF WorksOn
  <2>5. OneStage(t)' /\ ClaimsCounted(t)' /\ RepairComesFirst(t)' /\ RowOwned(t)'
    BY <1>1, <1>2, <2>2, <2>3, <2>4
       DEF TaskCounted, OneStage, ClaimsCounted, RepairComesFirst, RowOwned, Offered,
           Queueing
  <2>6. TurnCounted(w)'
    BY <2>2 DEF TurnCounted, WorksOn
  <2>7. QED
    BY <2>2, <2>5, <2>6 DEF TaskCounted
<1>9. ASSUME NEW status \in Statuses, GiveBack(w, status), UNCHANGED <<job, prop>>,
             turn'[w].at \in {"idle", "over", "park"},
             turn[w].at \in {"result", "handoff"},
             Queueing(t) => Spare(t) \/ \E x \in Workers : WorksOn(x, t)',
             status \in Claimable => turn[w].at = "result" /\ Spare(t),
             turn'[w].at = "park" =>
                /\ Mine(w)' = t /\ turn'[w].claims = turn[w].claims
                /\ turn[w].at = "result" /\ status \notin Claimable
      PROVE  /\ TaskCounted(t)' /\ TurnCounted(w)' /\ task'[t].claims = task[t].claims
  <2>1. held[w].task = t /\ (turn[w].at = "result" => WorksOn(w, t))
    BY <1>1, <1>9 DEF TurnNamed, WorksOn, Mine
  <2>2. /\ task'[t].claims = task[t].claims
        /\ \/ task'[t] = task[t] /\ ~Owns(w)
           \/ task'[t].status = status /\ task'[t].token = 0 /\ Owns(w)
        /\ held' = [held EXCEPT ![w] = NoTicket]
    BY <1>1, <1>9, <2>1, GiveBackRow, GiveBackFrame
  <2>3. RowOwned(t)'
    <3>1. SUFFICES ASSUME task'[t].token # 0
                   PROVE  \E x \in Workers :
                             /\ held'[x].task = t /\ held'[x].token = task'[t].token
                             /\ task'[t].by = x /\ task'[t].pid = pidOf'[x]
      BY DEF RowOwned
    <3>2. task'[t] = task[t] /\ ~Owns(w)
      BY <2>2, <3>1
    <3>3. PICK x \in Workers :
             /\ held[x].task = t /\ held[x].token = task[t].token
             /\ task[t].by = x /\ task[t].pid = pidOf[x]
      BY <1>1, <3>1, <3>2 DEF TaskCounted, RowOwned
    <3>4. x # w
      BY <3>2, <3>3, QueueConstants DEF Owns
    <3>5. QED
      BY <1>1, <3>2, <3>3, <3>4
  <2>4. /\ LiveJob(t)' <=> LiveJob(t)
        /\ (Queueing(t)' <=> Queueing(t)) /\ (Spare(t)' <=> Spare(t))
    BY <1>9, <2>2 DEF LiveJob, Full, Queueing, Spare
  <2>5. Offered(t)' =>
          /\ Spare(t)' /\ ~LiveJob(t)' /\ \A v \in Verifiers : ~Requeues(v, t)'
    BY <1>1, <1>2, <1>9, <2>1, <2>2, <2>4
       DEF Offered, TaskCounted, OneStage, ClaimsCounted
  <2>6. WorksOn(w, t)' =>
          /\ WorksOn(w, t) /\ ~Offered(t)' /\ ~LiveJob(t)'
          /\ \A v \in Verifiers : ~Requeues(v, t)'
    BY <1>1, <1>2, <1>9, <2>1, <2>2, <2>4 DEF WorksOn, Offered, TaskCounted, OneStage
  <2>7. \A x \in Workers : WorksOn(x, t)' => WorksOn(x, t)
    BY <1>2, <2>6
  <2>8. OneStage(t)'
    <3>1. ASSUME NEW x \in Workers, WorksOn(x, t)' PROVE ~Offered(t)'
      <4>1. CASE x = w
        BY <2>6, <3>1, <4>1
      <4>2. CASE x # w
        <5>1. WorksOn(x, t) /\ ~WorksOn(w, t) /\ ~Offered(t)
          BY <1>1, <2>7, <3>1, <4>2 DEF TaskCounted, OneStage
        <5>2. status \notin Claimable
          BY <1>9, <2>1, <5>1
        <5>3. QED
          BY <2>2, <5>1, <5>2 DEF Offered
      <4>3. QED
        BY <4>1, <4>2
    <3>2. QED
      BY <1>1, <1>2, <2>4, <2>5, <2>7, <3>1 DEF TaskCounted, OneStage
  <2>9. ClaimsCounted(t)'
    BY <1>1, <1>9, <2>2, <2>4, <2>5 DEF TaskCounted, ClaimsCounted
  <2>10. RepairComesFirst(t)'
    BY <1>1, <1>2, <1>9, <2>4 DEF TaskCounted, RepairComesFirst, Full
  <2>11. TurnCounted(w)'
    <3>1. turn'[w].at = "park" => \A u \in Tasks : WorksOn(w, u)' => u = t
      BY <1>9 DEF WorksOn
    <3>2. turn'[w].at = "park" => turn'[w].claims = task'[t].claims
      BY <1>1, <1>9, <2>1, <2>2 DEF TurnCounted
    <3>3. turn'[w].at # "park" => \A u \in Tasks : ~WorksOn(w, u)'
      BY <1>9 DEF WorksOn
    <3>4. QED
      BY <1>9, <3>1, <3>2, <3>3 DEF TurnCounted
  <2>12. QED
    BY <2>2, <2>3, <2>8, <2>9, <2>10, <2>11 DEF TaskCounted
<1>10. CompleteTurn(w) =>
          TaskCounted(t)' /\ TurnCounted(w)' /\ task'[t].claims = task[t].claims
  <2>1. SUFFICES ASSUME CompleteTurn(w)
                 PROVE  /\ TaskCounted(t)' /\ TurnCounted(w)'
                        /\ task'[t].claims = task[t].claims
    OBVIOUS
  <2>2. /\ UNCHANGED <<job, prop>> /\ turn[w].at \in {"result", "handoff"}
        /\ turn[w].at = "result" => ~Retryable(w)
        /\ turn'[w].at \in {"idle", "over"}
    <3>1. \E at \in {"idle", "over"} : EndTurn(w, at)
      BY <2>1 DEF CompleteTurn, Steady
    <3>2. QED
      BY <1>1, <2>1, <3>1, EndTurnRow DEF CompleteTurn
  <2>3. PICK status \in {Pending, "completed"} : GiveBack(w, status)
    BY <2>1 DEF CompleteTurn
  <2>4. status \in Statuses /\ status \notin Claimable
    BY <2>3, PoolStatuses DEF Claimable, Pending
  <2>5. Queueing(t) => Spare(t) \/ \E x \in Workers : WorksOn(x, t)'
    <3>1. CASE turn[w].at = "result"
      BY <1>1, <2>2, <3>1 DEF TurnCounted
    <3>2. CASE turn[w].at = "handoff"
      <4>1. ~WorksOn(w, t)
        BY <3>2 DEF WorksOn
      <4>2. QED
        BY <1>1, <1>2, <4>1 DEF TaskCounted, ClaimsCounted
    <3>3. QED
      BY <2>2, <3>1, <3>2
  <2>6. QED
    BY <1>9, <2>2, <2>3, <2>4, <2>5
<1>11. RetryLater(w) =>
          TaskCounted(t)' /\ TurnCounted(w)' /\ task'[t].claims = task[t].claims
  <2>1. SUFFICES ASSUME RetryLater(w)
                 PROVE  /\ TaskCounted(t)' /\ TurnCounted(w)'
                        /\ task'[t].claims = task[t].claims
    OBVIOUS
  <2>2. /\ UNCHANGED <<job, prop>> /\ turn[w].at = "result" /\ ~LastClaim(w)
        /\ turn'[w].at = "over" /\ GiveBack(w, "requeued") /\ "requeued" \in Statuses
    BY <1>1, <2>1, PoolStatuses, EndTurnRow DEF RetryLater, TurnCounted
  <2>3. WorksOn(w, t) /\ Spare(t)
    <3>1. WorksOn(w, t)
      BY <1>1, <2>2 DEF WorksOn
    <3>2. turn[w].claims = task[t].claims
      BY <1>1, <3>1 DEF TurnCounted
    <3>3. QED
      BY <1>1, <2>2, <3>1, <3>2 DEF LastClaim, Spare
  <2>4. QED
    BY <1>9, <2>2, <2>3
<1>12. ParkTask(w) =>
          TaskCounted(t)' /\ TurnCounted(w)' /\ task'[t].claims = task[t].claims
  <2>1. SUFFICES ASSUME ParkTask(w)
                 PROVE  /\ TaskCounted(t)' /\ TurnCounted(w)'
                        /\ task'[t].claims = task[t].claims
    OBVIOUS
  <2>2. /\ UNCHANGED <<job, prop>> /\ turn[w].at = "result" /\ GiveBack(w, Parked)
        /\ turn'[w].at = "park" /\ Mine(w)' = t /\ turn'[w].claims = turn[w].claims
    BY <1>1, <2>1 DEF ParkTask, TurnCounted, Turn, Mine
  <2>3. Parked \in Statuses /\ Parked \notin Claimable
    BY PoolStatuses DEF Claimable, Parked
  <2>4. WorksOn(w, t)'
    BY <2>2 DEF WorksOn
  <2>5. QED
    BY <1>9, <2>2, <2>3, <2>4
<1>13. ParkProposal(w) =>
          TaskCounted(t)' /\ TurnCounted(w)' /\ UNCHANGED task /\ ~Queueing(t)'
  <2>1. SUFFICES ASSUME ParkProposal(w)
                 PROVE  /\ TaskCounted(t)' /\ TurnCounted(w)'
                        /\ UNCHANGED task /\ ~Queueing(t)'
    OBVIOUS
  <2>2. /\ turn[w].at = "park" /\ turn'[w].at \in {"idle", "over"}
        /\ UNCHANGED <<task, held, job>> /\ ~Queueing(t)'
    BY <1>1, <2>1, ParkProposalRow, TurnMoves, ProposalFacts, EndTurnRow
       DEF ParkProposal, vars, Queueing
  <2>3. /\ WorksOn(w, t) /\ ~Offered(t) /\ ~LiveJob(t)
        /\ \A v \in Verifiers : ~Requeues(v, t)
        /\ \A x \in Workers : WorksOn(x, t) => x = w
    BY <1>1, <2>2 DEF WorksOn, TaskCounted, OneStage
  <2>4. \A x \in Workers : ~WorksOn(x, t)'
    BY <1>2, <2>2, <2>3 DEF WorksOn
  <2>5. OneStage(t)' /\ ClaimsCounted(t)' /\ RepairComesFirst(t)' /\ RowOwned(t)'
    BY <1>1, <1>2, <2>2, <2>3, <2>4
       DEF TaskCounted, OneStage, ClaimsCounted, RepairComesFirst, RowOwned, Offered
  <2>6. TurnCounted(w)'
    BY <2>2 DEF TurnCounted, WorksOn
  <2>7. QED
    BY <2>2, <2>5, <2>6 DEF TaskCounted
<1>14. ~PoolClaim(w) /\ ~PromotionUnseen(w) /\ ~Fail(w) /\ ~FailAgain(w)
  BY DEF PoolClaim, AtWork, PromotionUnseen, Fail, FailAgain, Steady
<1>15. /\ TaskCounted(t)' /\ TurnCounted(w)' /\ task'[t].claims = task[t].claims
  BY <1>4, <1>5, <1>6, <1>7, <1>8, <1>10, <1>11, <1>12, <1>13, <1>14 DEF TurnStep
<1>16. Queueing(t)' /\ ~Queueing(t) => WorksOn(w, t)
  <2>1. CASE prop' = prop
    BY <2>1 DEF Queueing
  <2>2. CASE prop' # prop
    BY <1>5, <1>7, <1>13, <1>14, <2>2
       DEF TurnStep, PoolClaim, Dispatch, PromoteCandidate, HandOff, CompleteTurn,
           RetryLater, ParkTask, Fail, FailAgain
  <2>3. QED
    BY <2>1, <2>2
<1>17. QED
  BY <1>15, <1>16

\* A worker's step keeps the count of every task.
LEMMA TurnCounts ==
    ASSUME Steady, Counted, NEW w \in Workers, TurnStep(w), NEW u \in Tasks
    PROVE  /\ TaskCounted(u)' /\ TurnCounted(w)'
           /\ task'[u].claims = task[u].claims \/ Offered(u)
           /\ Queueing(u)' => Queueing(u) \/ WorksOn(w, u)
<1>1. CASE PoolClaim(w)
  <2>1. PICK t \in Tasks : /\ t = turn'[w].task /\ Offered(t)
                           /\ TaskCounted(t)' /\ TurnCounted(w)'
    BY <1>1, ClaimKeepsCount
  <2>2. ~AtWork(w) /\ prop' = prop
    BY <1>1 DEF PoolClaim, AtWork
  <2>3. u # t => TaskCounted(u)' /\ task'[u].claims = task[u].claims
    BY <2>1, <2>2, TurnElsewhere DEF Mine
  <2>4. QED
    BY <2>1, <2>2, <2>3 DEF Queueing
<1>2. CASE ~PoolClaim(w)
  <2>1. /\ AtWork(w) /\ Mine(w) \in Tasks
        /\ AtWork(w)' => turn'[w].task = Mine(w)
    BY <1>2, SteadyTurns DEF TurnEnds, AtWork
  <2>2. TurnCounted(w)'
    BY <2>1, OwnTurnKeepsCount
  <2>3. CASE u = Mine(w)
    BY <2>1, <2>3, OwnTurnKeepsCount
  <2>4. CASE u # Mine(w)
    <3>1. TaskCounted(u)' /\ task'[u].claims = task[u].claims /\ prop'[u] = prop[u]
      BY <2>1, <2>4, TurnElsewhere DEF Mine
    <3>2. QED
      BY <2>2, <3>1 DEF Queueing
  <2>5. QED
    BY <2>3, <2>4
<1>3. QED
  BY <1>1, <1>2

LEMMA TurnKeepsCount ==
    ASSUME Steady, Counted, NEW w \in Workers, TurnStep(w) PROVE Counted'
<1>1. /\ PoolNext /\ PoolNamed /\ UNCHANGED <<phase, checking, check>>
      /\ \A x \in Workers \ {w} : turn'[x] = turn[x]
      /\ \A t \in Tasks : /\ TaskCounted(t) /\ TaskCounted(t)'
                          /\ task'[t].claims = task[t].claims \/ Offered(t)
                          /\ Queueing(t)' => Queueing(t) \/ WorksOn(w, t)
  BY CountedNames, TurnFrame, TurnCounts DEF PoolNext
<1>2. ASSUME NEW x \in Workers PROVE TurnCounted(x)'
  <2>1. CASE x = w
    BY <2>1, SteadyTurns, ClaimKeepsCount, OwnTurnKeepsCount
  <2>2. CASE x # w
    <3>1. turn'[x] = turn[x] /\ TurnCounted(x) /\ TurnNamed(x)
      BY <1>1, <2>2, CountedNames
    <3>2. ASSUME NEW t \in Tasks, WorksOn(x, t)
          PROVE  /\ task'[t].claims = task[t].claims
                 /\ Queueing(t)' => Queueing(t)
      BY <1>1, <2>2, <3>2 DEF TaskCounted, OneStage
    <3>3. turn[x].at = "result" => Mine(x) \in Tasks /\ WorksOn(x, Mine(x))
      BY <3>1 DEF TurnNamed, AtWork, Mine, WorksOn
    <3>4. QED
      BY <3>1, <3>2, <3>3 DEF TurnCounted, WorksOn, Mine, Retryable
  <2>3. QED
    BY <2>1, <2>2
<1>3. ASSUME NEW v \in Verifiers PROVE CheckCounted(v)'
  <2>1. /\ CheckCounted(v) /\ CheckNamed(v) /\ AllowedFit(v) /\ JobTicketHolds(v)
        /\ check'[v] = check[v] /\ Its(v)' = Its(v)
    BY <1>1, CountedNames DEF JobTicketsHold, Its
  <2>2. ASSUME check[v].allowed PROVE Its(v) \in Tasks /\ ~Offered(Its(v))
    <3>1. Its(v) \in Tasks
      BY <2>1, <2>2 DEF CheckNamed, AllowedFit
    <3>2. CASE check[v].at = "requeue"
      BY <1>1, <3>1, <3>2 DEF Requeues, TaskCounted, OneStage
    <3>3. CASE check[v].at \in Unfinished
      <4>1. Full(Its(v)) = "claimed"
        BY <2>1, <2>2, <3>3 DEF AllowedFit, JobTicketHolds, Full
      <4>2. QED
        BY <1>1, <3>1, <4>1 DEF LiveJob, TaskCounted, OneStage
    <3>4. QED
      BY <2>1, <2>2, <3>2, <3>3 DEF CheckCounted, Unfinished
  <2>3. QED
    BY <1>1, <2>1, <2>2 DEF CheckCounted, Spare
<1>4. phase' # "sync"
  <2>1. phase = "turns"
    BY CountedNames, SteadyTurns DEF TurnNamed, PoolClaim
  <2>2. QED
    BY <1>1, <2>1
<1>5. QED
  BY <1>1, <1>2, <1>3, <1>4, SyncIsOver, RepairedIsInductive DEF Counted

\* The verdict of a job is written by the verifier that has its ticket.
LEMMA SteadyFinishes ==
    ASSUME Steady, Counted, NEW v \in Verifiers, CheckStep(v), NEW status, NEW taskStatus,
           Finishes(v, status, taskStatus)
    PROVE  /\ check[v].at \in Unfinished /\ ~RequeueForRepair(v) /\ ~RecordRepair(v)
           /\ prop' = prop
           /\ check[v].at = "repair_recorded" <=> FinishNeedsRepair(v)
           /\ FinishNeedsRepair(v) => /\ checking[v].kind = "full_regression"
                                      /\ status = "failed_needs_repair"
<1>1. /\ PoolNamed /\ TypeOK /\ JobsTypeOK /\ CheckNamed(v) /\ JobTicketHolds(v)
      /\ AllowedFit(v)
  BY CountedNames DEF Counted, Repaired, JobTicketsHold
<1>2. /\ Its(v) \in Tasks /\ checking[v].kind \in Kinds
      /\ job[Its(v)][checking[v].kind].by = v
      /\ job'[Its(v)][checking[v].kind].by = Nobody
      /\ job'[Its(v)][checking[v].kind].status = status
  BY <1>1, FinishRows DEF Finishes, JobsTypeOK, JobTicket
<1>3. job' # job
  BY <1>2, VerifiersAreThreads
<1>4. ~StartCheck(v)
  BY <1>1, <1>2, IdleThreadsTyped, QueueConstants DEF StartCheck, ClaimVerificationJob, Its
<1>5. ~QueueGitSync(v)
  <2>1. SUFFICES ASSUME QueueGitSync(v) PROVE FALSE
    OBVIOUS
  <2>2. JobOnly(Its(v), "git_sync") /\ checking[v].kind # "git_sync"
    BY <1>1, <2>1, GitSyncJobRow, EnqueueJobRow DEF QueueGitSync, CheckNamed
  <2>3. QED
    BY <1>2, <2>2, VerifiersAreThreads DEF JobOnly, Kinds
<1>6. \/ FinishVerified(v) \/ SyncFails(v) \/ GitSyncs(v) \/ GitSyncFails(v)
      \/ FinishRecoveryPending(v) \/ FinishTerminal(v) \/ FinishNeedsRepair(v)
  BY <1>1, <1>3, <1>4, <1>5
     DEF CheckStep, ReadProposal, RegressionPasses, RegressionFails, SyncRuntime,
         RecordVerified, RecordSyncPending, RecordGitSynced, RecoveredBefore,
         RevertPromoted, RevertFails, RecordRecoveryPending, RecordReverted,
         RecordTerminal, RecordRepair, RequeueForRepair, CheckFails, jobvars
<1>7. /\ check[v].at \in Unfinished /\ ~RequeueForRepair(v) /\ ~RecordRepair(v)
      /\ prop' = prop
      /\ check[v].at = "repair_recorded" <=> FinishNeedsRepair(v)
  BY <1>6 DEF FinishVerified, SyncFails, GitSyncs, GitSyncFails, FinishRecoveryPending,
     FinishTerminal, FinishNeedsRepair, RequeueForRepair, RecordRepair, Unfinished
<1>8. ASSUME FinishNeedsRepair(v)
      PROVE  checking[v].kind = "full_regression" /\ status = "failed_needs_repair"
  <2>1. checking[v].kind = "full_regression"
    BY <1>1, <1>2, <1>8 DEF FinishNeedsRepair, CheckNamed, Kinds
  <2>2. job'[Its(v)][checking[v].kind].status = "failed_needs_repair"
    BY <1>1, <1>8, FinishRows, PoolStatuses DEF FinishNeedsRepair
  <2>3. QED
    BY <1>2, <2>1, <2>2
<1>9. QED
  BY <1>7, <1>8

\* Which step a verifier takes from where, when nothing fails.
LEMMA SteadyChecks ==
    ASSUME Steady, Counted, NEW v \in Verifiers, CheckStep(v)
    PROVE  /\ check[v].at = "repair_recorded" => FinishNeedsRepair(v)
           /\ check[v].at = "requeue" <=> RequeueForRepair(v)
           /\ check'[v].at = "requeue" <=> FinishNeedsRepair(v)
           /\ check'[v].at = "repair_recorded" <=> RecordRepair(v)
           /\ FinishNeedsRepair(v) \/ RecordRepair(v) => checking'[v] = checking[v]
           /\ RequeueForRepair(v) => check'[v].at = "over"
           /\ AtCheck(v)' /\ ~StartCheck(v) => checking'[v] = checking[v] /\ AtCheck(v)
<1>1. PoolNamed /\ PoolTypeOK /\ (CheckFails(v) => check[v].at = "testing")
  BY CountedNames DEF Steady, CheckFails
<1>2. /\ check[v].at = "repair_recorded" => FinishNeedsRepair(v)
      /\ check[v].at = "requeue" <=> RequeueForRepair(v)
  BY <1>1 DEF CheckStep, StartCheck, ReadProposal, RegressionPasses, RegressionFails,
     SyncRuntime, RecordVerified, FinishVerified, SyncFails, QueueGitSync,
     RecordSyncPending, GitSyncs, RecordGitSynced, GitSyncFails, RecoveredBefore,
     RevertPromoted, RevertFails, RecordRecoveryPending, FinishRecoveryPending,
     RecordReverted, RecordTerminal, FinishTerminal, RecordRepair, FinishNeedsRepair,
     RequeueForRepair
<1>3. /\ FinishNeedsRepair(v) => check[v].at = "repair_recorded" /\ check'[v].at = "requeue"
                                  /\ checking'[v] = checking[v]
      /\ RecordRepair(v) => check[v].at = "repair" /\ check'[v].at = "repair_recorded"
                             /\ checking'[v] = checking[v]
      /\ RequeueForRepair(v) => check'[v].at = "over"
  BY <1>1, MoveRow, EndCheckRow
     DEF FinishNeedsRepair, RecordRepair, RequeueForRepair, CheckStates, jobvars
<1>4. /\ check'[v].at = "requeue" => FinishNeedsRepair(v)
      /\ check'[v].at = "repair_recorded" => RecordRepair(v)
      /\ AtCheck(v)' /\ ~StartCheck(v) => checking'[v] = checking[v] /\ AtCheck(v)
  BY <1>1, CheckMoves DEF Goes, AtCheck
<1>5. QED
  BY <1>2, <1>3, <1>4

\* Which steps of a verifier write the jobs.
LEMMA OwnJobWrites ==
    ASSUME NEW v \in Verifiers, CheckStep(v)
    PROVE  \/ job' = job \/ StartCheck(v) \/ QueueGitSync(v)
           \/ \E status, taskStatus : Finishes(v, status, taskStatus)
<1>1. /\ {"verified", "verified_pending_sync", "synced", "requeued",
          "failed_terminal", "failed_needs_repair"}
            \subseteq JobStatuses \ {"absent", "claimed"}
      /\ {"verified", Pending, "reverted_verification_failure",
          "repairing_post_promotion"} \subseteq Statuses \ (Claimable \cup {"absent"})
  BY PoolStatuses DEF Claimable, Pending
<1>2. CASE \/ FinishVerified(v) \/ SyncFails(v) \/ GitSyncs(v) \/ GitSyncFails(v)
           \/ FinishRecoveryPending(v) \/ FinishTerminal(v) \/ FinishNeedsRepair(v)
  BY <1>1, <1>2 DEF FinishVerified, SyncFails, GitSyncs, GitSyncFails,
     FinishRecoveryPending, FinishTerminal, FinishNeedsRepair, Finishes
<1>3. QED
  BY <1>2 DEF CheckStep, ReadProposal, RegressionPasses, RegressionFails, SyncRuntime,
     RecordVerified, RecordSyncPending, RecordGitSynced, RecoveredBefore, RevertPromoted,
     RevertFails, RecordRecoveryPending, RecordReverted, RecordTerminal, RecordRepair,
     RequeueForRepair, CheckFails, jobvars

\* A verifier's step changes neither the turns nor the counts, and puts no
\* proposal in the queue but with a repair.
LEMMA CheckCounts ==
    ASSUME Steady, Counted, NEW v \in Verifiers, CheckStep(v), NEW t \in Tasks
    PROVE  /\ TaskCounted(t)' /\ task'[t].claims = task[t].claims
           /\ Queueing(t)' => Queueing(t) \/ (RecordRepair(v) /\ t = Its(v))
<1>1. /\ PoolNamed /\ PoolTypeOK /\ TypeOK /\ JobsTypeOK /\ PoolNext
      /\ CheckNamed(v) /\ CheckCounted(v) /\ AllowedFit(v) /\ TaskCounted(t)
      /\ task \in [Tasks -> TaskRow] /\ "full_regression" \in Kinds
      /\ UNCHANGED <<pidOf, held, turn>>
      /\ \A x \in Verifiers \ {v} : check'[x] = check[x] /\ checking'[x] = checking[x]
      /\ \A x \in Verifiers : AllowedFit(x) /\ JobTicketHolds(x)
  BY CountedNames, CheckFrame DEF PoolNext, JobTicketsHold
<1>2. /\ \A w \in Workers : WorksOn(w, t)' <=> WorksOn(w, t)
      /\ \A x \in Verifiers \ {v} : Requeues(x, t)' <=> Requeues(x, t)
      /\ Requeues(v, t)' => FinishNeedsRepair(v) /\ t = Its(v)
      /\ \A x \in Verifiers \ {v} : Its(x)' = Its(x)
  BY <1>1, SteadyChecks DEF WorksOn, Mine, Requeues, Its
<1>3. Queueing(t)' => Queueing(t) \/ (RecordRepair(v) /\ t = Its(v))
  <2>1. CASE \/ RecordVerified(v) \/ RecordSyncPending(v) \/ RecordRecoveryPending(v)
             \/ RecordReverted(v) \/ RecordTerminal(v) \/ RecordGitSynced(v)
    <3>1. /\ Its(v) \in Tasks /\ PropOnly(Its(v))
          /\ prop'[Its(v)].status \notin QueueStatuses
      BY <1>1, <2>1, VerifierRows, ProposalFacts DEF QueueStatuses, Pending
    <3>2. QED
      BY <3>1 DEF PropOnly, Queueing
  <2>2. CASE RecordRepair(v)
    BY <1>1, <2>2, RecordRepairRow DEF PropOnly, Queueing
  <2>3. QED
    BY <2>1, <2>2
       DEF CheckStep, StartCheck, ReadProposal, RegressionPasses, RegressionFails,
           SyncRuntime, FinishVerified, SyncFails, QueueGitSync, GitSyncs, GitSyncFails,
           RecoveredBefore, RevertPromoted, RevertFails, FinishRecoveryPending,
           FinishTerminal, FinishNeedsRepair, RequeueForRepair, CheckFails, Queueing
<1>4. \/ Full(t)' = Full(t)
      \/ /\ StartCheck(v) /\ Full(t) \in ClaimableJob /\ Full(t)' = "claimed"
      \/ /\ t = Its(v) /\ checking[v].kind = "full_regression"
         /\ \E status, taskStatus : Finishes(v, status, taskStatus) /\ Full(t)' = status
  <2>1. CASE StartCheck(v)
    <3>1. PICK u \in Tasks, k \in Kinds :
             /\ JobOnly(u, k) /\ job[u][k].status \in ClaimableJob
             /\ job'[u][k].status = "claimed"
      BY <1>1, <2>1, ClaimJobRow DEF StartCheck
    <3>2. QED
      BY <1>1, <2>1, <3>1 DEF JobOnly, Full
  <2>2. CASE QueueGitSync(v)
    <3>1. Its(v) \in Tasks /\ JobOnly(Its(v), "git_sync")
      BY <1>1, <2>2, GitSyncJobRow, EnqueueJobRow
    <3>2. QED
      BY <1>1, <3>1 DEF JobOnly, Full
  <2>3. ASSUME NEW status, NEW taskStatus, Finishes(v, status, taskStatus)
        PROVE  \/ Full(t)' = Full(t)
               \/ t = Its(v) /\ checking[v].kind = "full_regression" /\ Full(t)' = status
    <3>1. /\ Its(v) \in Tasks /\ JobOnly(Its(v), checking[v].kind)
          /\ job'[Its(v)][checking[v].kind].status = status
      BY <1>1, <2>3, FinishRows DEF Finishes
    <3>2. QED
      BY <1>1, <3>1 DEF JobOnly, Full
  <2>4. CASE \E status, taskStatus : Finishes(v, status, taskStatus)
    BY <2>3, <2>4
  <2>5. CASE job' = job
    BY <2>5 DEF Full
  <2>6. QED
    BY <2>1, <2>2, <2>4, <2>5, OwnJobWrites
<1>5. \/ task'[t] = task[t]
      \/ /\ t = Its(v) /\ ~Offered(t)' /\ task'[t].claims = task[t].claims
         /\ task'[t].token = task[t].token /\ task'[t].by = task[t].by
         /\ task'[t].pid = task[t].pid
      \/ /\ t = Its(v) /\ RequeueForRepair(v)
         /\ task'[t].claims = task[t].claims /\ task'[t].token = 0
  <2>1. ASSUME NEW status, NEW taskStatus, Finishes(v, status, taskStatus),
               t = Its(v)
        PROVE  /\ ~Offered(t)' /\ task'[t].claims = task[t].claims
               /\ task'[t].token = task[t].token /\ task'[t].by = task[t].by
               /\ task'[t].pid = task[t].pid
    <3>1. task'[t] = [task[t] EXCEPT !.status = taskStatus] /\ taskStatus \notin Claimable
      BY <1>1, <2>1, FinishRows DEF Finishes
    <3>2. task[t] \in TaskRow
      BY <1>1
    <3>3. QED
      BY <3>1, <3>2 DEF TaskRow, Offered
  <2>2. ASSUME NEW status, NEW taskStatus, Finishes(v, status, taskStatus),
               t # Its(v)
        PROVE  task'[t] = task[t]
    <3>1. RowOnly(Its(v))
      BY <1>1, <2>2, FinishRows DEF Finishes
    <3>2. QED
      BY <2>2, <3>1 DEF RowOnly
  <2>3. CASE RequeueForRepair(v)
    <3>1. Its(v) \in Tasks
      BY <1>1, <2>3 DEF RequeueForRepair, CheckNamed, AtCheck
    <3>2. t = Its(v) =>
             task'[t] = [Unclaimed(task[t]) EXCEPT !.status = "requeued", !.due = FALSE]
      BY <1>1, <2>3, <3>1 DEF RequeueForRepair, RequeueWithoutOwner
    <3>3. t # Its(v) => task'[t] = task[t]
      BY <1>1, <2>3, <3>1 DEF RequeueForRepair, RequeueWithoutOwner
    <3>4. task[t] \in TaskRow
      BY <1>1
    <3>5. QED
      BY <2>3, <3>2, <3>3, <3>4 DEF TaskRow, Unclaimed
  <2>4. QED
    BY <2>1, <2>2, <2>3, CheckTaskWrites
<1>6. task'[t].claims = task[t].claims
  BY <1>5
<1>7. \A status, taskStatus :
         Finishes(v, status, taskStatus) /\ checking[v].kind = "full_regression" /\ t = Its(v)
            => Full(t) = "claimed" /\ job[t]["full_regression"].by = v
  BY <1>1, SteadyFinishes DEF JobTicketHolds, Full
<1>8. LiveJob(t)' => LiveJob(t)
  BY <1>4, <1>7 DEF LiveJob
<1>9. ASSUME FinishNeedsRepair(v), t = Its(v)
      PROVE  Full(t) = "claimed" /\ ~LiveJob(t)' /\ ~Offered(t)'
  <2> DEFINE verdict == "failed_needs_repair"
             next == "repairing_post_promotion"
  <2>1. FinishVerificationJob(v, verdict, next)
    BY <1>9 DEF FinishNeedsRepair
  <2>2. verdict \in JobStatuses /\ next \in Statuses /\ next \notin Claimable
    BY PoolStatuses DEF Claimable
  <2>3. Finishes(v, verdict, next)
    BY <2>1, <2>2 DEF Finishes, Claimable
  <2>4. checking[v].kind = "full_regression"
    BY <1>9, <2>3, SteadyFinishes
  <2>5. Full(t)' = verdict /\ task'[t] = [task[t] EXCEPT !.status = next]
    BY <1>1, <1>9, <2>1, <2>2, <2>4, FinishRows DEF Full
  <2>6. task'[t].status = next
    BY <1>1, <2>5 DEF TaskRow
  <2>7. QED
    BY <1>7, <1>9, <2>2, <2>3, <2>4, <2>5, <2>6 DEF LiveJob, ClaimableJob, Offered
<1>10. ASSUME NEW x \in Verifiers, Its(x) = t, check[x].at = "repair_recorded"
       PROVE  job[t]["full_regression"].by = x
  BY <1>1, <1>10 DEF AllowedFit, JobTicketHolds, Unfinished
<1>11. ASSUME Queueing(t), LiveJob(t)'
       PROVE  /\ Full(t) = "claimed" => Full(t)' = "claimed"
              /\ \A x \in Verifiers : Its(x) = t /\ check[x].at = "repair_recorded" =>
                    (Its(x) = t /\ check[x].at = "repair_recorded")'
  <2>1. PICK x \in Verifiers : Its(x) = t /\ check[x].at = "repair_recorded"
    BY <1>1, <1>8, <1>11 DEF TaskCounted, RepairComesFirst
  <2>2. x # v
    BY <1>9, <1>11, <2>1, SteadyChecks
  <2>3. job[t]["full_regression"].by # v
    BY <1>10, <2>1, <2>2
  <2>4. Full(t)' = Full(t) \/ Full(t)' = "claimed"
    BY <1>4, <1>7, <2>3
  <2>5. \A y \in Verifiers : Its(y) = t /\ check[y].at = "repair_recorded" => y # v
    BY <1>10, <2>3
  <2>6. QED
    BY <1>1, <1>2, <2>4, <2>5
<1>12. CASE t # Its(v) \/ ~(RequeueForRepair(v) \/ RecordRepair(v) \/ FinishNeedsRepair(v))
  <2>1. Queueing(t)' => Queueing(t)
    BY <1>3, <1>12
  <2>2. \A x \in Verifiers : Requeues(x, t)' => Requeues(x, t)
    BY <1>2, <1>12
  <2>3. /\ Offered(t)' => Offered(t)
        /\ task'[t].token = task[t].token /\ task'[t].by = task[t].by
        /\ task'[t].pid = task[t].pid
    BY <1>5, <1>12 DEF Offered
  <2>4. Unaffected(t)
    BY <1>1, <1>2, <1>6, <1>8, <1>11, <2>1, <2>2, <2>3 DEF Unaffected
  <2>5. QED
    BY <1>3, <1>6, <2>4, UnaffectedStaysCounted
<1>13. CASE FinishNeedsRepair(v) /\ t = Its(v)
  <2>1. /\ Full(t) = "claimed" /\ ~LiveJob(t)' /\ ~Offered(t)' /\ LiveJob(t)
        /\ check[v].at = "repair_recorded"
    BY <1>9, <1>13 DEF LiveJob, FinishNeedsRepair
  <2>2. /\ \A w \in Workers : ~WorksOn(w, t)'
        /\ \A x \in Verifiers : Requeues(x, t)' => x = v
    BY <1>1, <1>2, <2>1 DEF TaskCounted, OneStage
  <2>3. OneStage(t)' /\ RepairComesFirst(t)'
    BY <2>1, <2>2 DEF OneStage, RepairComesFirst
  <2>4. ClaimsCounted(t)'
    <3>1. ~(RecordRepair(v) /\ t = Its(v))
      BY <2>1 DEF RecordRepair
    <3>2. Queueing(t)' => Queueing(t)
      BY <1>3, <3>1
    <3>3. QED
      BY <1>1, <1>2, <1>6, <2>1, <3>2 DEF TaskCounted, ClaimsCounted, Spare
  <2>5. RowOwned(t)'
    <3>1. /\ task'[t].token = task[t].token /\ task'[t].by = task[t].by
          /\ task'[t].pid = task[t].pid
      BY <1>5, <2>1 DEF RequeueForRepair
    <3>2. QED
      BY <1>1, <3>1 DEF TaskCounted, RowOwned
  <2>6. QED
    BY <1>3, <1>6, <1>13, <2>3, <2>4, <2>5 DEF TaskCounted
<1>14. CASE RecordRepair(v) /\ t = Its(v)
  <2>1. /\ check[v].at = "repair" /\ check[v].allowed /\ check[v].at \in Unfinished
        /\ UNCHANGED <<task, job>> /\ checking' = checking
    BY <1>1, <1>14 DEF RecordRepair, AllowedFit, jobvars, Unfinished
  <2>2. Spare(t) /\ Full(t) = "claimed"
    BY <1>1, <1>14, <2>1 DEF CheckCounted, AllowedFit, JobTicketHolds, Full
  <2>3. /\ (LiveJob(t)' <=> LiveJob(t)) /\ Full(t)' = "claimed"
        /\ Spare(t)' /\ (Offered(t)' <=> Offered(t))
    BY <2>1, <2>2 DEF LiveJob, Full, Spare, Offered
  <2>4. OneStage(t)'
    <3>1. \A x \in Verifiers : Requeues(x, t)' => Requeues(x, t)
      BY <1>2, <2>1 DEF FinishNeedsRepair
    <3>2. QED
      BY <1>1, <1>2, <2>3, <3>1 DEF TaskCounted, OneStage
  <2>5. ClaimsCounted(t)'
    BY <1>1, <1>6, <2>2, <2>3 DEF TaskCounted, ClaimsCounted
  <2>6. RepairComesFirst(t)'
    <3>1. check'[v].at = "repair_recorded" /\ Its(v)' = t
      BY <1>14, <2>1, SteadyChecks DEF Its
    <3>2. QED
      BY <2>3, <3>1 DEF RepairComesFirst
  <2>7. RowOwned(t)'
    BY <1>1, <2>1 DEF TaskCounted, RowOwned
  <2>8. QED
    BY <1>3, <1>6, <2>4, <2>5, <2>6, <2>7 DEF TaskCounted
<1>15. CASE RequeueForRepair(v) /\ t = Its(v)
  <2>1. /\ check[v].at = "requeue" /\ check'[v].at = "over" /\ Requeues(v, t)
        /\ job' = job /\ prop' = prop
    BY <1>15, SteadyChecks DEF RequeueForRepair, Requeues
  <2>2. task'[t].token = 0
    BY <1>1, <1>15 DEF RequeueForRepair, RequeueWithoutOwner, Unclaimed, TaskRow
  <2>3. /\ ~LiveJob(t)' /\ Spare(t)'
        /\ \A x \in Verifiers : ~Requeues(x, t)'
        /\ \A w \in Workers : ~WorksOn(w, t)'
    <3>1. ~LiveJob(t) /\ \A w \in Workers : ~WorksOn(w, t)
      BY <1>1, <2>1 DEF TaskCounted, OneStage
    <3>2. Spare(t)'
      BY <1>1, <1>6, <1>15, <2>1 DEF CheckCounted, Spare
    <3>3. \A x \in Verifiers : ~Requeues(x, t)'
      BY <1>1, <1>2, <2>1 DEF TaskCounted, OneStage, Requeues
    <3>4. QED
      BY <1>2, <1>8, <3>1, <3>2, <3>3
  <2>4. OneStage(t)' /\ ClaimsCounted(t)' /\ RepairComesFirst(t)' /\ RowOwned(t)'
    BY <1>1, <1>6, <2>2, <2>3
       DEF TaskCounted, OneStage, ClaimsCounted, RepairComesFirst, RowOwned
  <2>5. QED
    BY <1>3, <1>6, <2>4 DEF TaskCounted
<1>16. QED
  BY <1>12, <1>13, <1>14, <1>15

LEMMA CheckKeepsCount ==
    ASSUME Steady, Counted, NEW v \in Verifiers, CheckStep(v) PROVE Counted'
<1>1. /\ PoolNext /\ PoolNamed /\ PoolTypeOK /\ UNCHANGED <<phase, turn>>
      /\ \A x \in Verifiers \ {v} : check'[x] = check[x] /\ checking'[x] = checking[x]
      /\ \A t \in Tasks : /\ TaskCounted(t) /\ TaskCounted(t)'
                          /\ task'[t].claims = task[t].claims
                          /\ Queueing(t)' => Queueing(t) \/ (RecordRepair(v) /\ t = Its(v))
  BY CountedNames, CheckFrame, CheckCounts DEF PoolNext
<1>2. ASSUME NEW w \in Workers PROVE TurnCounted(w)'
  <2>1. turn'[w] = turn[w] /\ TurnCounted(w) /\ TurnNamed(w)
    BY <1>1, CountedNames
  <2>2. ASSUME NEW t \in Tasks, WorksOn(w, t), RecordRepair(v), t = Its(v) PROVE FALSE
    <3>1. Full(t) = "claimed"
      BY <2>2, CountedNames
         DEF Counted, Repaired, JobTicketsHold, JobTicketHolds, AllowedFit, Unfinished, Full,
             RecordRepair
    <3>2. QED
      BY <1>1, <2>2, <3>1 DEF LiveJob, TaskCounted, OneStage
  <2>3. turn[w].at = "result" => Mine(w) \in Tasks /\ WorksOn(w, Mine(w))
    BY <2>1 DEF TurnNamed, AtWork, Mine, WorksOn
  <2>4. QED
    BY <1>1, <2>1, <2>2, <2>3 DEF TurnCounted, WorksOn, Mine, Retryable
<1>3. ASSUME NEW x \in Verifiers PROVE CheckCounted(x)'
  <2>1. CheckCounted(x) /\ CheckNamed(x) /\ AllowedFit(x)
    BY CountedNames
  <2>2. check[x].allowed => Its(x) \in Tasks
    BY <2>1 DEF CheckNamed, AllowedFit
  <2>3. CASE x # v
    BY <1>1, <2>1, <2>2, <2>3 DEF CheckCounted, Spare, Its
  <2>4. CASE x = v
    <3>1. check[v].at = "testing" => Its(v) \in Tasks
      BY <2>1, <2>4 DEF CheckNamed, AtCheck
    <3>2. check'[v].allowed => Its(v)' = Its(v) /\ Its(v) \in Tasks /\ Spare(Its(v))
      BY <1>1, <2>1, <2>2, <2>4, <3>1, CheckMoves
         DEF Goes, CheckCounted, RepairAllowed, Spare, Its
    <3>3. check'[v].allowed =>
             check'[v].at \in {"failed", "unreverted", "recovery_pending", "reverted",
                               "repair", "terminal", "terminal_recorded",
                               "repair_recorded", "requeue"}
      BY <1>1, <2>1, <2>4, CheckMoves DEF Goes, CheckCounted
    <3>4. check'[v].at = "requeue" => check'[v].allowed
      BY <1>1, <2>1, <2>4, CheckMoves DEF Goes, AllowedFit
    <3>5. QED
      BY <1>1, <2>4, <3>2, <3>3, <3>4 DEF CheckCounted, Spare
  <2>5. QED
    BY <2>3, <2>4
<1>4. phase' # "sync"
  <2>1. phase = "turns"
    BY CountedNames DEF CheckNamed, CheckStep, StartCheck, AtCheck, ReadProposal,
       RegressionPasses, RegressionFails, SyncRuntime, RecordVerified, FinishVerified,
       SyncFails, QueueGitSync, RecordSyncPending, GitSyncs, RecordGitSynced, GitSyncFails,
       RecoveredBefore, RevertPromoted, RevertFails, RecordRecoveryPending,
       FinishRecoveryPending, RecordReverted, RecordTerminal, FinishTerminal, RecordRepair,
       FinishNeedsRepair, RequeueForRepair, CheckFails
  <2>2. QED
    BY <1>1, <2>1
<1>5. QED
  BY <1>1, <1>2, <1>3, <1>4, SyncIsOver, RepairedIsInductive DEF Counted

LEMMA CountedIsInductive ==
    ASSUME Steady, Counted, [PoolNext]_everything PROVE Counted'
BY StepKinds, BeginKeepsCount, EndKeepsCount, SyncKeepsCount, TurnKeepsCount,
   CheckKeepsCount, QuietStepsCount, QuietlyCounted

\* No task is claimed more often than max_task_claims allows, though the worker
\* that gives it back and the verifier that sends it back each decide from a
\* count read before: as long as nothing is killed and no write is lost, a task
\* is at each moment in the hands of one of them.
THEOREM ClaimsStayBounded ==
    ASSUME Steady, MaxClaims > 0 PROVE PoolSpec => []ClaimsAreBounded
<1>1. PoolInit => Counted
  <2>1. SUFFICES ASSUME PoolInit PROVE Counted
    OBVIOUS
  <2>2. /\ Repaired
        /\ \A w \in Workers : turn[w].at = "idle"
        /\ \A v \in Verifiers : check[v].at = "idle" /\ ~check[v].allowed
        /\ sync = IdleSync
    BY <2>1, PoolStartsNamed, IdleThreadsTyped, PoolConstants
       DEF PoolInit, Repaired, RepairsAreBounded, JobTicketsHold, JobTicketHolds,
           Unfinished, AllowedFit, IdleCheck
  <2>3. ASSUME NEW t \in Tasks PROVE TaskCounted(t)
    <3>1. task[t].claims = 0 /\ task[t].token = 0 /\ Full(t) = "absent"
      <4>1. PICK old \in SUBSET Legacy :
               task = [u \in Tasks |-> IF u \in old THEN LegacyRow(u) ELSE NoRow]
        BY <2>1 DEF PoolInit, Init
      <4>2. task[t].claims = 0 /\ task[t].token = 0
        BY <4>1 DEF LegacyRow, NoRow
      <4>3. Full(t) = "absent"
        BY <2>1 DEF PoolInit, JobsInit, NoJob, Kinds, Full
      <4>4. QED
        BY <4>2, <4>3
    <3>2. Spare(t) /\ ~LiveJob(t)
      BY <3>1, PoolConstants DEF Spare, LiveJob, ClaimableJob
    <3>3. QED
      BY <2>2, <3>1, <3>2, PoolConstants
         DEF TaskCounted, OneStage, ClaimsCounted, RepairComesFirst, RowOwned, WorksOn,
             Requeues, Spare
  <2>4. ASSUME NEW w \in Workers PROVE TurnCounted(w)
    BY <2>2 DEF TurnCounted, WorksOn
  <2>5. ASSUME NEW v \in Verifiers PROVE CheckCounted(v)
    BY <2>2 DEF CheckCounted
  <2>6. SyncCounted
    BY <2>2, IdleThreadsTyped DEF SyncCounted
  <2>7. QED
    BY <2>2, <2>3, <2>4, <2>5, <2>6 DEF Counted
<1>2. Counted /\ [PoolNext]_everything => Counted'
  BY CountedIsInductive
<1>3. Counted => ClaimsAreBounded
  BY DEF Counted, TaskCounted, ClaimsCounted, ClaimsAreBounded
<1>4. QED
  BY <1>1, <1>2, <1>3, PTL DEF PoolSpec
=============================================================================
