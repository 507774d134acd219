---------------------- MODULE CodexWorkerPoolRecovery ----------------------
(***************************************************************************)
(* Recovery from writes that were lost.  Without repairs, and with one     *)
(* worker when database writes may raise in a thread: whatever is killed   *)
(* or fails, and whatever reports trust Git's ancestry, a task never has   *)
(* two commits in main, a verification that ended in failure for good left *)
(* none of them in force, and reconciliation finds what it is there for.   *)
(* Without such reports, what runs in main and is recorded as promoted has *)
(* passed the full regression.                                             *)
(* When nothing is killed and nothing fails, with any number of workers    *)
(* and verifiers: what is recorded as promoted is in force in main, a      *)
(* verification that ended in failure for good is never reopened, and the  *)
(* pool implements OneTrial.                                               *)
(***************************************************************************)
EXTENDS CodexWorkerPoolProofs

Alone == Faults => \A w, x \in Workers : w = x

----------------------------------------------------------------------------
(* The invariant.                                                          *)

NoJobs(t) == \A k \in Kinds : job[t][k].status = "absent"

\* The promotion of a task is in the proposals; or it is in main only.
Recorded(t)   == CandidatesOf(t) # {} /\ prop[t].status \notin QueueStatuses
Unrecorded(t) == CandidatesOf(t) # {} /\ prop[t].status \in QueueStatuses

AllReverted(t) == CandidatesOf(t) # {} /\ \A i \in CandidatesOf(t) : Reverted(i)

OneCandidate(t) == \A i, j \in CandidatesOf(t) : i = j

\* Statuses that say that the task was promoted, and that it was undone.
SaysPromoted(status) ==
    status \notin QueueStatuses \cup {Parked, "archived_failed"}
SaysReverted(status) ==
    status \in {"verification_failure_reverted", "reverted_verification_failure"}

\* A promotion that is in main only is about to be recorded, by the worker or
\* by the synchronisation; or the worker failed, or did not see it, and no
\* other works on.
Awaits(w, t) == turn[w].at = "committed" /\ Mine(w) = t

Abandoned(t) ==
    /\ Faults
    /\ \A w \in Workers :
          \/ turn[w].at = "over"
          \/ /\ Mine(w) = t
             /\ turn[w].at \in {"failed", "park"} \/ (turn[w].at = "result" /\ Retryable(w))

UnrecordedAwaits(t) ==
    Unrecorded(t) =>
        /\ phase = "sync" => sync.at # "enqueue" /\ t \in sync.todo
        /\ phase = "turns" => (\E w \in Workers : Awaits(w, t)) \/ Abandoned(t)

TaskSound(t) ==
    /\ OneCandidate(t)
    /\ NoJobs(t) \/ Recorded(t)
    /\ SaysPromoted(prop[t].status) => CandidatesOf(t) # {}
    /\ prop[t].recovered \/ SaysReverted(prop[t].status) => AllReverted(t)
    /\ (\E i \in CandidatesOf(t) : Reverted(i)) => ~NoJobs(t)
    /\ UnrecordedAwaits(t)

TurnSound(w) ==
    /\ turn[w].at = "coding" => CandidatesOf(Mine(w)) = {}
    /\ turn[w].at = "committed" => NoJobs(Mine(w))
    /\ turn[w].at = "result" /\ turn[w].result = Pending => Recorded(Mine(w))

Read == {"testing", "passed", "synced", "promoted", "unsynced", "sync_queued", "failed",
         "unreverted", "recovery_pending", "reverted", "terminal", "terminal_recorded"}

CheckSound(v) ==
    /\ AtCheck(v) => ~NoJobs(Its(v))
    /\ check[v].at \in Read /\ check[v].snap.recovered => AllReverted(Its(v))
    /\ check[v].at \in {"reverted", "terminal", "terminal_recorded"} =>
          AllReverted(Its(v))

SyncSound == sync.at \in {"enqueue_promoted", "complete", "enqueue_job"} =>
                Recorded(sync.t)

Sound == /\ Ticketed /\ Named /\ RevertsLookBack /\ RevertedOnce /\ SyncSound
         /\ \A t \in Tasks : TaskSound(t)
         /\ \A w \in Workers : TurnSound(w)
         /\ \A v \in Verifiers : CheckSound(v)

----------------------------------------------------------------------------
(* What the steps do to what the invariant is about.                       *)

\* Between its claim and its last write a worker is alone with its task.
LEMMA OneWorkerPerTask ==
    ASSUME Ticketed, NEW w \in Workers, NEW x \in Workers, Mine(w) = Mine(x),
           turn[w].at \notin {"idle", "over", "park", "failed"},
           turn[x].at \notin {"idle", "over", "park", "failed"}
    PROVE  w = x
<1>1. /\ held[w].task = Mine(w) /\ held[x].task = Mine(x)
      /\ Mine(w) \in Tasks /\ Mine(x) \in Tasks
  BY DEF Ticketed, Repaired, PoolNamed, TurnsNamed, TurnNamed, AtWork, Mine
<1>2. Owns(w) /\ Owns(x)
  BY <1>1, QueueConstants DEF Ticketed, TicketGood
<1>3. QED
  BY <1>1, <1>2, OwnersDiffer

\* The candidates of a task change when a worker promotes one, only.
LEMMA CandidateSteps ==
    ASSUME PoolNamed, [PoolNext]_everything, NEW t \in Tasks
    PROVE  \/ CandidatesOf(t)' = CandidatesOf(t)
           \/ \E w \in Workers :
                /\ PromoteCandidate(w) /\ turn[w].at = "coding" /\ t = Mine(w)
                /\ CandidatesOf(t)' = CandidatesOf(t) \cup {Len(main) + 1}
<1>1. CASE main' = main
  BY <1>1 DEF CandidatesOf, Commits
<1>2. ASSUME NEW w \in Workers, PromoteCandidate(w)
      PROVE  \/ CandidatesOf(t)' = CandidatesOf(t)
             \/ /\ t = Mine(w)
                /\ CandidatesOf(t)' = CandidatesOf(t) \cup {Len(main) + 1}
  <2>1. /\ Len(main) \in Nat /\ Commits' = Commits \cup {Len(main) + 1}
        /\ \A i \in Commits : main'[i] = main[i]
        /\ main'[Len(main) + 1].of = Mine(w) /\ main'[Len(main) + 1].undoes = 0
    BY <1>2, PromotionAppends
  <2>2. CASE t = Mine(w)
    BY <2>1, <2>2 DEF CandidatesOf
  <2>3. CASE t # Mine(w)
    BY <2>1, <2>3 DEF CandidatesOf
  <2>4. QED
    BY <2>2, <2>3
<1>3. ASSUME NEW v \in Verifiers, RevertPromoted(v)
      PROVE  CandidatesOf(t)' = CandidatesOf(t)
  <2>1. /\ Len(main) \in Nat /\ Commits' = Commits \cup {Len(main) + 1}
        /\ \A i \in Commits : main'[i] = main[i]
        /\ main'[Len(main) + 1].undoes # 0
    BY <1>3, RevertAppends
  <2>2. QED
    BY <2>1 DEF CandidatesOf
<1>4. QED
  BY <1>1, <1>2, <1>3, MainWrites DEF PromoteCandidate

\* What is reverted was so before, or is what a verifier reverts.
LEMMA RevertSteps ==
    ASSUME PoolNamed, RevertsLookBack, [PoolNext]_everything, NEW t \in Tasks,
           NEW i \in CandidatesOf(t)', Reverted(i)'
    PROVE  \/ Reverted(i) /\ i \in CandidatesOf(t)
           \/ \E v \in Verifiers :
                /\ RevertPromoted(v) /\ check[v].at = "failed"
                /\ i = PromotedCommit(check[v].snap) /\ i \in CandidatesOf(t)
<1>1. CASE main' = main
  BY <1>1 DEF CandidatesOf, Commits, Reverted
<1>2. ASSUME NEW w \in Workers, PromoteCandidate(w)
      PROVE  Reverted(i) /\ i \in CandidatesOf(t)
  <2>1. /\ Len(main) \in Nat /\ Commits' = Commits \cup {Len(main) + 1}
        /\ \A j \in Commits : main'[j] = main[j]
        /\ main'[Len(main) + 1].undoes = 0
    BY <1>2, PromotionAppends
  <2>2. PICK j \in Commits : main[j].undoes = i /\ i # 0
    BY <2>1 DEF Reverted
  <2>3. i < j /\ j \in 1 .. Len(main) /\ i \in Commits'
    BY <2>2 DEF RevertsLookBack, CandidatesOf, Commits
  <2>4. i \in Commits
    BY <2>1, <2>3 DEF Commits
  <2>5. QED
    BY <2>1, <2>2, <2>4 DEF Reverted, CandidatesOf
<1>3. ASSUME NEW v \in Verifiers, RevertPromoted(v)
      PROVE  \/ Reverted(i) /\ i \in CandidatesOf(t)
             \/ i = PromotedCommit(check[v].snap) /\ i \in CandidatesOf(t)
  <2>1. /\ Len(main) \in Nat /\ Commits' = Commits \cup {Len(main) + 1}
        /\ \A j \in Commits : main'[j] = main[j]
        /\ main'[Len(main) + 1].undoes = PromotedCommit(check[v].snap)
        /\ PromotedCommit(check[v].snap) # 0
    BY <1>3, RevertAppends
  <2>2. i \in CandidatesOf(t)
    BY <2>1 DEF CandidatesOf
  <2>3. QED
    BY <2>1, <2>2 DEF Reverted
<1>4. QED
  BY <1>1, <1>2, <1>3, MainWrites DEF RevertPromoted

\* A recorded promotion is forgotten only by a coding turn that ends without
\* one or does not see its own, and by a repair.
LEMMA WhoUnrecords ==
    ASSUME PoolNamed, [PoolNext]_everything, NEW t \in Tasks,
           prop'[t].status \in QueueStatuses, prop[t].status \notin QueueStatuses
    PROVE  \/ \E w \in Workers : turn[w].at = "coding" /\ t = Mine(w)
           \/ \E w \in Workers : PromotionUnseen(w) /\ t = Mine(w)
           \/ \E v \in Verifiers : RecordRepair(v)
<1> USE ProposalFacts DEF PropOnly
<1>1. ASSUME NEW u \in Tasks, ReconcilePromotedCommit(u) PROVE FALSE
  BY <1>1, ReconciledRow
<1>2. ASSUME NEW w \in Workers, NEW status \in {"implementation_paused", "archived_failed"},
             CodingEnds(w, status)
      PROVE  turn[w].at = "coding" /\ t = Mine(w)
  BY <1>2, CodingEndsRow DEF CodingEnds
<1>3. ASSUME NEW w \in Workers, RecordPromotion(w) PROVE FALSE
  BY <1>3, RecordPromotionRow
<1>4. ASSUME NEW w \in Workers, ParkProposal(w) PROVE FALSE
  BY <1>4, ParkProposalRow
<1>5. ASSUME NEW v \in Verifiers,
             \/ RecordVerified(v) \/ RecordSyncPending(v) \/ RecordRecoveryPending(v)
             \/ RecordReverted(v) \/ RecordTerminal(v) \/ RecordGitSynced(v)
      PROVE  FALSE
  <2>1. {"verification_failure_recovery_pending", "verification_failure_reverted",
         "reverted_verification_failure"} \cap QueueStatuses = {}
    BY DEF QueueStatuses
  <2>2. QED
    BY <1>5, <2>1, VerifierRows
<1>6. ASSUME ReconcileGitStatuses PROVE FALSE
  BY <1>6, AncestryRow
<1>7. ASSUME NEW w \in Workers, PromotionUnseen(w) PROVE t = Mine(w)
  BY <1>7, PromotionUnseenRow
<1>8. QED
  BY <1>1, <1>2, <1>3, <1>4, <1>5, <1>6, <1>7, PropWrites DEF PropWrite

\* A worker that does not see its promotion works on a task without jobs.
LEMMA UnseenHasNoJobs ==
    ASSUME Sound, NEW w \in Workers, PromotionUnseen(w)
    PROVE  /\ NoJobs(Mine(w)) /\ job' = job /\ TurnStep(w)
           /\ turn[w].at = "committed" /\ phase = "turns"
BY DEF PromotionUnseen, TurnStep, Sound, TurnSound, Named, PoolNamed, TurnsNamed,
       TurnNamed, AtWork

LEMMA RecordedStays ==
    ASSUME Sound, [PoolNext]_everything, NEW t \in Tasks, Recorded(t),
           \A w \in Workers : PromotionUnseen(w) => t # Mine(w)
    PROVE  Recorded(t)'
<1>1. PoolNamed /\ (\A v \in Verifiers : ~RecordRepair(v))
  BY DEF Sound, Ticketed, Repaired, NoRepair, RecordRepair
<1>2. \A w \in Workers : turn[w].at = "coding" => t # Mine(w)
  BY DEF Sound, TurnSound, Recorded
<1>3. CandidatesOf(t)' # {}
  BY <1>1, RefsGrow DEF Recorded
<1>4. prop'[t].status \notin QueueStatuses
  BY <1>1, <1>2, WhoUnrecords DEF Recorded
<1>5. QED
  BY <1>3, <1>4 DEF Recorded

\* What is reverted altogether is not promoted again.
LEMMA AllRevertedStays ==
    ASSUME Sound, [PoolNext]_everything, NEW t \in Tasks, AllReverted(t)
    PROVE  AllReverted(t)'
<1>1. PoolNamed
  BY DEF Sound, Named
<1>2. CandidatesOf(t)' = CandidatesOf(t)
  BY <1>1, CandidateSteps DEF Sound, TurnSound, AllReverted
<1>3. \A i : Reverted(i) => Reverted(i)'
  BY <1>1, MainOnlyGrows, MainGrows DEF PoolNamed
<1>4. QED
  BY <1>2, <1>3 DEF AllReverted

\* Jobs stay, and who queues the first of a task.
LEMMA JobsAppear ==
    ASSUME Sound, [PoolNext]_everything, NEW t \in Tasks
    PROVE  /\ ~NoJobs(t) => ~NoJobs(t)'
           /\ NoJobs(t) /\ ~NoJobs(t)' =>
                 \/ EnqueueReconciledJob /\ t = sync.t
                 \/ \E w \in Workers : HandOff(w) /\ t = Mine(w)
<1>1. PoolNamed /\ (\A v \in Verifiers : CheckNamed(v))
  BY DEF Sound, Named, PoolNamed, ChecksNamed
<1>2. ASSUME NEW k \in Kinds, job[t][k].status # "absent"
      PROVE  job'[t][k].status # "absent"
  BY <1>1, <1>2, JobSteps DEF JobKept, JobQueued, Finishes
<1>3. ASSUME NEW k \in Kinds, NoJobs(t), job'[t][k].status # "absent"
      PROVE  \/ EnqueueReconciledJob /\ t = sync.t
             \/ \E w \in Workers : HandOff(w) /\ t = Mine(w)
  <2>1. job[t][k].status = "absent"
    BY <1>3 DEF NoJobs
  <2>2. ASSUME NEW v \in Verifiers, t = Its(v) PROVE ~AtCheck(v)
    BY <1>3, <2>2 DEF Sound, CheckSound
  <2>3. ASSUME NEW v \in Verifiers, QueueGitSync(v) PROVE t # Its(v)
    BY <2>2, <2>3 DEF QueueGitSync, AtCheck
  <2>4. ASSUME NEW v \in Verifiers, NEW status, NEW taskStatus,
               Finishes(v, status, taskStatus)
        PROVE  t # Its(v)
    BY <1>1, <2>2, <2>4, IdleThreadsTyped, QueueConstants
       DEF Finishes, FinishVerificationJob, CheckNamed, Its
  <2>5. QED
    BY <1>1, <1>3, <2>1, <2>3, <2>4, JobSteps DEF JobKept, ClaimableJob
<1>4. QED
  BY <1>2, <1>3 DEF NoJobs

LEMMA JobsAppearForTheRecorded ==
    ASSUME Sound, [PoolNext]_everything, NEW t \in Tasks, NoJobs(t), ~NoJobs(t)'
    PROVE  Recorded(t)
<1>1. CASE EnqueueReconciledJob /\ t = sync.t
  BY <1>1 DEF EnqueueReconciledJob, Sound, SyncSound
<1>2. ASSUME NEW w \in Workers, HandOff(w), t = Mine(w) PROVE Recorded(t)
  BY <1>2 DEF HandOff, Sound, TurnSound
<1>3. QED
  BY <1>1, <1>2, JobsAppear

----------------------------------------------------------------------------
(* The tasks.                                                              *)

LEMMA CandidateStaysOne ==
    ASSUME Sound, [PoolNext]_everything, NEW t \in Tasks PROVE OneCandidate(t)'
<1>1. PoolNamed /\ OneCandidate(t)
  BY DEF Sound, Named, TaskSound
<1>2. CASE CandidatesOf(t)' = CandidatesOf(t)
  BY <1>1, <1>2 DEF OneCandidate
<1>3. ASSUME NEW w \in Workers, turn[w].at = "coding", t = Mine(w),
             CandidatesOf(t)' = CandidatesOf(t) \cup {Len(main) + 1}
      PROVE  OneCandidate(t)'
  BY <1>3 DEF OneCandidate, Sound, TurnSound
<1>4. QED
  BY <1>1, <1>2, <1>3, CandidateSteps

LEMMA JobsStayRecorded ==
    ASSUME Sound, [PoolNext]_everything, NEW t \in Tasks
    PROVE  (NoJobs(t) \/ Recorded(t))'
<1>1. NoJobs(t) \/ Recorded(t)
  BY DEF Sound, TaskSound
<1>2. ASSUME NEW w \in Workers, PromotionUnseen(w), t = Mine(w) PROVE NoJobs(t)'
  BY <1>2, UnseenHasNoJobs DEF NoJobs
<1>3. QED
  BY <1>1, <1>2, RecordedStays, JobsAppearForTheRecorded

\* A verifier is at work on a task whose promotion is recorded.
LEMMA CheckedIsRecorded ==
    ASSUME Sound, NEW v \in Verifiers, AtCheck(v)
    PROVE  Its(v) \in Tasks /\ Recorded(Its(v))
<1>1. Its(v) \in Tasks /\ ~NoJobs(Its(v))
  BY DEF Sound, Named, PoolNamed, ChecksNamed, CheckNamed, CheckSound
<1>2. QED
  BY <1>1 DEF Sound, TaskSound

LEMMA PromotedStayInMain ==
    ASSUME Sound, [PoolNext]_everything, NEW t \in Tasks, SaysPromoted(prop'[t].status)
    PROVE  CandidatesOf(t)' # {}
<1>1. PoolNamed /\ PoolNamed' /\ (SaysPromoted(prop[t].status) => CandidatesOf(t) # {})
  BY PoolStaysNamed DEF Sound, Named, TaskSound
<1>2. CandidatesOf(t) \subseteq CandidatesOf(t)'
  BY <1>1, RefsGrow
<1> USE ProposalFacts DEF PropOnly
<1>3. CASE prop'[t].status = prop[t].status
  BY <1>1, <1>2, <1>3
<1>4. ASSUME NEW u \in Tasks, ReconcilePromotedCommit(u), t = u
      PROVE  CandidatesOf(t) # {}
  BY <1>1, <1>4, ReconciledRow
<1>5. ASSUME NEW w \in Workers, NEW status \in {"implementation_paused", "archived_failed"},
             CodingEnds(w, status)
      PROVE  t # Mine(w)
  BY <1>1, <1>5, CodingEndsRow DEF SaysPromoted
<1>6. ASSUME NEW w \in Workers, RecordPromotion(w), t = Mine(w)
      PROVE  CandidatesOf(t) # {}
  BY <1>6 DEF RecordPromotion, Sound, Named, TurnRefs
<1>7. ASSUME NEW w \in Workers, ParkProposal(w) PROVE t # Mine(w)
  BY <1>1, <1>7, ParkProposalRow DEF SaysPromoted
<1>8. ASSUME NEW v \in Verifiers, AtCheck(v), t = Its(v) PROVE CandidatesOf(t) # {}
  BY <1>8, CheckedIsRecorded DEF Recorded
<1>9. ASSUME ReconcileGitStatuses, prop'[t].status # prop[t].status
      PROVE  CandidatesOf(t)' # {}
  <2>1. prop'[t].cand \in Commits /\ main' = main /\ prop'[t].cand \in Refs(t)'
    BY <1>1, <1>9, AncestryRow, NamedIsInductive DEF Sound, Named, PropRefs
  <2>2. prop'[t].cand \in CandidatesOf(t)
    BY <1>1, <2>1, RefsInMain DEF Refs, CandidatesOf, Commits
  <2>3. QED
    BY <1>2, <2>2
<1>10. CASE prop'[t].status # prop[t].status
  <2>1. ASSUME NEW u \in Tasks, ReconcilePromotedCommit(u), t # u PROVE FALSE
    BY <1>1, <1>10, <2>1, ReconciledRow
  <2>2. ASSUME NEW w \in Workers,
               \/ /\ t # Mine(w)
                  /\ \/ \E status \in {"implementation_paused", "archived_failed"} :
                           CodingEnds(w, status)
                     \/ RecordPromotion(w) \/ ParkProposal(w)
               \/ PromotionUnseen(w)
        PROVE  FALSE
    BY <1>1, <1>10, <2>2, CodingEndsRow, RecordPromotionRow, PromotionUnseenRow,
       ParkProposalRow DEF SaysPromoted
  <2>3. ASSUME NEW v \in Verifiers,
               \/ RecordVerified(v) \/ RecordSyncPending(v) \/ RecordRecoveryPending(v)
               \/ RecordReverted(v) \/ RecordTerminal(v) \/ RecordGitSynced(v)
               \/ RecordRepair(v)
        PROVE  AtCheck(v) /\ t = Its(v)
    <3>1. AtCheck(v)
      BY <2>3 DEF RecordVerified, RecordSyncPending, RecordRecoveryPending,
         RecordReverted, RecordTerminal, RecordGitSynced, RecordRepair, AtCheck
    <3>2. t = Its(v)
      BY <1>1, <1>10, <2>3, VerifierRows, RecordRepairRow
    <3>3. QED
      BY <3>1, <3>2
  <2>4. QED
    BY <1>1, <1>2, <1>4, <1>5, <1>6, <1>7, <1>8, <1>9, <1>10, <2>1, <2>2, <2>3, PropWrites
       DEF PropWrite
<1>11. QED
  BY <1>3, <1>10

LEMMA RecoveredStayReverted ==
    ASSUME Sound, [PoolNext]_everything, NEW t \in Tasks,
           prop'[t].recovered \/ SaysReverted(prop'[t].status)
    PROVE  AllReverted(t)'
<1>1. /\ PoolNamed
      /\ prop[t].recovered \/ SaysReverted(prop[t].status) => AllReverted(t)
      /\ \A v \in Verifiers : ~RecordRepair(v)
  BY DEF Sound, Named, TaskSound, Ticketed, NoRepair, RecordRepair
<1> USE ProposalFacts DEF PropOnly
<1> DEFINE kept == /\ prop'[t].recovered => prop[t].recovered
                   /\ SaysReverted(prop'[t].status) => SaysReverted(prop[t].status)
           Good == kept \/ AllReverted(t)
<1>2. prop' = prop => Good
  OBVIOUS
<1>3. ASSUME NEW u \in Tasks, ReconcilePromotedCommit(u) PROVE Good
  BY <1>1, <1>3, ReconciledRow DEF SaysReverted, Pending
<1>4. ASSUME NEW w \in Workers, NEW status \in {"implementation_paused", "archived_failed"},
             CodingEnds(w, status)
      PROVE  Good
  BY <1>1, <1>4, CodingEndsRow DEF SaysReverted
<1>5. ASSUME NEW w \in Workers, RecordPromotion(w) \/ PromotionUnseen(w) PROVE Good
  BY <1>1, <1>5, RecordPromotionRow, PromotionUnseenRow DEF SaysReverted, Pending
<1>6. ASSUME NEW w \in Workers, ParkProposal(w) PROVE Good
  BY <1>1, <1>6, ParkProposalRow DEF SaysReverted, Parked
<1>7. ASSUME NEW v \in Verifiers, RecordVerified(v) \/ RecordSyncPending(v) PROVE Good
  <2>1. check[v].snap.recovered => AllReverted(Its(v))
    BY <1>7 DEF RecordVerified, RecordSyncPending, Sound, CheckSound, Read
  <2>2. QED
    BY <1>1, <1>7, <2>1, VerifierRows DEF SaysReverted, Pending
<1>8. ASSUME NEW v \in Verifiers, RecordRecoveryPending(v) PROVE Good
  BY <1>1, <1>8, VerifierRows DEF SaysReverted
<1>9. ASSUME NEW v \in Verifiers, RecordReverted(v) \/ RecordTerminal(v) PROVE Good
  <2>1. AllReverted(Its(v))
    BY <1>9 DEF RecordReverted, RecordTerminal, Sound, CheckSound
  <2>2. QED
    BY <1>1, <1>9, <2>1, VerifierRows
<1>10. ASSUME NEW v \in Verifiers, RecordGitSynced(v) PROVE Good
  BY <1>1, <1>10, VerifierRows DEF SaysReverted
<1>11. ASSUME ReconcileGitStatuses PROVE Good
  BY <1>1, <1>11, AncestryRow DEF SaysReverted
<1>12. Good
  <2>1. PropWrite => Good
    BY <1>1, <1>3, <1>4, <1>5, <1>6, <1>7, <1>8, <1>9, <1>10, <1>11 DEF PropWrite
  <2>2. QED
    BY <1>1, <1>2, <2>1, PropWrites
<1>13. AllReverted(t)
  BY <1>1, <1>12
<1>14. QED
  BY <1>13, AllRevertedStays

LEMMA RevertedKeepJobs ==
    ASSUME Sound, [PoolNext]_everything, NEW t \in Tasks, NEW i \in CandidatesOf(t)',
           Reverted(i)'
    PROVE  ~NoJobs(t)'
<1>1. PoolNamed /\ RevertsLookBack /\ TaskSound(t)
  BY DEF Sound, Named
<1>2. ASSUME NEW v \in Verifiers, check[v].at = "failed",
             i = PromotedCommit(check[v].snap), i \in CandidatesOf(t)
      PROVE  ~NoJobs(t)
  <2>1. /\ i \in Refs(Its(v)) /\ ~NoJobs(Its(v)) /\ i \in Commits
    BY <1>2 DEF Sound, Named, SnapRefs, PromotedCommit, CheckSound, AtCheck, CandidatesOf
  <2>2. i \in CandidatesOf(Its(v))
    BY <1>1, <2>1, RefsInMain
  <2>3. QED
    BY <1>2, <2>1, <2>2 DEF CandidatesOf
<1>3. ~NoJobs(t)
  BY <1>1, <1>2, RevertSteps DEF TaskSound
<1>4. QED
  BY <1>3, JobsAppear

\* A worker that has just promoted, or whose turn failed, is the only one to
\* move away from what it did.
LEMMA TurnKeepsAwaiting ==
    ASSUME Alone, PoolNamed, NEW w \in Workers, TurnStep(w), NEW t \in Tasks,
           prop'[t].status \in QueueStatuses,
           (\E x \in Workers : Awaits(x, t)) \/ Abandoned(t)
    PROVE  (\E x \in Workers : Awaits(x, t))' \/ Abandoned(t)'
<1>1. \A x \in Workers \ {w} : turn'[x] = turn[x]
  BY TurnFrame DEF PoolNamed
<1>2. ASSUME NEW x \in Workers, Awaits(x, t), x # w PROVE Awaits(x, t)'
  BY <1>1, <1>2 DEF Awaits, Mine
<1>3. ASSUME Awaits(w, t) PROVE Abandoned(t)'
  <2>1. ASSUME RecordPromotion(w) PROVE FALSE
    BY <1>3, <2>1, RecordPromotionRow, ProposalFacts DEF Awaits
  <2>2. \/ Fail(w) /\ Turns(w, turn[w].at, "failed")
        \/ /\ PromotionUnseen(w) /\ Turns(w, "committed", "result")
           /\ turn'[w].result = "implementation_paused"
    BY <1>3, <2>1, TurnMoves DEF Awaits, Turns
  <2>3. Faults
    BY <2>2 DEF Fail, PromotionUnseen
  <2>4. QED
    BY <1>3, <2>2, <2>3
       DEF Alone, Abandoned, Awaits, Turns, Mine, Retryable, QueueStatuses
<1>4. ASSUME Abandoned(t) PROVE Abandoned(t)'
  <2>1. /\ turn[w].at \in {"over", "failed", "park", "result"}
        /\ turn[w].at # "over" => Mine(w) = t
        /\ turn[w].at = "result" => Retryable(w)
    BY <1>4 DEF Abandoned
  <2>2. ASSUME ParkProposal(w) PROVE FALSE
    BY <2>1, <2>2, ParkProposalRow, ProposalFacts DEF ParkProposal
  <2>3. \/ RetryLater(w) \/ FailAgain(w)
        \/ ParkTask(w) /\ Turns(w, turn[w].at, "park")
        \/ Fail(w) /\ Turns(w, turn[w].at, "failed")
    <3>1. ~HandOff(w) /\ ~CompleteTurn(w)
      BY <2>1, ProposalFacts DEF HandOff, CompleteTurn, Retryable
    <3>2. QED
      BY <2>1, <2>2, <3>1, TurnMoves DEF Turns, AtWork
  <2>4. EndTurn(w, "over") => turn'[w].at = "over"
    BY EndTurnRow DEF PoolNamed
  <2>5. \/ turn'[w].at = "over"
        \/ /\ turn'[w].at \in {"failed", "park"} /\ turn'[w].task = turn[w].task
           /\ turn[w].at # "over"
    BY <2>1, <2>3, <2>4 DEF RetryLater, FailAgain, ParkTask, Fail, Turns
  <2>6. ASSUME NEW x \in Workers
        PROVE  \/ turn'[x].at = "over"
               \/ /\ turn'[x].task = t
                  /\ \/ turn'[x].at \in {"failed", "park"}
                     \/ turn'[x].at = "result" /\ turn'[x].result \in QueueStatuses
    BY <1>1, <1>4, <2>1, <2>5, <2>6 DEF Abandoned, Mine, Retryable
  <2>7. QED
    BY <1>4, <2>6 DEF Abandoned, Mine, Retryable
<1>5. QED
  BY <1>2, <1>3, <1>4

LEMMA SyncKeepsAwaiting ==
    ASSUME PoolNamed, SyncStep, NEW t \in Tasks, prop'[t].status \in QueueStatuses,
           sync.at # "enqueue", t \in sync.todo
    PROVE  phase' = "sync" /\ sync'.at # "enqueue" /\ t \in sync'.todo
<1>1. phase = "sync" /\ sync \in SyncState
  BY SyncFrame DEF PoolNamed, PoolTypeOK
<1>2. ASSUME NEW u \in Tasks, ReconcilePromotedCommit(u)
      PROVE  phase' = "sync" /\ sync'.at # "enqueue" /\ t \in sync'.todo
  <2>1. u # t
    BY <1>2, ReconciledRow, ProposalFacts
  <2>2. QED
    BY <1>1, <1>2, <2>1 DEF ReconcilePromotedCommit, SyncUnchanged
<1>3. CASE EnqueuePromoted \/ CompletePromoted \/ EnqueueReconciledJob
  <2>1. PICK at \in {"reconcile", "complete", "enqueue_job"} :
           sync' = [sync EXCEPT !.at = at]
    BY <1>3 DEF EnqueuePromoted, CompletePromoted, EnqueueReconciledJob
  <2>2. sync'.at = at /\ sync'.todo = sync.todo
    BY <1>1, <2>1 DEF SyncState
  <2>3. QED
    BY <1>1, <1>3, <2>2
       DEF EnqueuePromoted, CompletePromoted, EnqueueReconciledJob, SyncUnchanged
<1>4. QED
  BY <1>2, <1>3 DEF SyncStep, EndReconcile, EnqueueProposal, EndSync

LEMMA UnrecordedStayAwaited ==
    ASSUME Alone, Sound, [PoolNext]_everything, NEW t \in Tasks
    PROVE  UnrecordedAwaits(t)'
<1> DEFINE awaited == (\E w \in Workers : Awaits(w, t)) \/ Abandoned(t)
<1>1. PoolNamed /\ UnrecordedAwaits(t)
  BY DEF Sound, Named, TaskSound
<1>2. SUFFICES ASSUME CandidatesOf(t)' # {}, prop'[t].status \in QueueStatuses
               PROVE  /\ phase' = "sync" => sync'.at # "enqueue" /\ t \in sync'.todo
                      /\ phase' = "turns" => awaited'
  BY DEF UnrecordedAwaits, Unrecorded
<1>3. ASSUME NEW w \in Workers, PromotionUnseen(w), t = Mine(w)
      PROVE  phase' = "turns" /\ Abandoned(t)'
  <2>1. Awaits(w, t) /\ phase = "turns" /\ TurnStep(w)
    BY <1>3, UnseenHasNoJobs DEF Awaits
  <2>2. \A x \in Workers : ~Awaits(x, t)'
    <3>1. Faults /\ turn'[w].at = "result"
      BY <1>1, <1>3, <2>1 DEF PromotionUnseen, PoolNamed, PoolTypeOK, Turn
    <3>2. QED
      BY <3>1 DEF Alone, Awaits
  <2>3. QED
    BY <1>1, <1>2, <2>1, <2>2, TurnKeepsAwaiting, TurnFrame
<1>4. ASSUME NEW w \in Workers, PromoteCandidate(w), t = Mine(w)
      PROVE  phase' = "turns" /\ Awaits(w, t)'
  <2>1. TurnStep(w) /\ turn[w].at = "coding"
    BY <1>4 DEF TurnStep, PromoteCandidate
  <2>2. turn'[w].at = "committed" /\ turn'[w].task = turn[w].task
    BY <1>1, <1>4 DEF PromoteCandidate, PoolNamed, PoolTypeOK, Turn
  <2>3. QED
    BY <1>1, <1>4, <2>1, <2>2, TurnFrame
       DEF Awaits, Mine, PoolNamed, TurnsNamed, TurnNamed, AtWork
<1>5. CASE CandidatesOf(t) = {}
  BY <1>1, <1>2, <1>4, <1>5, CandidateSteps
<1>6. CASE /\ CandidatesOf(t) # {}
           /\ \A w \in Workers : PromotionUnseen(w) => t # Mine(w)
  <2>1. /\ prop[t].status \in QueueStatuses
        /\ phase = "sync" => sync.at # "enqueue" /\ t \in sync.todo
        /\ phase = "turns" => awaited
    <3>1. ~Recorded(t)
      BY <1>2, <1>6, RecordedStays DEF Recorded
    <3>2. QED
      BY <1>1, <1>6, <3>1 DEF UnrecordedAwaits, Unrecorded, Recorded
  <2>2. CASE UNCHANGED <<phase, sync, turn>>
    BY <2>1, <2>2 DEF Awaits, Abandoned, Mine, Retryable
  <2>3. ASSUME NEW p \in Pids, BeginIteration(p)
        PROVE  phase' = "sync" /\ sync'.at # "enqueue" /\ t \in sync'.todo
    BY <1>6, <2>1, <2>3 DEF BeginIteration, IdleSync
  <2>4. CASE SyncStep
    BY <1>1, <1>2, <2>1, <2>4, SyncKeepsAwaiting, SyncFrame
  <2>5. ASSUME NEW w \in Workers, TurnStep(w)
        PROVE  /\ phase' = "sync" => sync'.at # "enqueue" /\ t \in sync'.todo
               /\ phase' = "turns" => awaited'
    BY <1>1, <1>2, <2>1, <2>5, TurnFrame, TurnKeepsAwaiting
  <2>6. CASE EndIteration \/ Crash
    BY <1>1, <2>6, EndIsClean
  <2>7. QED
    BY <1>1, <2>2, <2>3, <2>4, <2>5, <2>6, StepKinds, CheckFrame
       DEF ReconcileGitStatuses, everything, poolvars
<1>7. QED
  BY <1>3, <1>5, <1>6

LEMMA TaskStaysSound ==
    ASSUME Alone, Sound, [PoolNext]_everything, NEW t \in Tasks PROVE TaskSound(t)'
BY CandidateStaysOne, JobsStayRecorded, PromotedStayInMain, RecoveredStayReverted,
   RevertedKeepJobs, UnrecordedStayAwaited DEF TaskSound

----------------------------------------------------------------------------
(* The threads and the synchronisation.                                    *)

\* Work on a proposal begins when nothing of it is in main.
LEMMA CodingStartsFresh ==
    ASSUME Alone, Sound, NEW w \in Workers, turn[w].at = "dispatch",
           prop[Mine(w)].status \in QueueStatuses
    PROVE  CandidatesOf(Mine(w)) = {}
<1>1. Mine(w) \in Tasks /\ phase = "turns" /\ UnrecordedAwaits(Mine(w))
  BY DEF Sound, Named, PoolNamed, TurnsNamed, TurnNamed, AtWork, Mine, TaskSound
<1>2. ASSUME NEW x \in Workers, Awaits(x, Mine(w)) PROVE FALSE
  <2>1. x = w
    BY <1>2, OneWorkerPerTask DEF Sound, Awaits
  <2>2. QED
    BY <1>2, <2>1 DEF Awaits
<1>3. ~Abandoned(Mine(w))
  BY DEF Abandoned
<1>4. QED
  BY <1>1, <1>2, <1>3 DEF UnrecordedAwaits, Unrecorded

LEMMA TurnStaysSound ==
    ASSUME Alone, Sound, [PoolNext]_everything, NEW w \in Workers PROVE TurnSound(w)'
<1>1. /\ PoolNamed /\ PoolNamed' /\ Ticketed /\ TurnSound(w)
      /\ \A t \in Tasks : TaskSound(t)
  BY PoolStaysNamed DEF Sound, Named
<1>2. SUFFICES ASSUME NEW t \in Tasks, t = Mine(w)'
               PROVE  /\ turn'[w].at = "coding" => CandidatesOf(t)' = {}
                      /\ turn'[w].at = "committed" => NoJobs(t)'
                      /\ turn'[w].at = "result" /\ turn'[w].result = Pending =>
                            Recorded(t)'
  <2>1. turn'[w].at \in {"coding", "committed", "result"} => Mine(w)' \in Tasks
    BY <1>1 DEF PoolNamed, TurnsNamed, TurnNamed, AtWork, Mine
  <2>2. QED
    BY <1>2, <2>1 DEF TurnSound, CandidatesOf, NoJobs, Recorded
<1>3. CASE ~TurnStep(w)
  <2>1. CASE turn'[w] = IdleTurn
    BY <2>1, IdleThreadsTyped
  <2>2. CASE turn'[w] = turn[w]
    <3>1. t = Mine(w)
      BY <1>2, <2>2 DEF Mine
    <3>2. ASSUME turn[w].at = "coding" PROVE CandidatesOf(t)' = {}
      <4>1. \A x \in Workers : PromoteCandidate(x) => Mine(x) # t
        BY <1>1, <1>3, <3>1, <3>2, OneWorkerPerTask DEF TurnStep, PromoteCandidate
      <4>2. QED
        BY <1>1, <3>1, <3>2, <4>1, CandidateSteps DEF TurnSound
    <3>3. ASSUME turn[w].at = "committed" PROVE NoJobs(t)'
      <4>1. \A x \in Workers : HandOff(x) => Mine(x) # t
        BY <1>1, <1>3, <3>1, <3>3, OneWorkerPerTask DEF TurnStep, HandOff
      <4>2. ~EnqueueReconciledJob
        BY <1>1, <3>3 DEF EnqueueReconciledJob, PoolNamed, TurnsNamed, TurnNamed, AtWork
      <4>3. QED
        BY <1>1, <3>1, <3>3, <4>1, <4>2, JobsAppear DEF TurnSound
    <3>4. ASSUME turn[w].at = "result", turn[w].result = Pending PROVE Recorded(t)'
      <4>1. \A x \in Workers : PromotionUnseen(x) => Mine(x) # t
        BY <1>1, <1>3, <3>1, <3>4, OneWorkerPerTask DEF TurnStep, PromotionUnseen
      <4>2. QED
        BY <1>1, <3>1, <3>4, <4>1, RecordedStays DEF TurnSound
    <3>5. QED
      BY <2>2, <3>2, <3>3, <3>4
  <2>3. QED
    BY <1>1, <1>3, <2>1, <2>2, WorkerStays
<1>4. CASE TurnStep(w)
  <2>1. CASE Dispatch(w) /\ t = Mine(w)
    <3>1. /\ turn'[w].at = "coding" => prop[t].status \in QueueStatuses
          /\ turn'[w].result = prop[t].status /\ turn'[w].at # "committed"
          /\ CandidatesOf(t)' = CandidatesOf(t) /\ turn[w].at = "dispatch"
          /\ prop' = prop
      <4>1. turn[w] \in Turn /\ turn \in [Workers -> Turn]
        BY <1>1 DEF PoolNamed, PoolTypeOK
      <4>2. /\ turn'[w].at = (IF prop[t].status \in QueueStatuses
                              THEN "coding" ELSE "result")
            /\ turn'[w].result = prop[t].status
        BY <2>1, <4>1 DEF Dispatch, Turn
      <4>3. QED
        BY <2>1, <4>2 DEF Dispatch, CandidatesOf, Commits
    <3>2. turn'[w].at = "coding" => CandidatesOf(t)' = {}
      BY <2>1, <3>1, CodingStartsFresh
    <3>3. turn'[w].result = Pending => Recorded(t)'
      BY <1>1, <3>1, ProposalFacts DEF TaskSound, SaysPromoted, Recorded, Pending, Parked
    <3>4. QED
      BY <3>1, <3>2, <3>3
  <2>2. CASE PromoteCandidate(w) /\ Turns(w, "coding", "committed")
    <3>1. t = Mine(w) /\ CandidatesOf(t) = {} /\ job' = job
      BY <1>1, <1>2, <2>2 DEF Turns, Mine, TurnSound, PromoteCandidate
    <3>2. NoJobs(t)'
      BY <1>1, <3>1 DEF TaskSound, Recorded, NoJobs
    <3>3. QED
      BY <2>2, <3>2 DEF Turns
  <2>3. CASE RecordPromotion(w) /\ Turns(w, "committed", "result")
    <3>1. t = Mine(w) /\ main' = main /\ turn[w].commit \in CandidatesOf(t)
      BY <1>2, <2>3 DEF Turns, Mine, RecordPromotion, Sound, Named, TurnRefs
    <3>2. prop'[t].status \notin QueueStatuses /\ CandidatesOf(t)' # {}
      BY <1>1, <2>3, <3>1, RecordPromotionRow, ProposalFacts DEF CandidatesOf, Commits
    <3>3. QED
      BY <2>3, <3>2 DEF Turns, Recorded
  <2>4. ASSUME NEW status \in {"implementation_paused", "archived_failed"},
               CodingEnds(w, status), Turns(w, "coding", "result"),
               turn'[w].result = status
        PROVE  turn'[w].at = "result" /\ turn'[w].result # Pending
    BY <2>4 DEF Turns, Pending
  <2>5. PromotionUnseen(w) => turn'[w].result # Pending
    BY <1>1 DEF PromotionUnseen, Pending, PoolNamed, PoolTypeOK, Turn
  <2>6. \/ Dispatch(w) /\ t = Mine(w)
        \/ PromoteCandidate(w) /\ Turns(w, "coding", "committed")
        \/ RecordPromotion(w) /\ Turns(w, "committed", "result")
        \/ turn'[w].at = "result" /\ turn'[w].result # Pending
        \/ turn'[w].at \notin {"coding", "committed", "result"}
    BY <1>1, <1>2, <1>4, <2>4, <2>5, TurnMoves DEF Turns, TurnEnds, Mine
  <2>7. QED
    BY <2>1, <2>2, <2>3, <2>6
<1>5. QED
  BY <1>3, <1>4

LEMMA CheckStaysSound ==
    ASSUME ~KeepRepairing, Sound, [PoolNext]_everything, NEW v \in Verifiers PROVE CheckSound(v)'
<1> DEFINE undone == {"reverted", "terminal", "terminal_recorded"}
<1>1. /\ PoolNamed /\ PoolNamed' /\ Ticketed /\ CheckSound(v) /\ ~check[v].allowed
      /\ \A t \in Tasks : TaskSound(t)
  BY PoolStaysNamed DEF Sound, Named, Ticketed, Repaired, AllowedFit
<1>2. SUFFICES ASSUME NEW t \in Tasks, t = Its(v)', AtCheck(v)'
               PROVE  /\ ~NoJobs(t)'
                      /\ check'[v].at \in Read /\ check'[v].snap.recovered =>
                            AllReverted(t)'
                      /\ check'[v].at \in undone => AllReverted(t)'
  <2>1. AtCheck(v)' => Its(v)' \in Tasks
    BY <1>1 DEF PoolNamed, ChecksNamed, CheckNamed
  <2>2. check'[v].at \in Read => AtCheck(v)'
    BY DEF Read, AtCheck
  <2>3. QED
    BY <1>2, <2>1, <2>2 DEF CheckSound, NoJobs, AllReverted, CandidatesOf, AtCheck
<1>3. /\ ~NoJobs(t) => ~NoJobs(t)'
      /\ AllReverted(t) => AllReverted(t)'
  BY JobsAppear, AllRevertedStays
<1>4. CASE ~CheckStep(v)
  BY <1>1, <1>2, <1>3, <1>4, VerifierStays, IdleThreadsTyped DEF CheckSound, AtCheck, Its
<1>5. CASE StartCheck(v)
  <2>1. PICK u \in Tasks, k \in Kinds :
           /\ checking' = [checking EXCEPT ![v] =
                                  [task |-> u, kind |-> k, token |-> minted + 1]]
           /\ job'[u][k].status = "claimed"
    BY <1>1, <1>5, ClaimJobRow DEF StartCheck, PoolNamed, PoolTypeOK
  <2>2. checking'[v].task = u
    BY <1>1, <2>1 DEF PoolNamed, PoolTypeOK, JobsTypeOK
  <2>3. check'[v].at = "claimed"
    BY <1>1, <1>5, MoveRow DEF StartCheck, PoolNamed, CheckStates
  <2>4. QED
    BY <1>2, <2>1, <2>2, <2>3 DEF NoJobs, Its, Read
<1>6. CASE CheckStep(v) /\ ~StartCheck(v)
  <2>1. AtCheck(v) /\ t = Its(v)
    BY <1>1, <1>2, <1>6, CheckMoves DEF Goes, AtCheck, Its
  <2>2. ~NoJobs(t)'
    BY <1>1, <1>3, <2>1 DEF CheckSound
  <2>3. CASE ReadProposal(v)
    <3>1. check'[v].at = "testing" /\ check'[v].snap = prop[t]
      BY <1>1, <2>1, <2>3 DEF ReadProposal, PoolNamed, PoolTypeOK, Check
    <3>2. QED
      BY <1>1, <1>3, <2>2, <3>1 DEF TaskSound
  <2>4. CASE RecoveredBefore(v) /\ Goes(v, "failed", "reverted")
    <3>1. CASE check[v].snap.recovered
      BY <1>1, <1>3, <2>1, <2>2, <2>4, <3>1 DEF CheckSound, Goes, Read
    <3>2. CASE Reverted(PromotedCommit(check[v].snap))
      <4>1. PICK i \in Refs(t) : i = PromotedCommit(check[v].snap)
        BY <2>1, <2>4 DEF Goes, Sound, Named, SnapRefs, PromotedCommit
      <4>2. PICK j \in Commits : i = main[j].undoes /\ i < j /\ i # 0
        BY <3>2, <4>1 DEF Reverted, Sound, RevertsLookBack
      <4>3. i \in 0 .. MaxCommits /\ j \in 1 .. Len(main) /\ Len(main) \in Nat
        <5>1. main \in Seq([of: Tasks, undoes: 0 .. MaxCommits])
          BY <1>1 DEF PoolNamed, PoolTypeOK
        <5>2. main[j] \in [of: Tasks, undoes: 0 .. MaxCommits]
          BY <4>2, <5>1, ElementOfSeq DEF Commits
        <5>3. QED
          BY <4>2, <5>1, <5>2 DEF Commits
      <4>4. i \in Commits
        BY <4>2, <4>3, PoolConstants DEF Commits
      <4>5. i \in CandidatesOf(t)
        BY <1>1, <4>1, <4>4, RefsInMain
      <4>6. AllReverted(t)
        BY <1>1, <3>2, <4>1, <4>5 DEF TaskSound, OneCandidate, AllReverted
      <4>7. QED
        BY <1>3, <2>2, <4>6
    <3>3. QED
      BY <2>4, <3>1, <3>2 DEF RecoveredBefore, AlreadyRecovered
  <2>5. CASE RevertPromoted(v) /\ Goes(v, "failed", "reverted")
    <3>1. PICK i \in Refs(t) : i = PromotedCommit(check[v].snap) /\ i \in Commits
      BY <2>1, <2>5 DEF Goes, Sound, Named, SnapRefs, PromotedCommit, RevertPromoted
    <3>2. i \in CandidatesOf(t)
      BY <1>1, <3>1, RefsInMain
    <3>3. /\ Len(main) \in Nat /\ Commits' = Commits \cup {Len(main) + 1} /\ i # 0
          /\ main'[Len(main) + 1].undoes = i
      BY <1>1, <2>5, <3>1, RevertAppends
    <3>4. Reverted(i)'
      BY <3>3 DEF Reverted
    <3>5. CandidatesOf(t)' = CandidatesOf(t)
      <4>1. \A w \in Workers : ~PromoteCandidate(w)
        BY <2>5, CheckFrame, <1>6, <1>1 DEF PromoteCandidate, PoolNamed, PoolTypeOK, Turn
      <4>2. QED
        BY <1>1, <4>1, CandidateSteps
    <3>6. i \in CandidatesOf(t)' /\ \A j \in CandidatesOf(t)' : j = i
      BY <1>1, <3>2, <3>5 DEF TaskSound, OneCandidate
    <3>7. QED
      BY <2>2, <3>4, <3>6 DEF AllReverted
  <2>6. CASE RecordReverted(v) \/ RecordTerminal(v)
    <3>1. check[v].at \in undone
      BY <2>6 DEF RecordReverted, RecordTerminal
    <3>2. QED
      BY <1>1, <1>3, <2>1, <2>2, <3>1 DEF CheckSound
  <2>7. CASE check'[v].at \notin undone /\ check'[v].snap = check[v].snap
             /\ (check'[v].at \in Read => check[v].at \in Read)
    BY <1>1, <1>3, <2>1, <2>2, <2>7 DEF CheckSound
  <2>8. QED
    BY <1>1, <1>2, <1>6, <2>2, <2>3, <2>4, <2>5, <2>6, <2>7, CheckMoves
       DEF Goes, Read, AtCheck
<1>7. QED
  BY <1>4, <1>5, <1>6

LEMMA SyncStaysSound ==
    ASSUME Sound, [PoolNext]_everything PROVE SyncSound'
<1> DEFINE on == {"enqueue_promoted", "complete", "enqueue_job"}
<1>1. PoolNamed /\ PoolNamed' /\ SyncSound /\ (sync.at \in on => sync.t \in Tasks)
      /\ sync \in SyncState
  BY PoolStaysNamed DEF Sound, Named, PoolNamed, SyncNamed, PoolTypeOK
<1>2. SUFFICES ASSUME sync'.at \in on
               PROVE  \E t \in Tasks : t = sync'.t /\ Recorded(t)'
  BY DEF SyncSound, Recorded, CandidatesOf
<1>3. CASE sync'.t = sync.t /\ sync.at \in on
  <2>1. phase = "sync"
    BY <1>1, <1>3, IdleThreadsTyped DEF PoolNamed, SyncNamed
  <2>2. QED
    BY <1>1, <1>3, <2>1, RecordedStays, UnseenHasNoJobs DEF SyncSound
<1>4. ASSUME NEW t \in Tasks, ReconcilePromotedCommit(t)
      PROVE  sync'.t = t /\ Recorded(t)'
  <2>1. prop'[t].status = Pending /\ CandidatesOf(t) # {} /\ sync'.t = t
    BY <1>1, <1>4, ReconciledRow DEF ReconcilePromotedCommit
  <2>2. CandidatesOf(t)' # {}
    BY <1>1, <2>1, RefsGrow
  <2>3. QED
    BY <2>1, <2>2, ProposalFacts DEF Recorded
<1>5. CASE SyncStep
  <2>1. CASE EnqueuePromoted \/ CompletePromoted
    <3>1. sync.at \in on /\ sync'.t = sync.t
      BY <1>1, <2>1 DEF EnqueuePromoted, CompletePromoted, SyncState
    <3>2. QED
      BY <1>3, <3>1
  <2>2. CASE \E t \in Tasks : ReconcilePromotedCommit(t)
    BY <1>4, <2>2
  <2>3. QED
    BY <1>1, <1>2, <1>5, <2>1, <2>2, IdleThreadsTyped
       DEF SyncStep, EnqueueReconciledJob, EndReconcile, EnqueueProposal, EndSync, SyncState
<1>6. CASE sync' = IdleSync
  BY <1>2, <1>6, IdleThreadsTyped
<1>7. ASSUME NEW p \in Pids, BeginIteration(p) PROVE FALSE
  BY <1>2, <1>7, IdleThreadsTyped DEF BeginIteration, IdleSync
<1>8. QED
  BY <1>1, <1>2, <1>3, <1>5, <1>6, <1>7, StepKinds, EndIsClean, TurnFrame, CheckFrame
     DEF ReconcileGitStatuses, everything, poolvars

----------------------------------------------------------------------------
(* The invariant and what follows from it.                                 *)

LEMMA SoundIsInductive ==
    ASSUME ~KeepRepairing, Alone, Sound, [PoolNext]_everything PROVE Sound'
<1>1. Undone'
  BY UndoneIsInductive DEF Undone, Sound, Named
<1>2. Ticketed' /\ Named'
  BY TicketedIsInductive, NamedIsInductive DEF Sound
<1>3. SyncSound' /\ \A t \in Tasks : TaskSound(t)'
  BY SyncStaysSound, TaskStaysSound
<1>4. /\ \A w \in Workers : TurnSound(w)'
      /\ \A v \in Verifiers : CheckSound(v)'
  BY TurnStaysSound, CheckStaysSound
<1>5. QED
  BY <1>1, <1>2, <1>3, <1>4 DEF Sound, Undone

LEMMA PoolStartsSound == ASSUME PoolInit PROVE Sound
<1>1. Commits = {} /\ \A t \in Tasks : CandidatesOf(t) = {}
  BY DEF PoolInit, Commits, CandidatesOf
<1>2. RevertsLookBack /\ RevertedOnce
  BY <1>1 DEF RevertsLookBack, RevertedOnce
<1>3. SyncSound /\ \A w \in Workers : TurnSound(w)
  BY IdleThreadsTyped DEF PoolInit, SyncSound, TurnSound
<1>4. ASSUME NEW v \in Verifiers PROVE CheckSound(v)
  BY <1>4, IdleThreadsTyped DEF PoolInit, CheckSound, AtCheck, Read
<1>5. ASSUME NEW t \in Tasks PROVE TaskSound(t)
  <2>1. prop[t].status = "proposed" /\ prop[t].recovered = FALSE
    BY <1>5 DEF PoolInit, NewProposal
  <2>2. NoJobs(t)
    BY <1>5 DEF PoolInit, JobsInit, NoJobs, NoJob
  <2>3. QED
    BY <1>1, <2>1, <2>2
       DEF TaskSound, OneCandidate, SaysPromoted, SaysReverted, UnrecordedAwaits,
           Unrecorded, QueueStatuses
<1>6. QED
  BY <1>2, <1>3, <1>4, <1>5, PoolStartsTicketed, PoolStartsWithNames DEF Sound

\* A verification that ended in failure for good left none of the failed code
\* running, although every write of the recovery may be the last before the
\* process is killed.
THEOREM TerminalCodeIsGone ==
    ASSUME ~KeepRepairing, Alone PROVE PoolSpec => []TerminalMeansReverted
<1>1. PoolInit => Sound
  BY PoolStartsSound
<1>2. Sound /\ [PoolNext]_everything => Sound'
  BY SoundIsInductive
<1>3. Sound => TerminalMeansReverted
  BY DEF Sound, TaskSound, SaysReverted, AllReverted, TerminalMeansReverted, InForce
<1>4. QED
  BY <1>1, <1>2, <1>3, PTL DEF PoolSpec

\* What is promoted and not recorded has no job, and has not been reverted.
LEMMA ReconciledIsInForce ==
    ASSUME Sound, [PoolNext]_everything, NEW t \in Tasks,
           prop[t].status \in QueueStatuses, prop'[t].status = Pending
    PROVE  \E i \in CandidatesOf(t)' : InForce(i)'
<1>1. PoolNamed /\ TaskSound(t)
  BY DEF Sound, Named
<1> USE ProposalFacts DEF PropOnly
<1>2. PropWrite
  BY PropWrites
<1>3. ASSUME NEW v \in Verifiers, AtCheck(v) PROVE t # Its(v)
  BY <1>3, CheckedIsRecorded DEF Recorded
<1>4. ASSUME NEW v \in Verifiers,
             \/ RecordVerified(v) \/ RecordSyncPending(v) \/ RecordRecoveryPending(v)
             \/ RecordReverted(v) \/ RecordTerminal(v) \/ RecordGitSynced(v)
             \/ RecordRepair(v)
      PROVE  FALSE
  <2>1. AtCheck(v) /\ t # Its(v)
    BY <1>3, <1>4
       DEF RecordVerified, RecordSyncPending, RecordRecoveryPending, RecordReverted,
           RecordTerminal, RecordGitSynced, RecordRepair, AtCheck
  <2>2. QED
    BY <1>1, <1>4, <2>1, VerifierRows, RecordRepairRow
<1>5. ASSUME NEW w \in Workers, NEW status \in {"implementation_paused", "archived_failed"},
             CodingEnds(w, status)
      PROVE  FALSE
  BY <1>1, <1>5, CodingEndsRow DEF Pending
<1>6. ASSUME NEW w \in Workers, ParkProposal(w) \/ PromotionUnseen(w) PROVE FALSE
  BY <1>1, <1>6, ParkProposalRow, PromotionUnseenRow DEF Pending, Parked
<1>7. ~ReconcileGitStatuses
  BY <1>1, AncestryRow DEF Pending, QueueStatuses
<1>8. ASSUME NEW u \in Tasks, ReconcilePromotedCommit(u)
      PROVE  main' = main /\ CandidatesOf(t) # {}
  BY <1>1, <1>8, ReconciledRow DEF ReconcilePromotedCommit, SyncUnchanged
<1>9. ASSUME NEW w \in Workers, RecordPromotion(w)
      PROVE  main' = main /\ CandidatesOf(t) # {}
  BY <1>1, <1>9, RecordPromotionRow DEF RecordPromotion, Sound, Named, TurnRefs
<1>10. main' = main /\ CandidatesOf(t) # {}
  BY <1>2, <1>4, <1>5, <1>6, <1>7, <1>8, <1>9 DEF PropWrite
<1>11. NoJobs(t)
  BY <1>1, <1>10 DEF TaskSound, Recorded
<1>12. PICK i \in CandidatesOf(t) : ~Reverted(i)
  BY <1>1, <1>10, <1>11 DEF TaskSound
<1>13. QED
  BY <1>10, <1>12 DEF InForce, Reverted, CandidatesOf, Commits

\* "Recover metadata when Git promotion won the race with a locked radar DB":
\* what the synchronisation takes for a promotion whose record was lost is
\* one, and not a commit that a verifier has reverted since.
THEOREM LostWritesAreReconciled ==
    ASSUME ~KeepRepairing, Alone PROVE PoolSpec => ReconcilesLostWrites
<1> DEFINE A == \A t \in Tasks :
                   prop[t].status \in QueueStatuses /\ prop'[t].status = Pending =>
                      (\E i \in CandidatesOf(t) : InForce(i))'
<1>1. PoolInit => Sound
  BY PoolStartsSound
<1>2. Sound /\ [PoolNext]_everything => Sound'
  BY SoundIsInductive
<1>3. Sound /\ [PoolNext]_everything => A
  BY ReconciledIsInForce
<1>4. Sound /\ [PoolNext]_everything => [A]_everything
  BY <1>3
<1>5. QED
  BY <1>1, <1>2, <1>4, PTL DEF PoolSpec, ReconcilesLostWrites

----------------------------------------------------------------------------
(* What is promoted has passed the regression.                             *)

\* No regression is missing for the code of a task that runs in main.
CodeTested(t) == \A i \in CandidatesOf(t) : InForce(i) => i \in tested

\* A verifier whose regression has passed.
HasPassed(v) ==
    check[v].at \in {"passed", "synced", "promoted", "unsynced", "sync_queued", "git_synced"}

\* Beside a promoted commit there is no other change in its worktree.
TreeFits(t) == \A i \in CandidatesOf(t) : worktree[t] \in {i, Removed}

CodeIsTested(t) ==
    prop[t].status = "promoted" \/ job[t]["git_sync"].status # "absent" =>
        CandidatesOf(t) # {} /\ CodeTested(t)

Examined ==
    /\ Sound
    /\ \A t \in Tasks : TreeFits(t) /\ CodeIsTested(t)
    /\ \A v \in Verifiers : HasPassed(v) => CodeTested(Its(v))
    /\ \A w \in Workers : turn[w].at = "committed" /\ ~Defer => turn[w].commit \in tested

LEMMA TestedStays == ASSUME PoolNamed, [PoolNext]_everything PROVE tested \subseteq tested'
BY TestWrites

\* No task gets a second commit, and none that was reverted comes back.
LEMMA CodeStaysTested ==
    ASSUME Sound, [PoolNext]_everything, NEW t \in Tasks, CandidatesOf(t) # {}, CodeTested(t)
    PROVE  CodeTested(t)'
<1>1. PoolNamed
  BY DEF Sound, Named
<1>2. CandidatesOf(t)' = CandidatesOf(t)
  BY <1>1, CandidateSteps DEF Sound, TurnSound
<1>3. \A i : Reverted(i) => Reverted(i)'
  BY <1>1, MainOnlyGrows, MainGrows DEF PoolNamed
<1>4. \A i \in CandidatesOf(t) : InForce(i)' => InForce(i)
  BY <1>3 DEF InForce, CandidatesOf
<1>5. QED
  BY <1>1, <1>2, <1>4, TestedStays DEF CodeTested

\* A worktree is edited for a task without commits, only.
LEMMA TreesStayFit ==
    ASSUME ~KeepRepairing, Alone, Sound, [PoolNext]_everything, NEW t \in Tasks, TreeFits(t)
    PROVE  TreeFits(t)'
<1>1. PoolNamed /\ worktree \in [Tasks -> CommitRefs]
  BY DEF Sound, Named, PoolNamed, PoolTypeOK
<1>2. ASSUME EditsTree(t) PROVE CandidatesOf(t)' = {}
  <2>1. \A v \in Verifiers : ~RecordRepair(v)
    BY DEF Sound, Ticketed, NoRepair, RecordRepair
  <2>2. PICK w \in Workers : /\ Dispatch(w) /\ turn[w].at = "dispatch" /\ t = Mine(w)
                             /\ prop[t].status \in QueueStatuses
    BY <1>2, <2>1 DEF EditsTree
  <2>3. CandidatesOf(t) = {}
    BY <2>2, CodingStartsFresh
  <2>4. QED
    BY <2>2, <2>3 DEF Dispatch, CandidatesOf, Commits
<1>3. ASSUME NEW w \in Workers, PromoteCandidate(w), t = Mine(w) PROVE TreeFits(t)'
  <2>1. CandidatesOf(t) = {}
    BY <1>3 DEF Sound, TurnSound, PromoteCandidate
  <2>2. CandidatesOf(t)' \subseteq {Len(main) + 1}
    BY <1>1, <2>1, CandidateSteps
  <2>3. worktree'[t] \in {Len(main) + 1, Removed}
    BY <1>1, <1>3 DEF PromoteCandidate
  <2>4. QED
    BY <2>2, <2>3 DEF TreeFits, Removed
<1>4. CASE \A w \in Workers : PromoteCandidate(w) => t # Mine(w)
  <2>1. CandidatesOf(t)' = CandidatesOf(t)
    BY <1>1, <1>4, CandidateSteps
  <2>2. worktree'[t] \in {worktree[t], Removed} \/ EditsTree(t)
    BY <1>1, <1>4, TreeWrites
  <2>3. QED
    BY <1>2, <2>1, <2>2 DEF TreeFits
<1>5. QED
  BY <1>3, <1>4

\* The worktree that a verifier finds holds what its task has in main, and
\* without one the regression is that of main.
LEMMA PassedIsTested ==
    ASSUME Sound, [PoolNext]_everything, NEW v \in Verifiers, RegressionPasses(v),
           TreeFits(Its(v)), Its(v) \in Tasks
    PROVE  CodeTested(Its(v))'
<1>1. main' = main /\ tested' = tested \cup InTree(v) /\ checking' = checking
  BY DEF RegressionPasses, jobvars
<1>2. ASSUME NEW i \in CandidatesOf(Its(v)), InForce(i) PROVE i \in InTree(v)
  BY <1>2 DEF RegressionPasses, TreeIsGone, TreeFits, InTree, CandidatesOf
<1>3. QED
  BY <1>1, <1>2 DEF CodeTested, CandidatesOf, InForce, Reverted, Commits, Its

\* What has passed is handed on from verifier to job to verifier.
LEMMA ChecksStayTested ==
    ASSUME ~KeepRepairing, Alone, Examined, [PoolNext]_everything, NEW v \in Verifiers,
           HasPassed(v)'
    PROVE  CodeTested(Its(v))'
<1>1. /\ Sound /\ PoolNamed /\ (AtCheck(v) => Its(v) \in Tasks /\ Recorded(Its(v)))
      /\ \A t \in Tasks : TreeFits(t) /\ CodeIsTested(t)
      /\ HasPassed(v) => CodeTested(Its(v))
  BY CheckedIsRecorded DEF Examined, Sound, Named
<1>2. ASSUME AtCheck(v), checking'[v] = checking[v], CodeTested(Its(v))
      PROVE  CodeTested(Its(v))'
  <2>1. PICK t \in Tasks : t = Its(v)
    BY <1>1, <1>2
  <2>2. CodeTested(t)' /\ Its(v)' = t
    BY <1>1, <1>2, <2>1, CodeStaysTested DEF Recorded, Its
  <2>3. QED
    BY <2>2 DEF CodeTested, CandidatesOf
<1>3. CASE ~CheckStep(v)
  <2>1. check'[v] = check[v] /\ checking'[v] = checking[v] /\ HasPassed(v)
    BY <1>1, <1>3, VerifierStays, IdleThreadsTyped DEF HasPassed
  <2>2. QED
    BY <1>1, <1>2, <2>1 DEF HasPassed, AtCheck
<1>4. CASE RegressionPasses(v)
  <2>1. AtCheck(v) /\ checking' = checking
    BY <1>4 DEF RegressionPasses, AtCheck, jobvars
  <2>2. QED
    BY <1>1, <1>4, <2>1, PassedIsTested
<1>5. CASE GitSyncs(v)
  <2>1. /\ check[v].at = "claimed" /\ checking[v].kind = "git_sync" /\ checking' = checking
    BY <1>5 DEF GitSyncs
  <2>2. AtCheck(v) /\ job[Its(v)]["git_sync"].status = "claimed"
    BY <2>1 DEF AtCheck, Examined, Sound, Ticketed, Repaired, JobTicketsHold,
       JobTicketHolds, Unfinished
  <2>3. QED
    BY <1>1, <1>2, <2>1, <2>2 DEF CodeIsTested
<1>6. CASE CheckStep(v) /\ ~RegressionPasses(v) /\ ~GitSyncs(v)
  <2>1. HasPassed(v) /\ checking'[v] = checking[v]
    BY <1>1, <1>6, CheckMoves DEF Goes, HasPassed
  <2>2. QED
    BY <1>1, <1>2, <2>1 DEF HasPassed, AtCheck
<1>7. QED
  BY <1>3, <1>4, <1>5, <1>6

LEMMA CodeIsTestedStays ==
    ASSUME ~KeepRepairing, Alone, ~Ancestry, Examined, [PoolNext]_everything, NEW t \in Tasks
    PROVE  CodeIsTested(t)'
<1>1. /\ Sound /\ PoolNamed /\ CodeIsTested(t)
      /\ CandidatesOf(t) \subseteq CandidatesOf(t)'
  BY RefsGrow DEF Examined, Sound, Named
<1>2. ASSUME NEW v \in Verifiers, HasPassed(v), t = Its(v)
      PROVE  CandidatesOf(t) # {} /\ CodeTested(t)
  BY <1>2, CheckedIsRecorded DEF HasPassed, AtCheck, Recorded, Examined
<1>3. ASSUME prop'[t].status = "promoted", prop[t].status # "promoted"
      PROVE  CandidatesOf(t) # {} /\ CodeTested(t)
  <2>1. ASSUME NEW v \in Verifiers, RecordVerified(v) \/ RecordGitSynced(v)
        PROVE  HasPassed(v)
    BY <2>1 DEF RecordVerified, RecordGitSynced, HasPassed
  <2>2. ASSUME NEW w \in Workers, RecordPromotion(w), ~Defer, t = Mine(w)
        PROVE  CandidatesOf(t) # {} /\ CodeTested(t)
    <3>1. turn[w].commit \in CandidatesOf(t) /\ turn[w].commit \in tested
      BY <2>2 DEF RecordPromotion, Examined, Sound, Named, TurnRefs
    <3>2. OneCandidate(t)
      BY <1>1 DEF Sound, TaskSound
    <3>3. QED
      BY <3>1, <3>2 DEF OneCandidate, CodeTested
  <2>3. QED
    BY <1>1, <1>2, <1>3, <2>1, <2>2, WhoPromotes
<1>4. ASSUME job'[t]["git_sync"].status # "absent", job[t]["git_sync"].status = "absent"
      PROVE  CandidatesOf(t) # {} /\ CodeTested(t)
  <2>1. "git_sync" \in Kinds /\ "git_sync" # "full_regression"
    BY DEF Kinds
  <2>2. ASSUME NEW v \in Verifiers, QueueGitSync(v) PROVE HasPassed(v)
    BY <2>2 DEF QueueGitSync, HasPassed
  <2>3. ASSUME NEW v \in Verifiers, t = Its(v), checking[v].kind = "git_sync"
        PROVE  HasPassed(v)
    <3>1. check[v].at \in {"claimed", "git_synced"}
      BY <1>1, <2>3 DEF PoolNamed, ChecksNamed, CheckNamed
    <3>2. check[v].at # "claimed"
      BY <1>4, <2>3 DEF Examined, Sound, Ticketed, Repaired, JobTicketsHold,
         JobTicketHolds, Unfinished
    <3>3. QED
      BY <3>1, <3>2 DEF HasPassed
  <2>4. QED
    BY <1>1, <1>2, <1>4, <2>1, <2>2, <2>3, JobSteps DEF JobKept, ClaimableJob
<1>5. QED
  BY <1>1, <1>3, <1>4, CodeStaysTested DEF CodeIsTested

LEMMA ExaminedIsInductive ==
    ASSUME ~KeepRepairing, Alone, ~Ancestry, Examined, [PoolNext]_everything
    PROVE  Examined'
<1>1. Sound /\ Sound' /\ PoolNamed
  BY SoundIsInductive DEF Examined, Sound, Named
<1>2. \A t \in Tasks : TreeFits(t)' /\ CodeIsTested(t)'
  BY <1>1, TreesStayFit, CodeIsTestedStays DEF Examined
<1>3. \A v \in Verifiers : HasPassed(v)' => CodeTested(Its(v))'
  BY ChecksStayTested
<1>4. ASSUME NEW w \in Workers, turn'[w].at = "committed", ~Defer
      PROVE  turn'[w].commit \in tested'
  <2>1. CASE PromoteCandidate(w)
    BY <1>1, <1>4, <2>1 DEF PromoteCandidate, PoolNamed, PoolTypeOK, Turn
  <2>2. CASE ~PromoteCandidate(w)
    <3>1. turn'[w] = turn[w]
      BY <1>1, <1>4, <2>2, WorkerStays, TurnMoves, IdleThreadsTyped DEF Turns, TurnEnds
    <3>2. QED
      BY <1>1, <1>4, <3>1, TestedStays DEF Examined
  <2>3. QED
    BY <2>1, <2>2
<1>5. QED
  BY <1>1, <1>2, <1>3, <1>4 DEF Examined

\* "Full regression is required before normal promotion": the code that runs
\* in main under a proposal recorded as promoted has passed it, whoever is
\* killed between the verdict, the push, the record and the end of the job.
THEOREM OnlyTestedCodeIsPromoted ==
    ASSUME ~KeepRepairing, ~Ancestry, Alone PROVE PoolSpec => []PromotedCodeIsTested
<1>1. PoolInit => Examined
  <2>1. SUFFICES ASSUME PoolInit PROVE Examined
    OBVIOUS
  <2>2. \A t \in Tasks : CandidatesOf(t) = {}
    BY <2>1 DEF PoolInit, CandidatesOf, Commits
  <2>3. \A t \in Tasks : CodeIsTested(t) /\ TreeFits(t)
    BY <2>1, <2>2
       DEF PoolInit, JobsInit, NewProposal, NoJob, Kinds, CodeIsTested, TreeFits
  <2>4. QED
    BY <2>1, <2>3, PoolStartsSound, IdleThreadsTyped DEF PoolInit, Examined, HasPassed
<1>2. Examined /\ [PoolNext]_everything => Examined'
  BY ExaminedIsInductive
<1>3. Examined => PromotedCodeIsTested
  BY DEF Examined, CodeIsTested, CodeTested, PromotedCodeIsTested
<1>4. QED
  BY <1>1, <1>2, <1>3, PTL DEF PoolSpec

----------------------------------------------------------------------------
(* When nothing is killed and nothing fails, and no report trusts Git's    *)
(* ancestry, the statuses of the proposals are those of the code in main.  *)

Undisturbed == ~KeepRepairing /\ ~Ancestry /\ ~Crashes /\ ~Faults

\* A promotion is recorded in the iteration that made it.  Its task is no
\* longer offered, and no claim outlives its worker's turn.
RowCalm(t) ==
    /\ Unrecorded(t) => phase = "turns"
    /\ CandidatesOf(t) # {} => task[t].status \notin Claimable
    /\ task[t].token # 0 => \E w \in Workers : held[w].task = t

\* What a worker gives up, or hands over, is as it found or recorded it.
TurnCalm(w) ==
    /\ turn[w].at # "failed"
    /\ turn[w].at \in {"dispatch", "exhausted", "park"} => CandidatesOf(Mine(w)) = {}
    /\ turn[w].at = "result" /\ turn[w].result \in QueueStatuses =>
          CandidatesOf(Mine(w)) = {}
    /\ turn[w].at = "result" /\ turn[w].result = Pending =>
          NoJobs(Mine(w)) /\ prop[Mine(w)].status = Pending
    /\ turn[w].at = "park" => task[Mine(w)].status = Parked /\ task[Mine(w)].by = Nobody

\* There is nothing to reconcile.
SyncCalm ==
    /\ sync.at \in {"reconcile", "enqueue"}
    /\ sync.at = "reconcile" => sync.todo = {}
    /\ \A t \in sync.todo : CandidatesOf(t) = {}

Git(t) == job[t]["git_sync"].status

\* The verifier that has the regression of a task under way.
Regresses(v, t) ==
    Its(v) = t /\ checking[v].kind = "full_regression" /\ check[v].at \in Unfinished

Failed(t) ==
    \/ Full(t) = "failed_terminal"
    \/ \E v \in Verifiers :
          Its(v) = t /\ check[v].at \in {"reverted", "terminal", "terminal_recorded"}

\* A commit is reverted only by the verification that ends the task, and a
\* proposal is not promoted before its verification is over.
JobCalm(t) ==
    /\ Git(t) # "absent" => Full(t) = "verified_pending_sync"
    /\ (\E i \in CandidatesOf(t) : Reverted(i)) => Failed(t)
    /\ prop[t].status = "promoted" =>
          /\ Full(t) \notin ClaimableJob \cup {"failed_terminal"}
          /\ \A v \in Verifiers : Regresses(v, t) => check[v].at = "promoted"
    /\ prop[t].status = "reverted_verification_failure" =>
          \/ Full(t) = "failed_terminal"
          \/ \E v \in Verifiers : Its(v) = t /\ check[v].at = "terminal_recorded"

CheckCalm(v) ==
    /\ check[v].at \in {"unsynced", "sync_queued"} =>
          Full(Its(v)) = "verified_pending_sync"
    /\ check[v].at = "git_synced" => Git(Its(v)) # "absent"

Calm == /\ Sound /\ SyncCalm
        /\ \A t \in Tasks : RowCalm(t) /\ JobCalm(t)
        /\ \A w \in Workers : TurnCalm(w)
        /\ \A v \in Verifiers : CheckCalm(v)

LEMMA NothingFails ==
    ASSUME Undisturbed
    PROVE  /\ Alone /\ ~KeepRepairing /\ ~Crash /\ ~ReconcileGitStatuses
           /\ \A w \in Workers : ~Fail(w) /\ ~FailAgain(w) /\ ~PromotionUnseen(w)
           /\ \A v \in Verifiers : CheckFails(v) => check[v].at = "testing"
BY DEF Undisturbed, Alone, Crash, ReconcileGitStatuses, Fail, FailAgain, PromotionUnseen,
       CheckFails

LEMMA CalmIsSound ==
    ASSUME Undisturbed, Calm, [PoolNext]_everything
    PROVE  Sound /\ Sound' /\ PoolNamed /\ PoolNamed' /\ Ticketed
BY NothingFails, SoundIsInductive DEF Calm, Sound, Named

\* A worker that lets go of its row does so by giving it back.
LEMMA CalmTurnWrites ==
    ASSUME Undisturbed, Calm, NEW w \in Workers, TurnStep(w)
    PROVE  \/ UNCHANGED <<task, held>>
           \/ PoolClaim(w)
           \/ /\ Owns(w) /\ held[w].task = Mine(w)
              /\ \E status \in Statuses :
                    GiveBack(w, status) /\ (status \in Claimable => RetryLater(w))
<1>1. /\ PoolNamed /\ TicketGood(w) /\ TurnCalm(w)
      /\ ~Fail(w) /\ ~FailAgain(w) /\ ~PromotionUnseen(w)
  BY NothingFails DEF Calm, Sound, Named, Ticketed
<1>2. {Pending, "completed", "requeued", Parked} \subseteq Statuses
  BY PoolStatuses
<1>3. {Pending, "completed", Parked} \cap Claimable = {}
  BY DEF Pending, Parked, Claimable
<1>4. CASE CompleteTurn(w) \/ RetryLater(w) \/ ParkTask(w)
  <2>1. held[w].task = Mine(w) /\ Mine(w) \in Tasks
    BY <1>1, <1>4
       DEF CompleteTurn, RetryLater, ParkTask, TurnCalm, PoolNamed, TurnsNamed,
           TurnNamed, AtWork, Mine
  <2>2. Owns(w)
    BY <1>1, <2>1, QueueConstants DEF TicketGood
  <2>3. \E status \in Statuses :
           GiveBack(w, status) /\ (status \in Claimable => RetryLater(w))
    BY <1>2, <1>3, <1>4 DEF CompleteTurn, RetryLater, ParkTask
  <2>4. QED
    BY <2>1, <2>2, <2>3
<1>5. CASE ~(CompleteTurn(w) \/ RetryLater(w) \/ ParkTask(w) \/ PoolClaim(w))
  BY <1>1, <1>5 DEF TurnStep, Dispatch, CodingEnds, PromoteCandidate, RecordPromotion,
     HandOff, ParkProposal, vars
<1>6. QED
  BY <1>4, <1>5

\* Everything that can happen to a row.
RowKept(t) == /\ task'[t].status = task[t].status /\ task'[t].by = task[t].by
              /\ task'[t].token = task[t].token

RowClaimed(t) ==
    /\ task[t].status \in Claimable /\ task'[t].status \notin Claimable
    /\ \/ \E w \in Workers : PoolClaim(w) /\ held'[w].task = t
       \/ task'[t].token = task[t].token

RowGivenBack(t) ==
    /\ task'[t].token = 0
    /\ \E w \in Workers : /\ TurnStep(w) /\ Owns(w) /\ held[w].task = t /\ Mine(w) = t
                          /\ task'[t].status \in Claimable => RetryLater(w)

RowVerified(t) ==
    /\ task'[t].status \notin Claimable /\ task'[t].token = task[t].token
    /\ \/ \E v \in Verifiers : AtCheck(v) /\ Its(v) = t
       \/ \E w \in Workers : Owns(w) /\ held[w].task = t

LEMMA CalmRowSteps ==
    ASSUME Undisturbed, Calm, [PoolNext]_everything, NEW t \in Tasks
    PROVE  \/ RowKept(t)
           \/ /\ phase = "sync" /\ CandidatesOf(t) = {}
              /\ task'[t].token \in {task[t].token, 0}
           \/ RowClaimed(t) \/ RowGivenBack(t) \/ RowVerified(t)
<1> DEFINE enqueued == /\ phase = "sync" /\ CandidatesOf(t) = {}
                       /\ task'[t].token \in {task[t].token, 0}
<1>1. /\ PoolNamed /\ TypeOK /\ ClaimsAreMinted /\ JobsTypeOK /\ Ticketed /\ SyncCalm
  BY CalmIsSound DEF PoolNamed, PoolTypeOK, Calm
<1>2. CASE task' = task
  BY <1>2 DEF RowKept
<1>3. CASE SyncStep
  <2>1. ASSUME NEW u \in Tasks, EnqueueProposal(u) PROVE RowKept(t) \/ enqueued
    <3>1. phase = "sync" /\ u \in sync.todo /\ EnqueueTask(u, FpOf[u]) /\ FpOf[u] \in Fps
      BY <2>1, QueueConstants DEF EnqueueProposal
    <3>2. CASE u = t
      BY <1>1, <3>1, <3>2, EnqueueRow DEF SyncCalm
    <3>3. CASE u # t
      BY <1>1, <3>1, <3>3, EnqueueRow DEF RowOnly, RowKept
    <3>4. QED
      BY <3>2, <3>3
  <2>2. QED
    BY <1>1, <1>2, <1>3, <2>1
       DEF SyncStep, SyncCalm, ReconcilePromotedCommit, EnqueuePromoted,
           CompletePromoted, EnqueueReconciledJob, EndReconcile, EndSync
<1>4. ASSUME NEW w \in Workers, TurnStep(w)
      PROVE  RowKept(t) \/ RowClaimed(t) \/ RowGivenBack(t)
  <2>1. CASE PoolClaim(w)
    <3>1. PICK lane \in Lanes : ClaimTask(w, lane)
      BY <2>1 DEF PoolClaim
    <3>2. PICK u \in Tasks :
             /\ held' = [held EXCEPT ![w] = [task |-> u, token |-> minted + 1]]
             /\ task[u].status \in Claimable /\ task'[u].status = "claimed"
             /\ \A x \in Tasks \ {u} :
                   \/ task'[x] = task[x]
                   \/ /\ task[x].status \in Claimable
                      /\ task'[x].status = "superseded_duplicate"
                      /\ task'[x].token = task[x].token
      BY <1>1, <3>1, ClaimRow
    <3>3. held'[w].task = u
      BY <1>1, <3>2 DEF TypeOK
    <3>4. QED
      BY <2>1, <3>2, <3>3 DEF RowKept, RowClaimed, Claimable
  <2>2. ASSUME NEW status \in Statuses, GiveBack(w, status), Owns(w),
               held[w].task = Mine(w), status \in Claimable => RetryLater(w)
        PROVE  RowKept(t) \/ RowGivenBack(t)
    BY <1>1, <1>4, <2>2, GiveBackRow DEF RowOnly, RowKept, RowGivenBack
  <2>3. QED
    BY <1>4, <2>1, <2>2, CalmTurnWrites DEF RowKept
<1>5. ASSUME NEW v \in Verifiers, CheckStep(v) PROVE RowKept(t) \/ RowVerified(t)
  <2>1. ASSUME NEW status, NEW taskStatus, Finishes(v, status, taskStatus)
        PROVE  RowKept(t) \/ RowVerified(t)
    <3>1. /\ Its(v) \in Tasks /\ RowOnly(Its(v)) /\ taskStatus \notin Claimable
          /\ task'[Its(v)] = [task[Its(v)] EXCEPT !.status = taskStatus]
      BY <1>1, <2>1, FinishRows DEF Finishes
    <3>2. AtCheck(v)
      BY <1>1, <3>1, IdleThreadsTyped, QueueConstants
         DEF PoolNamed, ChecksNamed, CheckNamed, Its
    <3>3. CASE t = Its(v)
      BY <1>1, <3>1, <3>2, <3>3 DEF RowVerified, TypeOK, TaskRow
    <3>4. CASE t # Its(v)
      BY <3>1, <3>4 DEF RowOnly, RowKept
    <3>5. QED
      BY <3>3, <3>4
  <2>2. ~RequeueForRepair(v)
    BY <1>1 DEF Ticketed, NoRepair, RequeueForRepair
  <2>3. QED
    BY <1>5, <2>1, <2>2, CheckTaskWrites DEF RowKept
<1>6. CASE TimePasses
  <2>1. ~Reclaimable(task[t])
    <3>1. ASSUME NEW w \in Workers, held[w].task = t PROVE task[t].pid \in Live
      BY <1>1, <3>1, HoldersLive, QueueConstants DEF Ticketed, TicketGood
    <3>2. QED
      BY <3>1 DEF Reclaimable, Calm, RowCalm
  <2>2. QED
    BY <1>1, <1>6, <2>1, TimeRows DEF TimeRow, RowKept, RowVerified, Claimable
<1>7. QED
  BY <1>2, <1>3, <1>4, <1>5, <1>6, StepKinds, EndIsClean, NothingFails, <1>1
     DEF BeginIteration, JobTimePasses, JobRetryComesDue, everything, allvars, vars

\* Who writes a proposal.
Judges(v) == \/ RecordVerified(v) \/ RecordSyncPending(v) \/ RecordRecoveryPending(v)
             \/ RecordReverted(v) \/ RecordTerminal(v) \/ RecordGitSynced(v)

LEMMA CalmPropWrites ==
    ASSUME Undisturbed, Calm, [PoolNext]_everything, NEW t \in Tasks,
           prop'[t] # prop[t]
    PROVE  \/ \E w \in Workers :
                 /\ t = Mine(w) /\ turn[w].at \in {"coding", "committed", "park"}
                 /\ \/ \E status \in {"implementation_paused", "archived_failed"} :
                          CodingEnds(w, status)
                    \/ RecordPromotion(w) \/ ParkProposal(w)
           \/ \E v \in Verifiers : t = Its(v) /\ AtCheck(v) /\ Judges(v)
<1>1. /\ PoolNamed /\ Ticketed /\ SyncCalm /\ PropWrite /\ ~ReconcileGitStatuses
      /\ \A w \in Workers : ~PromotionUnseen(w)
  BY CalmIsSound, PropWrites, NothingFails DEF Calm
<1>2. \A u \in Tasks : ~ReconcilePromotedCommit(u)
  BY <1>1 DEF SyncCalm, ReconcilePromotedCommit
<1>3. \A v \in Verifiers : ~RecordRepair(v)
  BY <1>1 DEF Ticketed, NoRepair, RecordRepair
<1>4. ASSUME NEW w \in Workers, NEW status \in {"implementation_paused", "archived_failed"},
             CodingEnds(w, status)
      PROVE  t = Mine(w) /\ turn[w].at = "coding"
  BY <1>1, <1>4, CodingEndsRow DEF CodingEnds, PropOnly
<1>5. ASSUME NEW w \in Workers, RecordPromotion(w)
      PROVE  t = Mine(w) /\ turn[w].at = "committed"
  BY <1>1, <1>5, RecordPromotionRow DEF RecordPromotion, PropOnly
<1>6. ASSUME NEW w \in Workers, ParkProposal(w) PROVE t = Mine(w) /\ turn[w].at = "park"
  BY <1>1, <1>6, ParkProposalRow DEF ParkProposal, PropOnly
<1>7. ASSUME NEW v \in Verifiers, Judges(v) PROVE t = Its(v) /\ AtCheck(v)
  <2>1. t = Its(v)
    BY <1>1, <1>7, VerifierRows DEF Judges, PropOnly
  <2>2. AtCheck(v)
    BY <1>7 DEF Judges, RecordVerified, RecordSyncPending, RecordRecoveryPending,
       RecordReverted, RecordTerminal, RecordGitSynced, AtCheck
  <2>3. QED
    BY <2>1, <2>2
<1>8. QED
  BY <1>1, <1>2, <1>3, <1>4, <1>5, <1>6, <1>7 DEF PropWrite, Judges

\* Nobody promotes a task that another worker is done with.
LEMMA CandidatesStay ==
    ASSUME Undisturbed, Calm, [PoolNext]_everything, NEW w \in Workers, ~TurnStep(w),
           turn[w].at \in {"dispatch", "exhausted", "result", "park"},
           NEW t \in Tasks, t = Mine(w)
    PROVE  CandidatesOf(t)' = CandidatesOf(t)
<1>1. PoolNamed /\ Ticketed
  BY CalmIsSound
<1>2. ASSUME NEW x \in Workers, PromoteCandidate(x), t = Mine(x) PROVE FALSE
  <2>1. x # w /\ turn[x].at = "coding" /\ held[x].task = t
    BY <1>1, <1>2 DEF PromoteCandidate, TurnStep, PoolNamed, TurnsNamed, TurnNamed, Mine
  <2>2. CASE turn[w].at = "park"
    <3>1. task[t].by = Nobody
      BY <2>2 DEF Calm, TurnCalm
    <3>2. Owns(x)
      BY <1>1, <2>1, QueueConstants DEF Ticketed, TicketGood
    <3>3. QED
      BY <2>1, <3>1, <3>2, QueueConstants DEF Owns
  <2>3. CASE turn[w].at # "park"
    BY <1>1, <1>2, <2>1, <2>3, OneWorkerPerTask
  <2>4. QED
    BY <2>2, <2>3
<1>3. QED
  BY <1>1, <1>2, CandidateSteps

----------------------------------------------------------------------------
(* The tasks' rows.                                                        *)

\* Whoever holds a claim goes on to, unless it gives its row back.
LEMMA HoldersStay ==
    ASSUME Undisturbed, Calm, [PoolNext]_everything, NEW t \in Tasks,
           task[t].token # 0, task'[t].token # 0
    PROVE  \E w \in Workers : held'[w].task = t
<1>1. PoolNamed /\ TypeOK
  BY CalmIsSound DEF PoolNamed, PoolTypeOK
<1>2. PICK w \in Workers : held[w].task = t
  BY DEF Calm, RowCalm
<1>3. held[w].task # NoTask /\ AtWork(w) /\ phase = "turns"
  BY <1>1, <1>2, HoldersLive, QueueConstants
<1>4. CASE ~TurnStep(w)
  <2>1. ~EndIteration /\ ~Crash
    BY <1>3, NothingFails DEF EndIteration, AtWork
  <2>2. QED
    BY <1>1, <1>2, <1>4, <2>1, WorkerStays
<1>5. CASE TurnStep(w)
  <2>1. ~PoolClaim(w)
    BY <1>3, IdleThreadsTyped DEF PoolClaim, ClaimTask
  <2>2. ASSUME NEW status \in Statuses, GiveBack(w, status), Owns(w) PROVE FALSE
    BY <1>1, <1>2, <2>2, GiveBackRow
  <2>3. QED
    BY <1>2, <1>5, <2>1, <2>2, CalmTurnWrites
<1>6. QED
  BY <1>4, <1>5

\* An iteration does not end between a promotion and its record.
LEMMA RecordsComeFirst ==
    ASSUME Undisturbed, Calm, [PoolNext]_everything, NEW t \in Tasks, Unrecorded(t)'
    PROVE  phase' = "turns"
<1>1. PoolNamed /\ Sound
  BY CalmIsSound
<1>2. ~Recorded(t)
  BY <1>1, RecordedStays, NothingFails DEF Recorded, Unrecorded
<1>3. ASSUME NEW w \in Workers, PromoteCandidate(w) PROVE phase' = "turns"
  BY <1>1, <1>3, TurnFrame
     DEF PromoteCandidate, TurnStep, PoolNamed, TurnsNamed, TurnNamed, AtWork
<1>4. CASE Unrecorded(t)
  <2>1. phase = "turns" /\ UnrecordedAwaits(t)
    BY <1>1, <1>4 DEF Calm, RowCalm, Sound, TaskSound
  <2>2. \E w \in Workers : Awaits(w, t)
    BY <1>4, <2>1 DEF UnrecordedAwaits, Abandoned, Undisturbed
  <2>3. ~EndIteration /\ ~Crash
    BY <2>2, NothingFails DEF EndIteration, Awaits
  <2>4. QED
    BY <2>1, <2>3, StepKinds, SyncFrame, TurnFrame, CheckFrame
       DEF BeginIteration, ReconcileGitStatuses, everything, poolvars
<1>5. CASE CandidatesOf(t) = {}
  BY <1>1, <1>3, <1>5, CandidateSteps DEF Unrecorded
<1>6. QED
  BY <1>2, <1>4, <1>5 DEF Recorded, Unrecorded

LEMMA RowStaysCalm ==
    ASSUME Undisturbed, Calm, [PoolNext]_everything, NEW t \in Tasks PROVE RowCalm(t)'
<1>1. PoolNamed /\ Ticketed /\ RowCalm(t)
  BY CalmIsSound DEF Calm
<1>2. ASSUME CandidatesOf(t)' # {} PROVE task'[t].status \notin Claimable
  <2>1. ASSUME NEW w \in Workers, PromoteCandidate(w), turn[w].at = "coding",
               t = Mine(w)
        PROVE  task'[t].status \notin Claimable
    <3>1. held[w].task = t
      BY <1>1, <2>1 DEF PoolNamed, TurnsNamed, TurnNamed, Mine
    <3>2. QED
      BY <1>1, <2>1, <3>1, QueueConstants
         DEF Ticketed, TicketGood, PromoteCandidate, vars
  <2>2. CASE CandidatesOf(t) # {}
    <3>1. ASSUME NEW w \in Workers, RetryLater(w) PROVE Mine(w) # t
      BY <2>2, <3>1 DEF RetryLater, Retryable, Calm, TurnCalm
    <3>2. QED
      BY <1>1, <2>2, <3>1, CalmRowSteps
         DEF RowKept, RowClaimed, RowGivenBack, RowVerified, RowCalm
  <2>3. QED
    BY <1>1, <1>2, <2>1, <2>2, CandidateSteps
<1>3. ASSUME task'[t].token # 0 PROVE \E w \in Workers : held'[w].task = t
  <2>1. CASE task[t].token # 0
    BY <1>3, <2>1, HoldersStay
  <2>2. CASE task[t].token = 0
    BY <1>3, <2>2, CalmRowSteps DEF RowKept, RowClaimed, RowGivenBack, RowVerified
  <2>3. QED
    BY <2>1, <2>2
<1>4. QED
  BY <1>2, <1>3, RecordsComeFirst DEF RowCalm

----------------------------------------------------------------------------
(* The workers and the synchronisation.                                    *)

\* A worker waits for nobody: what it is about to do is still right when it
\* does it.
LEMMA WaitingTurnStaysCalm ==
    ASSUME Undisturbed, Calm, [PoolNext]_everything, NEW w \in Workers, ~TurnStep(w),
           turn'[w] = turn[w]
    PROVE  TurnCalm(w)'
<1>1. PoolNamed /\ Ticketed /\ Sound /\ TurnCalm(w)
  BY CalmIsSound DEF Calm
<1>2. SUFFICES ASSUME NEW t \in Tasks, t = Mine(w), t = Mine(w)', AtWork(w)
               PROVE  /\ turn[w].at \in {"dispatch", "exhausted", "park"} =>
                            CandidatesOf(t)' = {}
                      /\ turn[w].at = "result" /\ turn[w].result \in QueueStatuses =>
                            CandidatesOf(t)' = {}
                      /\ turn[w].at = "result" /\ turn[w].result = Pending =>
                            NoJobs(t)' /\ prop'[t].status = Pending
                      /\ turn[w].at = "park" =>
                            task'[t].status = Parked /\ task'[t].by = Nobody
  <2>1. AtWork(w) => Mine(w) \in Tasks /\ Mine(w)' = Mine(w)
    BY <1>1 DEF PoolNamed, TurnsNamed, TurnNamed, Mine, AtWork
  <2>2. QED
    BY <1>1, <1>2, <2>1 DEF TurnCalm, AtWork, CandidatesOf, NoJobs
<1>3. /\ turn[w].at \in {"dispatch", "exhausted", "park"} => CandidatesOf(t)' = {}
      /\ turn[w].at = "result" /\ turn[w].result \in QueueStatuses =>
            CandidatesOf(t)' = {}
  BY <1>1, <1>2, CandidatesStay DEF TurnCalm
<1>4. ASSUME NEW v \in Verifiers, AtCheck(v), Its(v) = t
      PROVE  CandidatesOf(t) # {} /\ ~NoJobs(t)
  BY <1>1, <1>4, CheckedIsRecorded DEF Recorded, Sound, CheckSound
<1>5. ASSUME turn[w].at = "result", turn[w].result = Pending
      PROVE  NoJobs(t)' /\ prop'[t].status = Pending
  <2>1. NoJobs(t) /\ prop[t].status = Pending /\ held[w].task = t /\ Owns(w)
    BY <1>1, <1>2, <1>5, QueueConstants
       DEF TurnCalm, PoolNamed, TurnsNamed, TurnNamed, Ticketed, TicketGood, Mine
  <2>2. ASSUME NEW x \in Workers, HandOff(x), t = Mine(x) PROVE FALSE
    <3>1. x # w /\ turn[x].at = "result"
      BY <2>2 DEF HandOff, TurnStep
    <3>2. QED
      BY <1>1, <1>2, <1>5, <2>2, <3>1, OneWorkerPerTask
  <2>3. NoJobs(t)'
    BY <1>1, <2>1, <2>2, JobsAppear DEF Calm, SyncCalm, EnqueueReconciledJob
  <2>4. ASSUME NEW x \in Workers, t = Mine(x), turn[x].at \in {"coding", "committed"}
        PROVE  FALSE
    BY <1>1, <1>2, <1>5, <2>4, OneWorkerPerTask
  <2>5. ASSUME NEW x \in Workers, t = Mine(x), turn[x].at = "park" PROVE FALSE
    <3>1. task[t].by = Nobody
      BY <2>5 DEF Calm, TurnCalm
    <3>2. QED
      BY <2>1, <3>1, QueueConstants DEF Owns
  <2>6. prop'[t] = prop[t]
    BY <1>4, <2>1, <2>4, <2>5, CalmPropWrites
  <2>7. QED
    BY <2>1, <2>3, <2>6
<1>6. ASSUME turn[w].at = "park"
      PROVE  task'[t].status = Parked /\ task'[t].by = Nobody
  <2>1. /\ task[t].status = Parked /\ task[t].by = Nobody /\ CandidatesOf(t) = {}
        /\ phase = "turns"
    BY <1>1, <1>2, <1>6 DEF TurnCalm, PoolNamed, TurnsNamed, TurnNamed
  <2>2. ASSUME NEW x \in Workers, Owns(x), held[x].task = t PROVE FALSE
    BY <2>1, <2>2, QueueConstants DEF Owns
  <2>3. RowKept(t)
    BY <1>4, <2>1, <2>2, CalmRowSteps
       DEF RowClaimed, RowGivenBack, RowVerified, Parked, Claimable
  <2>4. QED
    BY <2>1, <2>3 DEF RowKept
<1>7. QED
  BY <1>3, <1>5, <1>6

LEMMA MovingTurnStaysCalm ==
    ASSUME Undisturbed, Calm, [PoolNext]_everything, NEW w \in Workers, TurnStep(w)
    PROVE  TurnCalm(w)'
<1>1. /\ PoolNamed /\ PoolNamed' /\ Ticketed /\ Sound /\ TurnCalm(w) /\ TypeOK
      /\ ClaimsAreMinted /\ ~Fail(w) /\ ~FailAgain(w)
  BY CalmIsSound, NothingFails DEF Calm, PoolNamed, PoolTypeOK
<1>2. SUFFICES ASSUME NEW t \in Tasks, t = Mine(w)'
               PROVE  /\ turn'[w].at # "failed"
                      /\ turn'[w].at \in {"dispatch", "exhausted", "park"} =>
                            CandidatesOf(t)' = {}
                      /\ turn'[w].at = "result" /\ turn'[w].result \in QueueStatuses =>
                            CandidatesOf(t)' = {}
                      /\ turn'[w].at = "result" /\ turn'[w].result = Pending =>
                            NoJobs(t)' /\ prop'[t].status = Pending
                      /\ turn'[w].at = "park" =>
                            task'[t].status = Parked /\ task'[t].by = Nobody
  <2>1. AtWork(w)' => Mine(w)' \in Tasks
    BY <1>1 DEF PoolNamed, TurnsNamed, TurnNamed, Mine, AtWork
  <2>2. ~AtWork(w)' => turn'[w].at \in {"idle", "over"}
    BY DEF AtWork
  <2>3. QED
    BY <1>2, <2>1, <2>2 DEF TurnCalm, CandidatesOf, NoJobs
<1>3. CASE PoolClaim(w)
  <2>1. PICK lane \in Lanes : ClaimTask(w, lane)
    BY <1>3 DEF PoolClaim
  <2>2. PICK u \in Tasks :
           /\ held' = [held EXCEPT ![w] = [task |-> u, token |-> minted + 1]]
           /\ task[u].status \in Claimable
    BY <1>1, <2>1, ClaimRow
  <2>3. /\ held'[w].task = u /\ turn'[w].at \in {"dispatch", "exhausted"}
        /\ turn'[w].task = held'[w].task
    BY <1>1, <1>3, <2>2, TurnMoves
       DEF Turns, Dispatch, PromoteCandidate, RecordPromotion, HandOff, CompleteTurn,
           RetryLater, ParkTask, ParkProposal, CodingEnds, PoolClaim, TypeOK
  <2>4. t = u /\ main' = main
    BY <1>2, <1>3, <2>3 DEF Mine, PoolClaim
  <2>5. CandidatesOf(t)' = {}
    BY <2>2, <2>4 DEF Calm, RowCalm, CandidatesOf, Commits
  <2>6. QED
    BY <2>3, <2>5
<1>4. CASE Dispatch(w) /\ Turns(w, "dispatch", turn'[w].at)
           /\ turn'[w].at \in {"coding", "result"}
           /\ (turn'[w].at = "coding" <=> prop[Mine(w)].status \in QueueStatuses)
           /\ turn'[w].result = prop[Mine(w)].status
  <2>1. t = Mine(w) /\ CandidatesOf(t) = {}
    BY <1>1, <1>2, <1>4 DEF Turns, Mine, TurnCalm
  <2>2. ~SaysPromoted(prop[t].status)
    BY <1>1, <2>1 DEF Sound, TaskSound
  <2>3. prop[t].status # Pending
    BY <2>2, ProposalFacts DEF SaysPromoted, Pending, Parked
  <2>4. QED
    BY <1>4, <2>1, <2>3
<1>5. ASSUME NEW status \in {"implementation_paused", "archived_failed"},
             CodingEnds(w, status), Turns(w, "coding", "result"),
             turn'[w].result = status
      PROVE  CandidatesOf(t)' = {} /\ turn'[w].at = "result" /\ turn'[w].result # Pending
  <2>1. CandidatesOf(Mine(w)) = {} /\ main' = main /\ t = Mine(w)
    BY <1>1, <1>2, <1>5 DEF Sound, TurnSound, Turns, CodingEnds, Mine
  <2>2. QED
    BY <1>5, <2>1 DEF Turns, CandidatesOf, Commits, Pending
<1>6. CASE RecordPromotion(w) /\ Turns(w, "committed", "result")
           /\ turn'[w].result = (IF Defer THEN Pending ELSE "promoted")
  <2>1. t = Mine(w) /\ NoJobs(t) /\ job' = job
    BY <1>1, <1>2, <1>6 DEF Turns, Mine, Sound, TurnSound, RecordPromotion
  <2>2. prop'[t].status = turn'[w].result
    BY <1>1, <1>6, <2>1, RecordPromotionRow
  <2>3. QED
    BY <1>6, <2>1, <2>2, ProposalFacts DEF Turns, NoJobs
<1>7. CASE ParkTask(w) /\ Turns(w, turn[w].at, "park")
  <2>1. /\ t = Mine(w) /\ GiveBack(w, Parked) /\ main' = main
        /\ turn[w].at \in {"exhausted", "result"}
        /\ (turn[w].at = "result" => turn[w].result \in QueueStatuses)
    BY <1>1, <1>2, <1>7 DEF Turns, Mine, ParkTask, Retryable, TurnCalm
  <2>2. CandidatesOf(t) = {} /\ held[w].task = t
    BY <1>1, <2>1 DEF TurnCalm, PoolNamed, TurnsNamed, TurnNamed, Mine
  <2>3. Owns(w)
    BY <1>1, <2>2, QueueConstants DEF Ticketed, TicketGood
  <2>4. task'[t].status = Parked /\ task'[t].by = Nobody
    BY <1>1, <2>1, <2>2, <2>3, GiveBackRow, PoolStatuses
  <2>5. QED
    BY <1>7, <2>1, <2>2, <2>4 DEF Turns, CandidatesOf, Commits
<1>8. CASE turn'[w].at \in {"idle", "over", "committed", "handoff"}
  BY <1>8
<1>9. ~Faults
  BY DEF Undisturbed
<1>10. QED
  BY <1>1, <1>3, <1>4, <1>5, <1>6, <1>7, <1>8, <1>9, TurnMoves DEF Turns, TurnEnds

LEMMA TurnStaysCalm ==
    ASSUME Undisturbed, Calm, [PoolNext]_everything, NEW w \in Workers PROVE TurnCalm(w)'
<1>1. PoolNamed
  BY CalmIsSound
<1>2. CASE turn'[w] = IdleTurn
  BY <1>2, IdleThreadsTyped DEF TurnCalm
<1>3. QED
  BY <1>1, <1>2, WorkerStays, WaitingTurnStaysCalm, MovingTurnStaysCalm

LEMMA SyncStaysCalm ==
    ASSUME Undisturbed, Calm, [PoolNext]_everything PROVE SyncCalm'
<1>1. PoolNamed /\ PoolNamed' /\ SyncCalm /\ sync \in SyncState
  BY CalmIsSound DEF Calm, PoolNamed, PoolTypeOK
<1>2. CASE sync' = IdleSync
  BY <1>2, IdleThreadsTyped DEF SyncCalm
<1>3. CASE sync' = sync
  <2>1. ASSUME NEW t \in sync.todo PROVE t \in Tasks /\ CandidatesOf(t)' = {}
    <3>1. t \in Tasks /\ CandidatesOf(t) = {} /\ phase = "sync"
      BY <1>1, <2>1, IdleThreadsTyped DEF SyncCalm, SyncState, PoolNamed, SyncNamed
    <3>2. \A w \in Workers : turn[w].at # "coding"
      BY <1>1, <3>1 DEF PoolNamed, TurnsNamed, TurnNamed, AtWork
    <3>3. QED
      BY <1>1, <3>1, <3>2, CandidateSteps
  <2>2. QED
    BY <1>1, <1>3, <2>1 DEF SyncCalm
<1>4. ASSUME NEW p \in Pids, BeginIteration(p) PROVE SyncCalm'
  <2>1. phase = "down" /\ main' = main
    BY <1>4 DEF BeginIteration
  <2>2. \A t \in Tasks : ~Unrecorded(t)
    BY <2>1 DEF Calm, RowCalm
  <2>3. sync'.at = "reconcile" /\ sync'.todo = {}
    BY <1>4, <2>2 DEF BeginIteration, IdleSync, Unrecorded
  <2>4. QED
    BY <2>3 DEF SyncCalm
<1>5. CASE SyncStep
  <2>1. phase = "sync" /\ main' = main
    BY <1>5, SyncFrame
  <2>2. \A t : CandidatesOf(t)' = CandidatesOf(t)
    BY <2>1 DEF CandidatesOf, Commits
  <2>3. CASE EndReconcile
    <3>1. \A t \in Tasks : ~Unrecorded(t)
      BY <2>1 DEF Calm, RowCalm
    <3>2. sync'.at = "enqueue"
          /\ sync'.todo = {t \in Tasks : prop[t].status \in QueueStatuses}
      BY <2>3 DEF EndReconcile
    <3>3. QED
      BY <2>2, <3>1, <3>2 DEF SyncCalm, Unrecorded
  <2>4. ASSUME NEW t \in Tasks, EnqueueProposal(t) PROVE SyncCalm'
    <3>1. sync'.at = "enqueue" /\ sync'.todo = sync.todo \ {t}
      BY <1>1, <2>4 DEF EnqueueProposal, SyncState
    <3>2. QED
      BY <1>1, <2>2, <3>1 DEF SyncCalm
  <2>5. CASE EndSync
    BY <1>2, <2>5 DEF EndSync
  <2>6. QED
    BY <1>1, <1>5, <2>3, <2>4, <2>5
       DEF SyncStep, SyncCalm, ReconcilePromotedCommit, EnqueuePromoted,
           CompletePromoted, EnqueueReconciledJob
<1>6. QED
  BY <1>1, <1>2, <1>3, <1>4, <1>5, StepKinds, EndIsClean, TurnFrame, CheckFrame
     DEF ReconcileGitStatuses, everything, poolvars

----------------------------------------------------------------------------
(* The jobs and the verifiers.                                             *)

\* The regression of a task is in one pair of hands.
LEMMA RegressionIsClaimed ==
    ASSUME Calm, NEW v \in Verifiers, NEW t \in Tasks, Regresses(v, t)
    PROVE  Full(t) = "claimed" /\ job[t]["full_regression"].by = v
BY DEF Calm, Sound, Ticketed, Repaired, JobTicketsHold, JobTicketHolds, Regresses, Full

LEMMA OneRegressionPerTask ==
    ASSUME Calm, NEW v \in Verifiers, NEW u \in Verifiers, NEW t \in Tasks,
           Regresses(v, t), Regresses(u, t)
    PROVE  v = u
BY RegressionIsClaimed

\* Everything that happens to the regression of a task.
FullQueued(t) ==
    /\ NoJobs(t) /\ Full(t)' = "queued"
    /\ prop[t].status = Pending /\ prop' = prop

FullClaimed(t) ==
    /\ Full(t) \in ClaimableJob /\ Full(t)' = "claimed"
    /\ \E v \in Verifiers : StartCheck(v)

FullFinished(t) ==
    \E v \in Verifiers :
        /\ Regresses(v, t)
        /\ \/ FinishVerified(v) /\ Full(t)' = "verified" /\ check[v].at = "promoted"
           \/ /\ SyncFails(v) /\ Full(t)' = "verified_pending_sync"
              /\ check[v].at = "passed"
           \/ /\ FinishRecoveryPending(v) /\ Full(t)' = "requeued"
              /\ check[v].at = "recovery_pending"
           \/ /\ FinishTerminal(v) /\ Full(t)' = "failed_terminal"
              /\ check[v].at = "terminal_recorded"

\* What the end of a regression leaves.
LEMMA FinishFull ==
    ASSUME TypeOK, JobsTypeOK, NEW v \in Verifiers, NEW status \in JobStatuses,
           NEW taskStatus \in Statuses, FinishVerificationJob(v, status, taskStatus),
           NEW t, t = Its(v), checking[v].kind = "full_regression"
    PROVE  /\ t \in Tasks /\ Full(t)' = status
           /\ job[t]["full_regression"].by = v
           /\ job'[t]["full_regression"].by = Nobody
<1> DEFINE k == checking[v].kind
<1>1. /\ Its(v) \in Tasks
      /\ job'[Its(v)][k].status = status /\ job'[Its(v)][k].by = Nobody
      /\ job[Its(v)][k].by = v
  BY FinishRows
<1>2. /\ job'[t][k].status = status /\ job'[t][k].by = Nobody /\ job[t][k].by = v
      /\ t \in Tasks
  BY <1>1
<1>3. k = "full_regression"
  OBVIOUS
<1> HIDE DEF k
<1>4. QED
  BY <1>2, <1>3 DEF Full

\* Which steps of a verifier finish a job, without repairs.
LEMMA CalmFinishes ==
    ASSUME Undisturbed, Calm, NEW v \in Verifiers, CheckStep(v), NEW status, NEW taskStatus,
           Finishes(v, status, taskStatus), checking[v].kind = "full_regression"
    PROVE  /\ check[v].at \in Unfinished
           /\ \/ FinishVerified(v) /\ check[v].at = "promoted"
              \/ SyncFails(v) /\ check[v].at = "passed"
              \/ FinishRecoveryPending(v) /\ check[v].at = "recovery_pending"
              \/ FinishTerminal(v) /\ check[v].at = "terminal_recorded"
<1>1. /\ PoolNamed /\ TypeOK /\ JobsTypeOK /\ NoRepair(v) /\ JobTicketHolds(v)
  BY DEF Calm, Sound, Named, Ticketed, Repaired, JobTicketsHold, PoolNamed, PoolTypeOK
<1>2. /\ Its(v) \in Tasks
      /\ job[Its(v)]["full_regression"].by = v
      /\ job'[Its(v)]["full_regression"].by = Nobody
  BY <1>1, FinishFull DEF Finishes
<1>3. job' # job
  BY <1>2, VerifiersAreThreads
<1>4. ~StartCheck(v)
  BY <1>1, <1>2, IdleThreadsTyped, QueueConstants DEF StartCheck, ClaimVerificationJob, Its
<1>5. ~QueueGitSync(v)
  <2>1. SUFFICES ASSUME QueueGitSync(v) PROVE FALSE
    OBVIOUS
  <2>2. JobOnly(Its(v), "git_sync")
    BY <1>1, <2>1, GitSyncJobRow, EnqueueJobRow
  <2>3. QED
    BY <1>2, <2>2, VerifiersAreThreads DEF JobOnly, Kinds
<1>6. QED
  BY <1>1, <1>3, <1>4, <1>5
     DEF CheckStep, ReadProposal, RegressionPasses, RegressionFails, SyncRuntime,
         RecordVerified, FinishVerified, SyncFails, RecordSyncPending, GitSyncs,
         RecordGitSynced, GitSyncFails, RecoveredBefore, RevertPromoted, RevertFails,
         RecordRecoveryPending, FinishRecoveryPending, RecordReverted, RecordTerminal,
         FinishTerminal, RecordRepair, FinishNeedsRepair, RequeueForRepair, CheckFails,
         jobvars, NoRepair, Unfinished

LEMMA FullSteps ==
    ASSUME Undisturbed, Calm, [PoolNext]_everything, NEW t \in Tasks
    PROVE  Full(t)' = Full(t) \/ FullQueued(t) \/ FullClaimed(t) \/ FullFinished(t)
<1>1. /\ PoolNamed /\ TypeOK /\ JobsTypeOK /\ SyncCalm /\ "full_regression" \in Kinds
  BY CalmIsSound DEF PoolNamed, PoolTypeOK, Calm, Kinds
<1>2. ~EnqueueReconciledJob
  BY <1>1 DEF SyncCalm, EnqueueReconciledJob
<1>3. ASSUME NEW w \in Workers, HandOff(w), t = Mine(w),
             job'[t]["full_regression"].status = "queued"
      PROVE  FullQueued(t)
  BY <1>3 DEF HandOff, Calm, TurnCalm, FullQueued, Full
<1>4. ASSUME NEW v \in Verifiers, StartCheck(v),
             job[t]["full_regression"].status \in ClaimableJob,
             job'[t]["full_regression"].status = "claimed"
      PROVE  FullClaimed(t)
  BY <1>4 DEF FullClaimed, Full
<1>5. ASSUME NEW v \in Verifiers, CheckStep(v), t = Its(v),
             "full_regression" = checking[v].kind, NEW status, NEW taskStatus,
             Finishes(v, status, taskStatus)
      PROVE  FullFinished(t)
  <2>1. /\ Regresses(v, t)
        /\ \/ FinishVerified(v) /\ check[v].at = "promoted"
           \/ SyncFails(v) /\ check[v].at = "passed"
           \/ FinishRecoveryPending(v) /\ check[v].at = "recovery_pending"
           \/ FinishTerminal(v) /\ check[v].at = "terminal_recorded"
    BY <1>5, CalmFinishes DEF Regresses
  <2>2. ASSUME NEW s \in JobStatuses, NEW r \in Statuses, FinishVerificationJob(v, s, r)
        PROVE  Full(t)' = s
    BY <1>1, <1>5, <2>2, FinishFull
  <2>3. {"verified", "verified_pending_sync", "requeued", "failed_terminal"}
           \subseteq JobStatuses
        /\ {"verified", Pending, "reverted_verification_failure"} \subseteq Statuses
    BY PoolStatuses
  <2>4. /\ FinishVerified(v) => Full(t)' = "verified"
        /\ SyncFails(v) => Full(t)' = "verified_pending_sync"
        /\ FinishRecoveryPending(v) => Full(t)' = "requeued"
        /\ FinishTerminal(v) => Full(t)' = "failed_terminal"
    BY <2>2, <2>3 DEF FinishVerified, SyncFails, FinishRecoveryPending, FinishTerminal
  <2>5. QED
    BY <2>1, <2>4 DEF FullFinished
<1>6. QED
  BY <1>1, <1>2, <1>3, <1>4, <1>5, JobSteps DEF JobKept, JobQueued, Full

\* A job to synchronise is queued by the verifier that could not.
LEMMA GitSteps ==
    ASSUME Undisturbed, Calm, [PoolNext]_everything, NEW t \in Tasks
    PROVE  /\ Git(t) # "absent" => Git(t)' # "absent"
           /\ Git(t) = "absent" /\ Git(t)' # "absent" =>
                 \E v \in Verifiers : QueueGitSync(v) /\ t = Its(v)
<1>1. /\ PoolNamed /\ JobTicketsHold /\ "git_sync" \in Kinds
      /\ \A v \in Verifiers : CheckNamed(v)
  BY CalmIsSound DEF PoolNamed, ChecksNamed, Ticketed, Repaired, Kinds
<1>2. ASSUME NEW v \in Verifiers, CheckStep(v), t = Its(v), "git_sync" = checking[v].kind,
             NEW status, NEW taskStatus, Finishes(v, status, taskStatus)
      PROVE  Git(t) # "absent" /\ status # "absent"
  <2>1. check[v].at \in {"claimed", "git_synced"} /\ status # "absent"
    BY <1>1, <1>2 DEF CheckNamed, Finishes
  <2>2. CASE check[v].at = "claimed"
    BY <1>1, <1>2, <2>1, <2>2 DEF JobTicketsHold, JobTicketHolds, Unfinished, Git
  <2>3. CASE check[v].at = "git_synced"
    BY <1>2, <2>1, <2>3 DEF Calm, CheckCalm
  <2>4. QED
    BY <2>1, <2>2, <2>3
<1>3. QED
  BY <1>1, <1>2, JobSteps DEF JobKept, JobQueued, ClaimableJob, Git

\* What is decided stays so.
LEMMA FullStays ==
    ASSUME Undisturbed, Calm, [PoolNext]_everything, NEW t \in Tasks,
           Full(t) \notin ClaimableJob \cup {"absent", "claimed"}
    PROVE  Full(t)' = Full(t)
BY FullSteps, RegressionIsClaimed
   DEF FullQueued, FullClaimed, FullFinished, NoJobs, Full, Kinds

\* A verifier moves, or stays where it is as long as it is at work.
LEMMA CalmVerifierStays ==
    ASSUME Undisturbed, Calm, [PoolNext]_everything, NEW v \in Verifiers, ~CheckStep(v),
           AtCheck(v) \/ AtCheck(v)'
    PROVE  check'[v] = check[v] /\ checking'[v] = checking[v]
<1>1. PoolNamed
  BY CalmIsSound
<1>2. ASSUME EndIteration \/ Crash, check'[v] = IdleCheck PROVE FALSE
  <2>1. EndIteration
    BY <1>2, NothingFails
  <2>2. QED
    BY <1>2, <2>1, IdleThreadsTyped DEF EndIteration, AtCheck
<1>3. QED
  BY <1>1, <1>2, VerifierStays

LEMMA CheckStaysCalm ==
    ASSUME Undisturbed, Calm, [PoolNext]_everything, NEW v \in Verifiers PROVE CheckCalm(v)'
<1>1. /\ PoolNamed /\ PoolNamed' /\ CheckCalm(v) /\ TypeOK /\ JobsTypeOK
      /\ (AtCheck(v) => Its(v) \in Tasks) /\ JobTicketHolds(v)
  BY CalmIsSound DEF Calm, PoolNamed, ChecksNamed, CheckNamed, PoolTypeOK, Ticketed,
     Repaired, JobTicketsHold
<1>2. SUFFICES ASSUME NEW t \in Tasks, t = Its(v)', AtCheck(v)'
               PROVE  /\ check'[v].at \in {"unsynced", "sync_queued"} =>
                            Full(t)' = "verified_pending_sync"
                      /\ check'[v].at = "git_synced" => Git(t)' # "absent"
  <2>1. AtCheck(v)' => Its(v)' \in Tasks
    BY <1>1 DEF PoolNamed, ChecksNamed, CheckNamed
  <2>2. QED
    BY <1>2, <2>1 DEF CheckCalm, AtCheck, Full, Git
<1>3. Full(t) = "verified_pending_sync" => Full(t)' = "verified_pending_sync"
  BY FullStays DEF ClaimableJob
<1>4. CASE ~CheckStep(v)
  <2>1. check'[v] = check[v] /\ t = Its(v)
    BY <1>2, <1>4, CalmVerifierStays DEF Its
  <2>2. QED
    BY <1>1, <1>3, <2>1, GitSteps DEF CheckCalm
<1>5. ASSUME QueueGitSync(v), Goes(v, "unsynced", "sync_queued")
      PROVE  Full(t)' = "verified_pending_sync" /\ check'[v].at = "sync_queued"
  BY <1>1, <1>2, <1>3, <1>5 DEF Goes, CheckCalm, Its
<1>6. ASSUME SyncFails(v), Goes(v, "passed", "unsynced")
      PROVE  Full(t)' = "verified_pending_sync" /\ check'[v].at = "unsynced"
  <2>1. t = Its(v) /\ FinishVerificationJob(v, "verified_pending_sync", Pending)
    BY <1>2, <1>6 DEF Goes, Its, SyncFails
  <2>2. checking[v].kind = "full_regression"
    BY <1>1, <1>6, <2>1
       DEF Goes, PoolNamed, ChecksNamed, CheckNamed, JobsTypeOK, JobTicket, Kinds
  <2>3. Full(t)' = "verified_pending_sync"
    BY <1>1, <2>1, <2>2, FinishFull, PoolStatuses
  <2>4. QED
    BY <1>6, <2>3 DEF Goes
<1>7. ASSUME GitSyncs(v), Goes(v, "claimed", "git_synced")
      PROVE  Git(t)' # "absent" /\ check'[v].at = "git_synced"
  <2>1. t = Its(v) /\ checking[v].kind = "git_sync"
    BY <1>2, <1>7 DEF Goes, Its, GitSyncs
  <2>2. Git(t) # "absent"
    BY <1>1, <1>7, <2>1 DEF JobTicketHolds, Goes, Unfinished, Git
  <2>3. QED
    BY <1>7, <2>2, GitSteps DEF Goes
<1>8. CASE check'[v].at \notin {"unsynced", "sync_queued", "git_synced"}
  BY <1>8
<1>9. QED
  BY <1>1, <1>4, <1>5, <1>6, <1>7, <1>8, CheckMoves DEF Goes

\* A verifier at work on a regression was so before, or has just claimed it.
LEMMA RegressionsGoOn ==
    ASSUME Undisturbed, Calm, [PoolNext]_everything, NEW v \in Verifiers, NEW t \in Tasks,
           Regresses(v, t)'
    PROVE  \/ Regresses(v, t) /\ check'[v] = check[v]
           \/ Regresses(v, t) /\ CheckStep(v) /\ check[v].at # "promoted"
           \/ StartCheck(v) /\ Full(t) \in ClaimableJob
<1>1. PoolNamed /\ TypeOK /\ JobsTypeOK
  BY CalmIsSound DEF PoolNamed, PoolTypeOK
<1>2. AtCheck(v)' /\ check'[v].at \in Unfinished
  BY DEF Regresses, AtCheck, Unfinished
<1>3. CASE ~CheckStep(v)
  BY <1>2, <1>3, CalmVerifierStays DEF Regresses, Its
<1>4. CASE StartCheck(v)
  <2>1. PICK u \in Tasks, k \in Kinds :
           /\ checking' = [checking EXCEPT ![v] =
                                  [task |-> u, kind |-> k, token |-> minted + 1]]
           /\ job[u][k].status \in ClaimableJob
    BY <1>1, <1>4, ClaimJobRow DEF StartCheck
  <2>2. checking'[v].task = u /\ checking'[v].kind = k
    BY <1>1, <2>1 DEF JobsTypeOK
  <2>3. u = t /\ k = "full_regression"
    BY <2>2 DEF Regresses, Its
  <2>4. QED
    BY <1>4, <2>1, <2>3 DEF Full
<1>5. CASE CheckStep(v) /\ ~StartCheck(v)
  <2>1. /\ checking'[v] = checking[v]
        /\ check[v].at \in Unfinished /\ check[v].at # "promoted"
    BY <1>1, <1>2, <1>5, CheckMoves DEF Goes, Unfinished
  <2>2. QED
    BY <1>5, <2>1 DEF Regresses, Its
<1>6. QED
  BY <1>3, <1>4, <1>5

\* A verifier that has reverted what failed records it, and ends the job.
LEMMA RecoveryGoesOn ==
    ASSUME Undisturbed, Calm, NEW v \in Verifiers, NEW t, t = Its(v), CheckStep(v),
           check[v].at \in {"reverted", "terminal", "terminal_recorded"}
    PROVE  \/ /\ check[v].at # "terminal_recorded" /\ checking' = checking
              /\ check'[v].at \in {"terminal", "terminal_recorded"}
           \/ check[v].at = "terminal_recorded" /\ Full(t)' = "failed_terminal"
<1>1. /\ PoolTypeOK /\ TypeOK /\ JobsTypeOK /\ CheckNamed(v) /\ ~check[v].allowed
      /\ Its(v) \in Tasks
  BY DEF Calm, Sound, Named, PoolNamed, PoolTypeOK, ChecksNamed, CheckNamed, AtCheck,
         Ticketed, Repaired, AllowedFit, Undisturbed
<1>2. RecordReverted(v) \/ RecordTerminal(v) \/ FinishTerminal(v)
  BY NothingFails
     DEF CheckStep, StartCheck, ReadProposal, RegressionPasses, RegressionFails,
         SyncRuntime, RecordVerified, FinishVerified, SyncFails, QueueGitSync,
         RecordSyncPending, GitSyncs, RecordGitSynced, GitSyncFails, RecoveredBefore,
         RevertPromoted, RevertFails, RecordRecoveryPending, FinishRecoveryPending,
         RecordRepair, FinishNeedsRepair, RequeueForRepair
<1>3. CASE RecordReverted(v)
  <2>1. Move(v, "terminal")
    BY <1>1, <1>3 DEF RecordReverted
  <2>2. QED
    BY <1>1, <1>3, <2>1, MoveRow DEF RecordReverted, CheckStates, jobvars
<1>4. CASE RecordTerminal(v)
  BY <1>1, <1>4, MoveRow DEF RecordTerminal, CheckStates, jobvars
<1>5. CASE FinishTerminal(v)
  <2>1. checking[v].kind = "full_regression"
    BY <1>1, <1>5 DEF FinishTerminal, CheckNamed, JobsTypeOK, JobTicket, Kinds
  <2>2. QED
    BY <1>1, <1>5, <2>1, FinishFull, PoolStatuses DEF FinishTerminal
<1>6. QED
  BY <1>2, <1>3, <1>4, <1>5

LEMMA FailedStays ==
    ASSUME Undisturbed, Calm, [PoolNext]_everything, NEW t \in Tasks, Failed(t)
    PROVE  Failed(t)'
<1>1. CASE Full(t) = "failed_terminal"
  BY <1>1, FullStays DEF Failed, ClaimableJob
<1>2. ASSUME NEW v \in Verifiers, Its(v) = t,
             check[v].at \in {"reverted", "terminal", "terminal_recorded"}
      PROVE  Failed(t)'
  <2>1. CASE ~CheckStep(v)
    <3>1. check'[v] = check[v] /\ checking'[v] = checking[v]
      BY <1>2, <2>1, CalmVerifierStays DEF AtCheck
    <3>2. QED
      BY <1>2, <3>1 DEF Failed, Its
  <2>2. CASE CheckStep(v)
    BY <1>2, <2>2, RecoveryGoesOn DEF Failed, Its
  <2>3. QED
    BY <2>1, <2>2
<1>3. QED
  BY <1>1, <1>2 DEF Failed

\* A commit is reverted by a verification that has failed.
LEMMA RevertsAreFailures ==
    ASSUME Undisturbed, Calm, [PoolNext]_everything, NEW t \in Tasks,
           NEW i \in CandidatesOf(t)', Reverted(i)'
    PROVE  Failed(t)'
<1>1. PoolNamed /\ Sound /\ RevertsLookBack
  BY CalmIsSound DEF Sound
<1>2. CASE Reverted(i) /\ i \in CandidatesOf(t)
  BY <1>2, FailedStays DEF Calm, JobCalm
<1>3. ASSUME NEW v \in Verifiers, RevertPromoted(v), check[v].at = "failed",
             i = PromotedCommit(check[v].snap), i \in CandidatesOf(t)
      PROVE  Failed(t)'
  <2>1. i \in Refs(Its(v)) /\ i \in Commits
    BY <1>1, <1>3 DEF Sound, Named, SnapRefs, PromotedCommit, CandidatesOf
  <2>2. i \in CandidatesOf(Its(v))
    BY <1>1, <2>1, RefsInMain
  <2>3. t = Its(v)
    BY <1>3, <2>2 DEF CandidatesOf
  <2>4. check'[v].at = "reverted" /\ checking' = checking
    BY <1>1, <1>3, MoveRow DEF RevertPromoted, CheckStates, jobvars, PoolNamed
  <2>5. QED
    BY <2>3, <2>4 DEF Failed, Its
<1>4. QED
  BY <1>1, <1>2, <1>3, RevertSteps

\* A proposal that is promoted, or is now, has no verification before it.
LEMMA PromotedIsOver ==
    ASSUME Undisturbed, Calm, [PoolNext]_everything, NEW t \in Tasks,
           prop'[t].status = "promoted"
    PROVE  /\ Full(t)' \notin ClaimableJob \cup {"failed_terminal"}
           /\ \A v \in Verifiers : Regresses(v, t)' => check'[v].at = "promoted"
<1>1. PoolNamed /\ Ticketed /\ Sound /\ JobCalm(t)
  BY CalmIsSound DEF Calm
<1>2. CASE prop[t].status = "promoted"
  <2>1. /\ Full(t) \notin ClaimableJob \cup {"failed_terminal"}
        /\ \A v \in Verifiers : Regresses(v, t) => check[v].at = "promoted"
    BY <1>1, <1>2 DEF JobCalm
  <2>2. Full(t)' \notin ClaimableJob \cup {"failed_terminal"}
    BY <1>2, <2>1, FullSteps, ProposalFacts
       DEF FullQueued, FullClaimed, FullFinished, ClaimableJob, Pending
  <2>3. QED
    BY <2>1, <2>2, RegressionsGoOn
<1>3. ASSUME NEW w \in Workers, RecordPromotion(w), t = Mine(w)
      PROVE  /\ Full(t)' \notin ClaimableJob \cup {"failed_terminal"}
             /\ \A v \in Verifiers : ~Regresses(v, t)'
  <2>1. NoJobs(t) /\ job' = job /\ check' = check /\ checking' = checking
    BY <1>1, <1>3 DEF RecordPromotion, Sound, TurnSound, WorkerUnchanged
  <2>2. Full(t)' = "absent" /\ Full(t) = "absent"
    BY <2>1 DEF NoJobs, Full, Kinds
  <2>3. \A v \in Verifiers : ~Regresses(v, t)
    BY <2>2, RegressionIsClaimed
  <2>4. QED
    BY <2>1, <2>2, <2>3 DEF Regresses, Its, ClaimableJob
<1>4. ASSUME NEW v \in Verifiers, RecordVerified(v), t = Its(v)
      PROVE  /\ Full(t)' \notin ClaimableJob \cup {"failed_terminal"}
             /\ \A u \in Verifiers : Regresses(u, t)' => check'[u].at = "promoted"
  <2>1. /\ check'[v].at = "promoted" /\ checking' = checking /\ job' = job
        /\ \A u \in Verifiers \ {v} : check'[u] = check[u]
    BY <1>1, <1>4, MoveRow
       DEF RecordVerified, CheckStates, jobvars, PoolNamed, Move, PoolTypeOK
  <2>2. Regresses(v, t)
    BY <1>1, <1>4
       DEF RecordVerified, Regresses, Unfinished, PoolNamed, PoolTypeOK, ChecksNamed,
           CheckNamed, JobsTypeOK, JobTicket, Kinds
  <2>3. Full(t)' = "claimed"
    BY <2>1, <2>2, RegressionIsClaimed DEF Full
  <2>4. ASSUME NEW u \in Verifiers, Regresses(u, t)', u # v PROVE FALSE
    <3>1. Regresses(u, t)
      BY <2>1, <2>4 DEF Regresses, Its
    <3>2. QED
      BY <2>2, <2>4, <3>1, OneRegressionPerTask
  <2>5. QED
    BY <2>1, <2>3, <2>4 DEF ClaimableJob
<1>5. ASSUME NEW v \in Verifiers, RecordGitSynced(v), t = Its(v)
      PROVE  /\ Full(t)' \notin ClaimableJob \cup {"failed_terminal"}
             /\ \A u \in Verifiers : ~Regresses(u, t)'
  <2>1. Full(t) = "verified_pending_sync"
    BY <1>1, <1>5 DEF RecordGitSynced, Calm, CheckCalm, JobCalm
  <2>2. Full(t)' = "verified_pending_sync" /\ \A u \in Verifiers : ~Regresses(u, t)
    BY <2>1, FullStays, RegressionIsClaimed DEF ClaimableJob
  <2>3. QED
    BY <2>1, <2>2, RegressionsGoOn DEF ClaimableJob
<1>6. CASE prop[t].status # "promoted"
  BY <1>1, <1>3, <1>4, <1>5, <1>6, WhoPromotes DEF Undisturbed
<1>7. QED
  BY <1>2, <1>6

\* A verifier that has recorded a failure for good then ends the job.
LEMMA TerminalStays ==
    ASSUME Undisturbed, Calm, [PoolNext]_everything, NEW t \in Tasks,
           \/ Full(t) = "failed_terminal"
           \/ \E v \in Verifiers : Its(v) = t /\ check[v].at = "terminal_recorded"
    PROVE  \/ Full(t)' = "failed_terminal"
           \/ \E v \in Verifiers : Its(v)' = t /\ check'[v].at = "terminal_recorded"
<1>1. CASE Full(t) = "failed_terminal"
  BY <1>1, FullStays DEF ClaimableJob
<1>2. ASSUME NEW v \in Verifiers, Its(v) = t, check[v].at = "terminal_recorded"
      PROVE  \/ Full(t)' = "failed_terminal"
             \/ Its(v)' = t /\ check'[v].at = "terminal_recorded"
  <2>1. CASE ~CheckStep(v)
    BY <1>2, <2>1, CalmVerifierStays DEF AtCheck, Its
  <2>2. CASE CheckStep(v)
    BY <1>2, <2>2, RecoveryGoesOn
  <2>3. QED
    BY <2>1, <2>2
<1>3. QED
  BY <1>1, <1>2

\* Without repairs, only the verifier that ends the job says so.
LEMMA WhoGivesUp ==
    ASSUME Undisturbed, Calm, [PoolNext]_everything, NEW t \in Tasks,
           prop'[t].status = "reverted_verification_failure",
           prop[t].status # "reverted_verification_failure"
    PROVE  \E v \in Verifiers : Its(v)' = t /\ check'[v].at = "terminal_recorded"
<1>1. PoolNamed
  BY CalmIsSound
<1>2. ASSUME NEW w \in Workers, NEW status \in {"implementation_paused", "archived_failed"},
             CodingEnds(w, status), t = Mine(w)
      PROVE  FALSE
  BY <1>1, <1>2, CodingEndsRow
<1>3. ASSUME NEW w \in Workers, RecordPromotion(w), t = Mine(w) PROVE FALSE
  BY <1>1, <1>3, RecordPromotionRow DEF Pending
<1>4. ASSUME NEW w \in Workers, ParkProposal(w), t = Mine(w) PROVE FALSE
  BY <1>1, <1>4, ParkProposalRow DEF Parked
<1>5. ASSUME NEW v \in Verifiers, t = Its(v), Judges(v)
      PROVE  Its(v)' = t /\ check'[v].at = "terminal_recorded"
  <2>1. RecordTerminal(v)
    BY <1>1, <1>5, VerifierRows DEF Judges, Pending
  <2>2. check'[v].at = "terminal_recorded" /\ checking' = checking
    BY <1>1, <2>1, MoveRow DEF RecordTerminal, CheckStates, jobvars, PoolNamed
  <2>3. QED
    BY <1>5, <2>2 DEF Its
<1>6. prop'[t] # prop[t]
  OBVIOUS
<1>7. QED
  BY <1>2, <1>3, <1>4, <1>5, <1>6, CalmPropWrites

LEMMA JobStaysCalm ==
    ASSUME Undisturbed, Calm, [PoolNext]_everything, NEW t \in Tasks PROVE JobCalm(t)'
<1>1. JobCalm(t)
  BY DEF Calm
<1>2. ASSUME Git(t)' # "absent" PROVE Full(t)' = "verified_pending_sync"
  <2>1. Full(t) = "verified_pending_sync"
    <3>1. CASE Git(t) # "absent"
      BY <1>1, <3>1 DEF JobCalm
    <3>2. ASSUME NEW v \in Verifiers, QueueGitSync(v), t = Its(v)
          PROVE  Full(t) = "verified_pending_sync"
      BY <3>2 DEF QueueGitSync, Calm, CheckCalm
    <3>3. QED
      BY <1>2, <3>1, <3>2, GitSteps
  <2>2. QED
    BY <2>1, FullStays DEF ClaimableJob
<1>3. (\E i \in CandidatesOf(t)' : Reverted(i)') => Failed(t)'
  BY RevertsAreFailures
<1>4. ASSUME prop'[t].status = "reverted_verification_failure"
      PROVE  \/ Full(t)' = "failed_terminal"
             \/ \E v \in Verifiers : Its(v)' = t /\ check'[v].at = "terminal_recorded"
  <2>1. CASE prop[t].status = "reverted_verification_failure"
    BY <1>1, <2>1, TerminalStays DEF JobCalm
  <2>2. CASE prop[t].status # "reverted_verification_failure"
    BY <1>4, <2>2, WhoGivesUp
  <2>3. QED
    BY <2>1, <2>2
<1>5. prop'[t].status = "promoted" =>
         /\ Full(t)' \notin ClaimableJob \cup {"failed_terminal"}
         /\ \A v \in Verifiers : Regresses(v, t)' => check'[v].at = "promoted"
  BY PromotedIsOver
<1>6. QED
  BY <1>2, <1>3, <1>4, <1>5 DEF JobCalm

----------------------------------------------------------------------------
(* The invariant and what follows from it.                                 *)

LEMMA CalmIsInductive ==
    ASSUME Undisturbed, Calm, [PoolNext]_everything PROVE Calm'
<1>1. Sound' /\ SyncCalm'
  BY CalmIsSound, SyncStaysCalm
<1>2. \A t \in Tasks : RowCalm(t)' /\ JobCalm(t)'
  BY RowStaysCalm, JobStaysCalm
<1>3. /\ \A w \in Workers : TurnCalm(w)'
      /\ \A v \in Verifiers : CheckCalm(v)'
  BY TurnStaysCalm, CheckStaysCalm
<1>4. QED
  BY <1>1, <1>2, <1>3 DEF Calm

LEMMA PoolStartsCalm == ASSUME PoolInit PROVE Calm
<1>1. \A t \in Tasks : CandidatesOf(t) = {}
  BY DEF PoolInit, Commits, CandidatesOf
<1>2. SyncCalm /\ \A w \in Workers : TurnCalm(w)
  BY IdleThreadsTyped DEF PoolInit, SyncCalm, TurnCalm
<1>3. \A v \in Verifiers : CheckCalm(v)
  BY IdleThreadsTyped DEF PoolInit, CheckCalm
<1>4. ASSUME NEW t \in Tasks PROVE RowCalm(t)
  <2>1. task[t].token = 0
    <3>1. NoRow.token = 0 /\ LegacyRow(t).token = 0
      BY DEF NoRow, LegacyRow
    <3>2. task[t] \in {LegacyRow(t), NoRow}
      BY <1>4 DEF PoolInit, Init
    <3>3. QED
      BY <3>1, <3>2
  <2>2. QED
    BY <1>1, <2>1 DEF RowCalm, Unrecorded
<1>5. ASSUME NEW t \in Tasks PROVE JobCalm(t)
  <2>1. prop[t].status = "proposed"
    BY <1>5 DEF PoolInit, NewProposal
  <2>2. Git(t) = "absent"
    BY <1>5 DEF PoolInit, JobsInit, NoJob, Git, Kinds
  <2>3. QED
    BY <1>1, <2>1, <2>2 DEF JobCalm
<1>6. QED
  BY <1>2, <1>3, <1>4, <1>5, PoolStartsSound DEF Calm

\* A proposal recorded as promoted has a commit in main, and none of its
\* commits is reverted: the radar database and Git agree on what is running.
THEOREM PromotedCodeIsRunning ==
    ASSUME Undisturbed PROVE PoolSpec => []PromotedCodeIsInMain
<1>1. PoolInit => Calm
  BY PoolStartsCalm
<1>2. Calm /\ [PoolNext]_everything => Calm'
  BY CalmIsInductive
<1>3. ASSUME Calm, NEW t \in Tasks, prop[t].status = "promoted"
      PROVE  \E i \in CandidatesOf(t) : InForce(i)
  <2>1. PICK i \in CandidatesOf(t) : TRUE
    BY <1>3, ProposalFacts
       DEF Calm, Sound, TaskSound, SaysPromoted, Parked
  <2>2. ASSUME NEW v \in Verifiers, Its(v) = t,
               check[v].at \in {"reverted", "terminal", "terminal_recorded"}
        PROVE  FALSE
    <3>1. checking[v].kind = "full_regression"
      BY <1>3, <2>2
         DEF Calm, Sound, Named, PoolNamed, PoolTypeOK, JobsTypeOK, ChecksNamed,
             CheckNamed, JobTicket, Kinds
    <3>2. Regresses(v, t)
      BY <2>2, <3>1 DEF Regresses, Unfinished
    <3>3. QED
      BY <1>3, <2>2, <3>2 DEF Calm, JobCalm
  <2>3. ~Reverted(i)
    BY <1>3, <2>2 DEF Calm, JobCalm, Failed
  <2>4. QED
    BY <2>3 DEF InForce, CandidatesOf
<1>4. Calm => PromotedCodeIsInMain
  BY <1>3 DEF PromotedCodeIsInMain
<1>5. QED
  BY <1>1, <1>2, <1>4, PTL DEF PoolSpec

\* Nobody writes to a proposal whose verification has failed for good.
LEMMA GivenUpIsGivenUp ==
    ASSUME Undisturbed, Calm, [PoolNext]_everything, NEW t \in Tasks,
           prop[t].status = "reverted_verification_failure"
    PROVE  prop'[t].status = "reverted_verification_failure"
<1>1. PoolNamed /\ Sound /\ TaskSound(t) /\ JobCalm(t)
  BY CalmIsSound DEF Calm, Sound
<1>2. CandidatesOf(t) # {}
  BY <1>1, ProposalFacts DEF TaskSound, SaysPromoted, Parked
<1>3. /\ Full(t) \in {"failed_terminal", "claimed"}
      /\ \A v \in Verifiers : Regresses(v, t) => check[v].at = "terminal_recorded"
  <2>1. CASE Full(t) = "failed_terminal"
    BY <2>1, RegressionIsClaimed
  <2>2. ASSUME NEW u \in Verifiers, Its(u) = t, check[u].at = "terminal_recorded"
        PROVE  Regresses(u, t)
    BY <1>1, <2>2
       DEF PoolNamed, PoolTypeOK, JobsTypeOK, ChecksNamed, CheckNamed, JobTicket, Kinds,
           Regresses, Unfinished
  <2>3. QED
    BY <1>1, <2>1, <2>2, RegressionIsClaimed, OneRegressionPerTask DEF JobCalm
<1>4. ASSUME NEW w \in Workers, t = Mine(w)
      PROVE  turn[w].at \notin {"coding", "committed", "park"}
  <2>1. ~NoJobs(t)
    BY <1>3 DEF NoJobs, Full, Kinds
  <2>2. QED
    BY <1>1, <1>2, <1>4, <2>1 DEF Calm, TurnCalm, Sound, TurnSound
<1>5. ASSUME NEW v \in Verifiers, t = Its(v), Judges(v) PROVE RecordTerminal(v)
  <2>1. CASE RecordVerified(v) \/ RecordRecoveryPending(v) \/ RecordReverted(v)
    <3>1. check[v].at \in {"synced", "unreverted", "reverted"}
      BY <2>1 DEF RecordVerified, RecordRecoveryPending, RecordReverted
    <3>2. Regresses(v, t)
      BY <1>1, <1>5, <3>1
         DEF PoolNamed, PoolTypeOK, JobsTypeOK, ChecksNamed, CheckNamed, JobTicket, Kinds,
             Regresses, Unfinished
    <3>3. QED
      BY <1>3, <3>1, <3>2
  <2>2. CASE RecordSyncPending(v) \/ RecordGitSynced(v)
    <3>1. Full(t) = "verified_pending_sync"
      BY <1>1, <1>5, <2>2
         DEF RecordSyncPending, RecordGitSynced, Calm, CheckCalm, JobCalm
    <3>2. QED
      BY <1>3, <3>1
  <2>3. QED
    BY <1>5, <2>1, <2>2 DEF Judges
<1>6. QED
  BY <1>1, <1>4, <1>5, CalmPropWrites, VerifierRows

\* A verification that ended in failure for good is not reopened, by the
\* workers, by the synchronisation or by another verifier.
THEOREM FailuresStayTerminal ==
    ASSUME Undisturbed PROVE PoolSpec => FailedVerificationIsTerminal
<1> DEFINE A == \A t \in Tasks : prop[t].status = "reverted_verification_failure" =>
                                    prop'[t].status = "reverted_verification_failure"
<1>1. PoolInit => Calm
  BY PoolStartsCalm
<1>2. Calm /\ [PoolNext]_everything => Calm'
  BY CalmIsInductive
<1>3. Calm /\ [PoolNext]_everything => [A]_everything
  BY GivenUpIsGivenUp
<1>4. QED
  BY <1>1, <1>2, <1>3, PTL DEF PoolSpec, FailedVerificationIsTerminal

----------------------------------------------------------------------------
(* The pool implements OneTrial.                                           *)

\* The verifier that stands for a verdict has the regression in its hands.
LEMMA VerdictIsOfRegression ==
    ASSUME Calm, NEW v \in Verifiers, NEW t, t = Its(v), check[v].at \in Unfinished,
           check[v].at # "claimed"
    PROVE  t \in Tasks /\ Regresses(v, t)
BY DEF Calm, Sound, Named, PoolNamed, PoolTypeOK, JobsTypeOK, ChecksNamed, CheckNamed,
       AtCheck, JobTicket, Kinds, Regresses, Unfinished

\* What is tested, or kept, is in main, and no commit of it is reverted.
LEMMA TestedIsInForce ==
    ASSUME Calm, NEW t \in Tasks,
           KeptInMain(t) \/ \E v \in Verifiers : Regresses(v, t) /\ check[v].at = "testing"
    PROVE  /\ CandidatesOf(t) # {}
           /\ \A i \in CandidatesOf(t) : ~Reverted(i)
<1>1. \/ Full(t) \in {"verified", "verified_pending_sync"}
      \/ Full(t) = "claimed" /\ \E v \in Verifiers :
            Regresses(v, t) /\ check[v].at \in {"testing", "passed", "synced", "promoted"}
  BY VerdictIsOfRegression, RegressionIsClaimed DEF KeptInMain, Full, Unfinished
<1>2. ~NoJobs(t)
  BY <1>1 DEF NoJobs, Full, Kinds
<1>3. CandidatesOf(t) # {}
  BY <1>2 DEF Calm, Sound, TaskSound, Recorded
<1>4. ~Failed(t)
  <2>1. Full(t) # "failed_terminal"
    BY <1>1
  <2>2. ASSUME NEW u \in Verifiers, Its(u) = t,
               check[u].at \in {"reverted", "terminal", "terminal_recorded"}
        PROVE  FALSE
    <3>1. Regresses(u, t)
      BY <2>2, VerdictIsOfRegression DEF Unfinished
    <3>2. QED
      BY <1>1, <2>2, <3>1, RegressionIsClaimed, OneRegressionPerTask
  <2>3. QED
    BY <2>1, <2>2 DEF Failed
<1>5. QED
  BY <1>3, <1>4 DEF Calm, JobCalm

LEMMA KeptStays ==
    ASSUME Undisturbed, Calm, [PoolNext]_everything, NEW t \in Tasks, KeptInMain(t)
    PROVE  KeptInMain(t)'
<1>1. CASE Full(t) \in {"verified", "verified_pending_sync"}
  BY <1>1, FullStays DEF ClaimableJob, Full, KeptInMain
<1>2. ASSUME NEW v \in Verifiers, t = Its(v),
             check[v].at \in {"passed", "synced", "promoted"}
      PROVE  KeptInMain(t)'
  <2>1. PoolNamed /\ TypeOK /\ JobsTypeOK /\ CheckCalm(v)'
    BY CalmIsSound, CheckStaysCalm DEF PoolNamed, PoolTypeOK
  <2>2. CASE ~CheckStep(v)
    BY <1>2, <2>2, CalmVerifierStays DEF AtCheck, Its, KeptInMain
  <2>3. ASSUME Goes(v, "passed", "synced") \/ Goes(v, "synced", "promoted")
        PROVE  KeptInMain(t)'
    BY <1>2, <2>3 DEF Goes, Its, KeptInMain
  <2>4. ASSUME Goes(v, "passed", "unsynced") PROVE KeptInMain(t)'
    BY <1>2, <2>1, <2>4 DEF Goes, Its, CheckCalm, Full, KeptInMain
  <2>5. ASSUME CheckStep(v), EndCheck(v), check'[v].at = "over" PROVE KeptInMain(t)'
    <3>1. checking[v].kind = "full_regression"
      BY <1>2, VerdictIsOfRegression DEF Regresses, Unfinished
    <3>2. FinishVerified(v)
      BY <1>2, <2>1, <2>5, NothingFails
         DEF CheckStep, StartCheck, ReadProposal, RegressionPasses, RegressionFails,
             SyncRuntime, RecordVerified, SyncFails, QueueGitSync, RecordSyncPending,
             GitSyncs, RecordGitSynced, GitSyncFails, RecoveredBefore, RevertPromoted,
             RevertFails, RecordRecoveryPending, FinishRecoveryPending, RecordReverted,
             RecordTerminal, FinishTerminal, RecordRepair, FinishNeedsRepair,
             RequeueForRepair, Move, PoolNamed, PoolTypeOK, Check
    <3>3. Full(t)' = "verified"
      BY <1>2, <2>1, <3>1, <3>2, FinishFull, PoolStatuses DEF FinishVerified
    <3>4. QED
      BY <3>3 DEF Full, KeptInMain
  <2>6. CASE CheckStep(v)
    BY <1>2, <2>1, <2>3, <2>4, <2>5, <2>6, CheckMoves DEF Goes
  <2>7. QED
    BY <2>2, <2>6
<1>3. QED
  BY <1>1, <1>2 DEF KeptInMain, Full

\* Only a regression that passes makes the code kept.
LEMMA WhoKeeps ==
    ASSUME Undisturbed, Calm, [PoolNext]_everything, NEW t \in Tasks, ~KeptInMain(t), KeptInMain(t)'
    PROVE  \E v \in Verifiers : RegressionPasses(v) /\ t = Its(v)
<1>1. PoolNamed
  BY CalmIsSound
<1>2. CASE Full(t)' \in {"verified", "verified_pending_sync"}
  <2>1. Full(t) \notin {"verified", "verified_pending_sync"}
    BY DEF KeptInMain, Full
  <2>2. PICK v \in Verifiers : Regresses(v, t) /\ check[v].at \in {"promoted", "passed"}
    BY <1>2, <2>1, FullSteps DEF FullQueued, FullClaimed, FullFinished
  <2>3. QED
    BY <2>2 DEF Regresses, KeptInMain
<1>3. ASSUME NEW v \in Verifiers, Its(v)' = t,
             check'[v].at \in {"passed", "synced", "promoted"}
      PROVE  RegressionPasses(v) /\ t = Its(v)
  <2>1. CASE ~CheckStep(v)
    BY <1>3, <2>1, CalmVerifierStays DEF AtCheck, Its, KeptInMain
  <2>2. CASE CheckStep(v)
    BY <1>1, <1>3, <2>2, CheckMoves DEF Goes, Its, KeptInMain
  <2>3. QED
    BY <2>1, <2>2
<1>4. QED
  BY <1>2, <1>3 DEF KeptInMain, Full

\* The code of a task whose commits and verdict stay is where it was.
CodeStays(t) == CodeOf(t)' = CodeOf(t)

LEMMA SameCode ==
    ASSUME Undisturbed, Calm, [PoolNext]_everything, NEW t \in Tasks,
           CandidatesOf(t)' = CandidatesOf(t),
           \A i \in CandidatesOf(t) : Reverted(i)' <=> Reverted(i),
           \A v \in Verifiers : RegressionPasses(v) => t # Its(v)
    PROVE  CodeStays(t)
<1>1. KeptInMain(t)' = KeptInMain(t)
  BY KeptStays, WhoKeeps DEF KeptInMain
<1>2. (\A i \in CandidatesOf(t)' : Reverted(i)') <=> \A i \in CandidatesOf(t) : Reverted(i)
  OBVIOUS
<1>3. QED
  BY <1>1, <1>2 DEF CodeOf, CodeStays

\* What a step does to the code of one task, when no record is written.
CodeMoves(t, from, to) ==
    /\ CodeOf(t) = from /\ CodeOf(t)' = to
    /\ \A u \in Tasks \ {t} : CodeStays(u)
    /\ prop' = prop

LEMMA PromotionIsTry ==
    ASSUME Undisturbed, Calm, [PoolNext]_everything, NEW w \in Workers, PromoteCandidate(w),
           NEW t, t = Mine(w)
    PROVE  t \in Tasks /\ CodeMoves(t, "untried", "on trial")
<1>1. PoolNamed /\ Calm' /\ RevertsLookBack
  BY CalmIsSound, CalmIsInductive DEF Sound
<1>2. /\ t \in Tasks /\ Len(main) \in Nat /\ Commits' = Commits \cup {Len(main) + 1}
      /\ \A i \in Commits : main'[i] = main[i]
      /\ main'[Len(main) + 1].of = t /\ main'[Len(main) + 1].undoes = 0
  BY <1>1, PromotionAppends
<1>3. CandidatesOf(t) = {}
  BY DEF Calm, Sound, TurnSound, PromoteCandidate
<1>4. \A i : Reverted(i)' = Reverted(i)
  BY <1>2 DEF Reverted
<1>5. \A v \in Verifiers : ~RegressionPasses(v)
  <2>1. main' # main
    BY <1>2 DEF Commits
  <2>2. QED
    BY <2>1 DEF RegressionPasses
<1>6. CodeOf(t) = "untried"
  BY <1>3 DEF CodeOf
<1>7. CodeOf(t)' = "on trial"
  <2> PICK n : n = Len(main) + 1
    OBVIOUS
  <2>1. CandidatesOf(t)' = {n}
    BY <1>2, <1>3 DEF CandidatesOf
  <2>2. ~Reverted(n)'
    BY <1>1, <1>2, <1>4 DEF Reverted, RevertsLookBack, Commits
  <2>3. ~KeptInMain(t)'
    BY <1>2, <1>3, <1>5, TestedIsInForce, WhoKeeps
  <2>4. QED
    BY <2>1, <2>2, <2>3 DEF CodeOf
<1>8. ASSUME NEW u \in Tasks \ {t} PROVE CodeStays(u)
  <2>1. CandidatesOf(u)' = CandidatesOf(u)
    BY <1>2 DEF CandidatesOf
  <2>2. QED
    BY <1>4, <1>5, <2>1, SameCode
<1>9. prop' = prop
  BY DEF PromoteCandidate
<1>10. QED
  BY <1>2, <1>6, <1>7, <1>8, <1>9 DEF CodeMoves

LEMMA RevertIsWithdrawal ==
    ASSUME Undisturbed, Calm, [PoolNext]_everything, NEW v \in Verifiers, RevertPromoted(v),
           NEW t, t = Its(v)
    PROVE  t \in Tasks /\ CodeMoves(t, "on trial", "withdrawn")
<1> DEFINE commit == PromotedCommit(check[v].snap)
<1>1. PoolNamed /\ Sound /\ check[v].at = "failed"
  BY CalmIsSound DEF RevertPromoted
<1>2. /\ t \in Tasks /\ Len(main) \in Nat /\ Commits' = Commits \cup {Len(main) + 1}
      /\ \A i \in Commits : main'[i] = main[i]
      /\ main'[Len(main) + 1].undoes = commit
      /\ commit \in Commits /\ commit # 0 /\ ~Reverted(commit)
  BY <1>1, RevertAppends
<1>3. commit \in CandidatesOf(t)
  BY <1>1, <1>2, RefsInMain DEF Sound, Named, SnapRefs, PromotedCommit
<1>4. \A u \in Tasks : CandidatesOf(u)' = CandidatesOf(u)
  BY <1>2 DEF CandidatesOf
<1>5. \A i : Reverted(i)' <=> Reverted(i) \/ i = commit
  BY <1>2 DEF Reverted
<1>6. ~KeptInMain(t)
  <2>1. Regresses(v, t)
    BY <1>1, VerdictIsOfRegression DEF Unfinished
  <2>2. ASSUME NEW u \in Verifiers, t = Its(u),
               check[u].at \in {"passed", "synced", "promoted"}
        PROVE  FALSE
    BY <1>1, <1>2, <2>1, <2>2, VerdictIsOfRegression, OneRegressionPerTask DEF Unfinished
  <2>3. QED
    BY <1>2, <2>1, <2>2, RegressionIsClaimed DEF KeptInMain, Full
<1>7. CodeOf(t) = "on trial"
  BY <1>2, <1>3, <1>6 DEF CodeOf
<1>8. CodeOf(t)' = "withdrawn"
  <2>1. \A i \in CandidatesOf(t)' : Reverted(i)'
    BY <1>1, <1>2, <1>3, <1>4, <1>5 DEF Sound, TaskSound, OneCandidate
  <2>2. QED
    BY <1>2, <1>3, <1>4, <2>1 DEF CodeOf
<1>9. ASSUME NEW u \in Tasks \ {t} PROVE CodeStays(u)
  <2>1. commit \notin CandidatesOf(u)
    BY <1>3 DEF CandidatesOf
  <2>2. \A x \in Verifiers : ~RegressionPasses(x)
    <3>1. Len(main) \in Nat /\ Commits' = Commits \cup {Len(main) + 1}
      BY <1>2
    <3>2. main' # main
      BY <3>1 DEF Commits
    <3>3. QED
      BY <3>2 DEF RegressionPasses
  <2>3. CandidatesOf(u)' = CandidatesOf(u)
        /\ \A i \in CandidatesOf(u) : Reverted(i)' <=> Reverted(i)
    BY <1>4, <1>5, <2>1
  <2>4. QED
    BY <2>2, <2>3, SameCode
<1>10. prop' = prop
  BY DEF RevertPromoted
<1>11. QED
  BY <1>2, <1>7, <1>8, <1>9, <1>10 DEF CodeMoves

LEMMA PassIsKeeping ==
    ASSUME Undisturbed, Calm, [PoolNext]_everything, NEW v \in Verifiers, RegressionPasses(v),
           NEW t, t = Its(v)
    PROVE  t \in Tasks /\ CodeMoves(t, "on trial", "kept")
<1>1. PoolNamed /\ Calm' /\ check[v].at = "testing" /\ Regresses(v, t) /\ t \in Tasks
  BY CalmIsSound, CalmIsInductive, VerdictIsOfRegression DEF RegressionPasses, Unfinished
<1>2. /\ check'[v].at = "passed" /\ checking' = checking /\ main' = main /\ prop' = prop
      /\ \A u \in Verifiers \ {v} : check'[u] = check[u]
  BY <1>1, MoveRow
     DEF RegressionPasses, CheckStates, jobvars, PoolNamed, Move, PoolTypeOK
<1>3. \A u : CandidatesOf(u)' = CandidatesOf(u) /\ Reverted(u)' = Reverted(u)
  BY <1>2 DEF CandidatesOf, Reverted, Commits
<1>4. KeptInMain(t)'
  BY <1>2 DEF KeptInMain, Its
<1>5. CandidatesOf(t) # {} /\ \A i \in CandidatesOf(t) : ~Reverted(i)
  BY <1>1, TestedIsInForce
<1>6. ~KeptInMain(t)
  <2>1. ASSUME NEW u \in Verifiers, t = Its(u),
               check[u].at \in {"passed", "synced", "promoted"}
        PROVE  FALSE
    BY <1>1, <2>1, VerdictIsOfRegression, OneRegressionPerTask DEF Unfinished
  <2>2. QED
    BY <1>1, <2>1, RegressionIsClaimed DEF KeptInMain, Full
<1>7. CodeOf(t) = "on trial"
  BY <1>5, <1>6 DEF CodeOf
<1>8. CodeOf(t)' = "kept"
  BY <1>3, <1>4, <1>5 DEF CodeOf
<1>9. ASSUME NEW u \in Tasks \ {t} PROVE CodeStays(u)
  <2>1. ASSUME NEW x \in Verifiers, RegressionPasses(x), u = Its(x) PROVE FALSE
    <3>1. check'[x].at = "passed" /\ check[x].at = "testing"
      BY <1>1, <2>1, MoveRow DEF RegressionPasses, CheckStates, PoolNamed
    <3>2. QED
      BY <1>2, <2>1, <3>1
  <2>2. QED
    BY <1>3, <2>1, SameCode
<1>10. QED
  BY <1>1, <1>2, <1>7, <1>8, <1>9 DEF CodeMoves

\* Every step tries, keeps or withdraws the code of one task, or leaves it.
LEMMA CodeSteps ==
    ASSUME Undisturbed, Calm, [PoolNext]_everything
    PROVE  \/ \E t \in Tasks : \/ CodeMoves(t, "untried", "on trial")
                              \/ CodeMoves(t, "on trial", "kept")
                              \/ CodeMoves(t, "on trial", "withdrawn")
           \/ \A t \in Tasks : CodeStays(t)
<1>1. CASE \E w \in Workers : PromoteCandidate(w)
  BY <1>1, PromotionIsTry
<1>2. CASE \E v \in Verifiers : RevertPromoted(v) \/ RegressionPasses(v)
  BY <1>2, RevertIsWithdrawal, PassIsKeeping
<1>3. CASE main' = main /\ \A v \in Verifiers : ~RegressionPasses(v)
  <2>1. \A i : CandidatesOf(i)' = CandidatesOf(i) /\ (Reverted(i)' <=> Reverted(i))
    BY <1>3 DEF CandidatesOf, Reverted, Commits
  <2>2. QED
    BY <1>3, <2>1, SameCode
<1>4. QED
  BY <1>1, <1>2, <1>3, MainWrites

\* Who promotes has kept, and who gives up has withdrawn.
LEMMA PromotedIsKept ==
    ASSUME Undisturbed, Defer, Calm, [PoolNext]_everything, NEW t \in Tasks,
           prop'[t].status = "promoted", prop[t].status # "promoted"
    PROVE  CodeOf(t) = "kept"
<1>1. PoolNamed
  BY CalmIsSound
<1>2. PICK v \in Verifiers : (RecordVerified(v) \/ RecordGitSynced(v)) /\ t = Its(v)
  BY <1>1, WhoPromotes DEF Undisturbed
<1>3. ASSUME RecordVerified(v) PROVE KeptInMain(t)
  BY <1>2, <1>3 DEF RecordVerified, KeptInMain
<1>4. ASSUME RecordGitSynced(v) PROVE KeptInMain(t)
  BY <1>2, <1>4 DEF RecordGitSynced, Calm, CheckCalm, JobCalm, Full, KeptInMain
<1>5. QED
  BY <1>2, <1>3, <1>4, TestedIsInForce DEF CodeOf

LEMMA FailedIsWithdrawn ==
    ASSUME Undisturbed, Calm, [PoolNext]_everything, NEW t \in Tasks, CodeStays(t),
           prop'[t].status = "reverted_verification_failure",
           prop[t].status # "reverted_verification_failure"
    PROVE  CodeOf(t) = "withdrawn"
<1>1. PICK v \in Verifiers : Its(v)' = t /\ check'[v].at = "terminal_recorded"
  BY WhoGivesUp
<1>2. CheckSound(v)'
  BY CalmIsSound DEF Sound
<1>3. AllReverted(t)'
  BY <1>1, <1>2 DEF CheckSound, AllReverted, CandidatesOf, Its
<1>4. CodeOf(t)' = "withdrawn"
  BY <1>3 DEF AllReverted, CodeOf
<1>5. QED
  BY <1>4 DEF CodeStays

\* A step writes one proposal.
LEMMA OneRecordAtATime ==
    ASSUME Undisturbed, Calm, [PoolNext]_everything, NEW t \in Tasks, prop'[t] # prop[t]
    PROVE  \A u \in Tasks \ {t} : prop'[u] = prop[u]
<1>1. PoolNamed
  BY CalmIsSound
<1>2. ASSUME NEW v \in Verifiers, Judges(v), t = Its(v) PROVE PropOnly(t)
  BY <1>1, <1>2, VerifierRows DEF Judges
<1>3. PropOnly(t)
  BY <1>1, <1>2, CalmPropWrites, CodingEndsRow, RecordPromotionRow, ParkProposalRow
<1>4. QED
  BY <1>3 DEF PropOnly

LEMMA CodeMoveIsTrialMove ==
    ASSUME NEW t \in Tasks, NEW from, NEW to, CodeMoves(t, from, to)
    PROVE  Trials!Moves(t, from, to)
<1>1. \A u \in Tasks : RecordOf(u)' = RecordOf(u)
  BY DEF CodeMoves, RecordOf
<1>2. [u \in Tasks |-> CodeOf(u)'] = [[u \in Tasks |-> CodeOf(u)] EXCEPT ![t] = to]
  BY DEF CodeMoves, CodeStays
<1>3. QED
  BY <1>1, <1>2 DEF CodeMoves, Trials!Moves

LEMMA PoolStepIsTrialStep ==
    ASSUME Undisturbed, Defer, Calm, [PoolNext]_everything
    PROVE  [Trials!Next]_<<[t \in Tasks |-> CodeOf(t)], [t \in Tasks |-> RecordOf(t)]>>
<1>1. ASSUME NEW t \in Tasks,
             \/ CodeMoves(t, "untried", "on trial")
             \/ CodeMoves(t, "on trial", "kept")
             \/ CodeMoves(t, "on trial", "withdrawn")
      PROVE  Trials!Next
  BY <1>1, CodeMoveIsTrialMove DEF Trials!Next, Trials!Try, Trials!Keep, Trials!Withdraw
<1>2. ASSUME \A t \in Tasks : CodeStays(t), NEW t \in Tasks, RecordOf(t)' # RecordOf(t)
      PROVE  Trials!Next
  <2>1. PICK entry \in {"open", "promoted", "failed"} : entry = RecordOf(t)'
    BY DEF RecordOf
  <2>2. prop'[t].status # prop[t].status /\ \A u \in Tasks \ {t} : prop'[u] = prop[u]
    BY <1>2, OneRecordAtATime DEF RecordOf
  <2>3. RecordOf(t) # "failed"
    BY <1>2, GivenUpIsGivenUp DEF RecordOf
  <2>4. /\ entry = "promoted" => CodeOf(t) = "kept"
        /\ entry = "failed" => CodeOf(t) = "withdrawn"
    BY <1>2, <2>1, <2>2, PromotedIsKept, FailedIsWithdrawn DEF RecordOf
  <2>5. [u \in Tasks |-> RecordOf(u)']
           = [[u \in Tasks |-> RecordOf(u)] EXCEPT ![t] = entry]
    <3>1. \A u \in Tasks \ {t} : RecordOf(u)' = RecordOf(u)
      BY <2>2 DEF RecordOf
    <3>2. QED
      BY <2>1, <3>1
  <2>6. [u \in Tasks |-> CodeOf(u)'] = [u \in Tasks |-> CodeOf(u)]
    BY <1>2 DEF CodeStays
  <2>7. Trials!Record(t, entry)
    BY <2>3, <2>4, <2>5, <2>6 DEF Trials!Record
  <2>8. QED
    BY <2>1, <2>7 DEF Trials!Next
<1>3. ASSUME \A t \in Tasks : CodeStays(t), \A t \in Tasks : RecordOf(t)' = RecordOf(t)
      PROVE  UNCHANGED <<[t \in Tasks |-> CodeOf(t)], [t \in Tasks |-> RecordOf(t)]>>
  BY <1>3 DEF CodeStays
<1>4. QED
  BY <1>1, <1>2, <1>3, CodeSteps

\* As long as nothing is killed and nothing fails, main, the jobs and the radar
\* database together give every proposal one trial: what the workers, the
\* synchronisation and the verifiers do in their three stores implements
\* OneTrial, for any number of each.
THEOREM PoolImplementsOneTrial ==
    ASSUME Undisturbed, Defer PROVE PoolSpec => EveryProposalHasOneTrial
<1>1. PoolInit => Calm
  BY PoolStartsCalm
<1>2. Calm /\ [PoolNext]_everything => Calm'
  BY CalmIsInductive
<1>3. PoolInit => Trials!Init
  <2>1. SUFFICES ASSUME PoolInit PROVE Trials!Init
    OBVIOUS
  <2>2. \A t \in Tasks : CodeOf(t) = "untried"
    BY <2>1 DEF PoolInit, Commits, CandidatesOf, CodeOf
  <2>3. \A t \in Tasks : RecordOf(t) = "open"
    BY <2>1 DEF PoolInit, NewProposal, RecordOf
  <2>4. QED
    BY <2>2, <2>3 DEF Trials!Init
<1>4. Calm /\ [PoolNext]_everything =>
         [Trials!Next]_<<[t \in Tasks |-> CodeOf(t)], [t \in Tasks |-> RecordOf(t)]>>
  BY PoolStepIsTrialStep
<1>5. QED
  BY <1>1, <1>2, <1>3, <1>4, PTL DEF PoolSpec, EveryProposalHasOneTrial, Trials!Spec
=============================================================================
