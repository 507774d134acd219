------------------------- MODULE VerificationQueue -------------------------
(***************************************************************************)
(* The rows of codex_verification_jobs: how a promoted task is handed to   *)
(* asynchronous verification, claimed by a verifier and finished, and what *)
(* finishing writes back to the task.  The other half of the database of   *)
(* codex_coordination.py, and the threads that use both halves.            *)
(***************************************************************************)
EXTENDS TaskQueue, Integers

CONSTANTS Verifiers     \* the threads that claim jobs, by worker_id

ASSUME VerifiersAreThreads ==
    /\ Verifiers \subseteq Threads /\ Workers \cap Verifiers = {}
    /\ Nobody \notin Verifiers

VARIABLES
    job,        \* the rows of codex_verification_jobs
    checking    \* the job ticket of each verifier

jobvars == <<job, checking>>
allvars == <<vars, jobvars>>

----------------------------------------------------------------------------
Kinds == {"full_regression", "git_sync"}

ClaimableJob == {"queued", "requeued"}

JobStatuses == ClaimableJob \cup
    {"absent", "claimed", "verified", "verified_pending_sync", "synced",
     "failed_terminal", "failed_needs_repair", "failed_missing_proposal"}

\* What a job's payload says is to be verified: the claim that promoted the
\* task, or a commit.  Only equality of payloads matters to the queue.
Revisions == {"claim", "commit"} \X Int
NoRevision == <<"commit", 0>>

JobRow == [status: JobStatuses, rev: Revisions, due: BOOLEAN,
           by: Verifiers \cup {Nobody}, pid: Pids \cup {NoPid}, token: Tokens]

NoJob == [status |-> "absent", rev |-> NoRevision, due |-> TRUE,
          by |-> Nobody, pid |-> NoPid, token |-> 0]

JobTicket == [task: Tasks \cup {NoTask}, kind: Kinds, token: Tokens]
NoJobTicket == [task |-> NoTask, kind |-> "full_regression", token |-> 0]

\* A new payload revives a job that is over; a job that waits or is being
\* worked on only has its payload replaced.
Revise(row, rev) ==
    CASE row.status = "absent" -> [NoJob EXCEPT !.status = "queued", !.rev = rev]
      [] /\ rev # row.rev
         /\ row.status \notin ClaimableJob \cup {"absent", "claimed"}
                               -> [NoJob EXCEPT !.status = "queued", !.rev = rev]
      [] OTHER                 -> [row EXCEPT !.rev = rev]

EnqueueVerificationJob(t, k, rev) ==
    /\ task[t].status # "absent"
    /\ job' = [job EXCEPT ![t][k] = Revise(@, rev)]

ReadyJobs ==
    {x \in Tasks \X Kinds : /\ job[x[1]][x[2]].status \in ClaimableJob
                            /\ job[x[1]][x[2]].due}

\* The highest priority first; created_at breaks ties.  A job claimed by a
\* verifier that died is not among the ready: nothing reclaims it.
ClaimVerificationJob(v) ==
    /\ pidOf[v] # NoPid /\ checking[v] = NoJobTicket
    /\ minted < MaxTokens
    /\ \E x \in ReadyJobs :
          /\ \A y \in ReadyJobs : Priority[x[1]] >= Priority[y[1]]
          /\ job' = [job EXCEPT ![x[1]][x[2]] =
                        [@ EXCEPT !.status = "claimed", !.by = v,
                                  !.pid = pidOf[v], !.token = minted + 1]]
          /\ checking' = [checking EXCEPT ![v] =
                        [task |-> x[1], kind |-> x[2], token |-> minted + 1]]
    /\ minted' = minted + 1
    /\ UNCHANGED <<task, pidOf, held>>

\* A mutant: the task's claim is cleared along with the job's.
FinishAndUnclaim(v, status, taskStatus) ==
    LET x == checking[v]
        row == job[x.task][x.kind]
    IN  /\ x.task # NoTask
        /\ row.by = v /\ row.token = x.token
        /\ job' = [job EXCEPT ![x.task][x.kind] =
                      [@ EXCEPT !.status = status, !.due = status # "requeued",
                                !.by = Nobody, !.pid = NoPid, !.token = 0]]
        /\ task' = [task EXCEPT ![x.task] =
                        [Unclaimed(@) EXCEPT !.status = taskStatus]]

\* A mutant: the job keeps its owner's columns.
FinishKeepingClaim(v, status, taskStatus) ==
    LET x == checking[v]
        row == job[x.task][x.kind]
    IN  /\ x.task # NoTask
        /\ row.by = v /\ row.token = x.token
        /\ job' = [job EXCEPT ![x.task][x.kind] =
                      [@ EXCEPT !.status = status, !.due = status # "requeued"]]
        /\ task' = [task EXCEPT ![x.task].status = taskStatus]

\* The job and its task in one transaction.  The job's owner is checked;
\* whoever may have claimed the task meanwhile is not.
FinishVerificationJob(v, status, taskStatus) ==
    LET x == checking[v]
        row == job[x.task][x.kind]
    IN  /\ x.task # NoTask
        /\ row.by = v /\ row.token = x.token
        /\ job' = [job EXCEPT ![x.task][x.kind] =
                      [@ EXCEPT !.status = status, !.due = status # "requeued",
                                !.by = Nobody, !.pid = NoPid, !.token = 0]]
        /\ task' = [task EXCEPT ![x.task].status = taskStatus]

\* requeue_task without worker_id and claim_token: no owner is checked.
RequeueWithoutOwner(t) ==
    task' = [task EXCEPT ![t] =
                [Unclaimed(@) EXCEPT !.status = "requeued", !.due = FALSE]]

JobRetryComesDue(t, k) ==
    /\ ~job[t][k].due
    /\ job' = [job EXCEPT ![t][k].due = TRUE]
    /\ UNCHANGED <<task, pidOf, held, minted, checking>>

JobsInit ==
    /\ job = [t \in Tasks |-> [k \in Kinds |-> NoJob]]
    /\ checking = [v \in Verifiers |-> NoJobTicket]

JobsTypeOK ==
    /\ job \in [Tasks -> [Kinds -> JobRow]]
    /\ checking \in [Verifiers -> JobTicket]
=============================================================================
