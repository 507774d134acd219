----------------------------- MODULE TaskQueue -----------------------------
(***************************************************************************)
(* The durable task queue of codex_coordination.py: the rows of            *)
(* codex_tasks, how work is enqueued, deduplicated, claimed, leased,       *)
(* reclaimed and given back.                                               *)
(*                                                                         *)
(* Every public function that writes the table is one action, because      *)
(* every one is one "begin immediate" transaction.  A thread that calls it *)
(* keeps only what the call returned, its ticket: the row it claimed and   *)
(* the claim token.  A process is known by its pid; when it dies its       *)
(* threads and their tickets are gone and only the database is left.       *)
(* Wall-clock time is two facts about a row: its lease has expired, and    *)
(* its retry_at has come.                                                  *)
(***************************************************************************)
EXTENDS Naturals, FiniteSets

CONSTANTS
    Tasks,          \* rows of codex_tasks, one per (source_kind, source_id)
    Threads,        \* every thread of every process that uses the database
    Workers,        \* those that claim tasks, by worker_id
    Pids,           \* operating-system process ids
    PidReuse,       \* may a pid that a row still names be given out again?
    Lanes,
    Fps,            \* work fingerprints
    FpOf,           \* the fingerprint of the work behind each task
    LaneOf,
    Priority,
    LateIdentity,   \* tasks enqueued without a fingerprint (general turns)
    Legacy,         \* tasks queued before rows had fingerprints (schema 1)
    MaxTokens,      \* bound on the claim tokens minted in one behaviour
    NoFp, Nobody, NoPid, NoTask

ASSUME QueueConstants ==
    /\ FpOf \in [Tasks -> Fps]
    /\ LaneOf \in [Tasks -> Lanes]
    /\ Priority \in [Tasks -> Nat]
    /\ MaxTokens \in Nat
    /\ Workers \subseteq Threads /\ Legacy \subseteq Tasks
    /\ PidReuse \in BOOLEAN
    /\ NoFp \notin Fps /\ Nobody \notin Workers
    /\ NoPid \notin Pids /\ NoTask \notin Tasks

\* codex_worker_pool.py hashes "<source_kind>:<source_id>" for a task that
\* is enqueued without an identity, so no other task has its fingerprint.
ASSUME LateIdentityIsUnique ==
    /\ LateIdentity \subseteq Tasks
    /\ \A t \in LateIdentity, u \in Tasks : FpOf[t] = FpOf[u] => t = u

VARIABLES
    task,       \* the rows of codex_tasks
    pidOf,      \* the live process each thread runs in
    held,       \* the ticket of each worker
    minted      \* claim tokens minted so far; uuid4 never repeats one

vars == <<task, pidOf, held, minted>>

----------------------------------------------------------------------------
Claimable == {"queued", "requeued"}

Active == {"claimed", "coding", "focused_tests", "candidate_committed",
           "promoted_pending_verification", "verifying", "repairing"}

Blocking == Claimable \cup Active
                \cup {"promoted", "verified", "repairing_post_promotion"}

\* No row yet, and the statuses that neither block nor can be claimed.
Inert == {"absent", "completed", "parked_retry_limit", "superseded_duplicate",
          "reverted_verification_failure", "archived_failed"}

Statuses == Blocking \cup Inert

----------------------------------------------------------------------------
(* Rows and tickets.  Token 0 stands for the SQL null of an unclaimed row. *)

Tokens == 0 .. MaxTokens

TaskRow == [status: Statuses, fp: Fps \cup {NoFp},
            canonical: Tasks \cup {NoTask}, due: BOOLEAN, claims: Tokens,
            by: Workers \cup {Nobody}, pid: Pids \cup {NoPid},
            token: Tokens, expired: BOOLEAN]

NoRow == [status |-> "absent", fp |-> NoFp, canonical |-> NoTask,
          due |-> TRUE, claims |-> 0, by |-> Nobody, pid |-> NoPid,
          token |-> 0, expired |-> FALSE]

Ticket   == [task: Tasks \cup {NoTask}, token: Tokens]
NoTicket == [task |-> NoTask, token |-> 0]

Live == {pidOf[th] : th \in Threads} \ {NoPid}

\* A mutant: the columns claimed_by and claim_pid are swapped.
UnclaimedSwapped(row) ==
    [row EXCEPT !.by = NoPid, !.pid = Nobody, !.token = 0, !.expired = FALSE]

Unclaimed(row) == [row EXCEPT !.by = Nobody, !.pid = NoPid, !.token = 0,
                              !.expired = FALSE]

Supersede(row, canonical) ==
    [row EXCEPT !.status = "superseded_duplicate", !.canonical = canonical,
                !.due = TRUE]

\* A mutant: the lookup does not leave out the row itself.
PeersAndItself(t, f, statuses) ==
    {u \in Tasks : f # NoFp /\ task[u].fp = f /\ task[u].status \in statuses}

\* A mutant: a task that was renewed is not looked for.
PeersButRenewed(t, f, statuses) ==
    {u \in Tasks \ {t} : f # NoFp /\ task[u].fp = f
                         /\ task[u].status \in statuses \ {"coding"}}

\* The rows a fingerprint lookup finds: the others that have t's work.
Peers(t, f, statuses) ==
    {u \in Tasks \ {t} : f # NoFp /\ task[u].fp = f /\ task[u].status \in statuses}

\* How far a status has taken the work, best first.
Progress(status) ==
    CASE status \in {"verified", "promoted"} -> 0
      [] status \in {"promoted_pending_verification", "verifying",
                     "candidate_committed"} -> 1
      [] status \in {"claimed", "coding", "focused_tests", "repairing",
                     "repairing_post_promotion"} -> 2
      [] OTHER -> 3

\* The rows that may become the canonical owner; created_at breaks ties.
Foremost(S) ==
    {u \in S : \A v \in S :
        \/ Progress(task[u].status) < Progress(task[v].status)
        \/ /\ Progress(task[u].status) = Progress(task[v].status)
           /\ Priority[u] >= Priority[v]}

----------------------------------------------------------------------------
(* Processes and time.                                                     *)

Start(th, p) ==
    /\ pidOf[th] = NoPid
    /\ PidReuse \/ p \in Live \/ \A t \in Tasks : task[t].pid # p
    /\ pidOf' = [pidOf EXCEPT ![th] = p]
    /\ UNCHANGED <<task, held, minted>>

\* The process ends or is killed: every thread of it loses its memory.
Die(p) ==
    /\ p \in Live
    /\ pidOf' = [th \in Threads |-> IF pidOf[th] = p THEN NoPid ELSE pidOf[th]]
    /\ held' = [w \in Workers |-> IF pidOf[w] = p THEN NoTicket ELSE held[w]]
    /\ UNCHANGED <<task, minted>>

LeaseExpires(t) ==
    /\ task[t].token # 0 /\ ~task[t].expired
    /\ task' = [task EXCEPT ![t].expired = TRUE]
    /\ UNCHANGED <<pidOf, held, minted>>

RetryComesDue(t) ==
    /\ ~task[t].due
    /\ task' = [task EXCEPT ![t].due = TRUE]
    /\ UNCHANGED <<pidOf, held, minted>>

----------------------------------------------------------------------------
(* Enqueueing and deduplication.                                           *)

\* A mutant: work under way is queued again by new evidence.
NextStatusForAll(status) == IF status \in Claimable THEN status ELSE "queued"

\* Every caller in src passes reactivate_terminal=True.
NextStatus(status) ==
    IF status \in Claimable \cup Active THEN status ELSE "queued"

Refresh(row, f) ==
    LET known == [row EXCEPT !.status = NextStatus(@),
                             !.fp = IF f = NoFp THEN @ ELSE f]
    IN  IF known.status \in Claimable
        THEN [known EXCEPT !.canonical = NoTask, !.due = TRUE]
        ELSE known

EnqueueTask(t, f) ==
    LET peers == Peers(t, f, Blocking)
        owned == peers # {} /\ task[t].status \notin Active
    IN  \/ /\ owned
           /\ \E c \in Foremost(peers) :
                 task' = [task EXCEPT ![t] =
                            Supersede([Unclaimed(@) EXCEPT !.fp = f], c)]
        \/ /\ ~owned
           /\ task' = [task EXCEPT ![t] = Refresh(@, f)]

Enqueue(t) ==
    /\ \E f \in {FpOf[t]} \cup (IF t \in LateIdentity THEN {NoFp} ELSE {}) :
          EnqueueTask(t, f)
    /\ UNCHANGED <<pidOf, held, minted>>

SetTaskWorkIdentity(t) ==
    /\ task[t].status \notin {"absent", "superseded_duplicate"}
    /\ task[t].fp = NoFp
    /\ task' = [task EXCEPT ![t].fp = FpOf[t]]
    /\ UNCHANGED <<pidOf, held, minted>>

Sharing(f) == {u \in Tasks : task[u].fp = f /\ task[u].status \in Blocking}

\* A mutant: the row that was kept is superseded with the others.
ReconcileKeepingNone ==
    LET shared == {f \in Fps : Cardinality(Sharing(f)) > 1}
    IN  /\ shared # {}
        /\ \E kept \in [shared -> Tasks] :
              /\ \A f \in shared : kept[f] \in Foremost(Sharing(f))
              /\ task' = [t \in Tasks |->
                    IF task[t].fp \in shared /\ task[t].status \in Claimable
                    THEN Supersede(task[t], kept[task[t].fp])
                    ELSE task[t]]
        /\ UNCHANGED <<pidOf, held, minted>>

\* For each fingerprint that several blocking rows share, the foremost is
\* kept and the claimable ones among the rest are superseded by it.
ReconcileDuplicateTasks ==
    LET shared == {f \in Fps : Cardinality(Sharing(f)) > 1}
    IN  /\ shared # {}
        /\ \E kept \in [shared -> Tasks] :
              /\ \A f \in shared : kept[f] \in Foremost(Sharing(f))
              /\ task' = [t \in Tasks |->
                    IF /\ task[t].fp \in shared
                       /\ task[t].status \in Claimable
                       /\ t # kept[task[t].fp]
                    THEN Supersede(task[t], kept[task[t].fp])
                    ELSE task[t]]
        /\ UNCHANGED <<pidOf, held, minted>>

----------------------------------------------------------------------------
(* Claims and leases.                                                      *)

\* A mutant: an expired lease is enough.
ReclaimableLive(row) == row.status \in Active /\ row.token # 0 /\ row.expired

\* A mutant: work that was renewed at least once is never reclaimed.
ReclaimableBeforeRenewal(row) ==
    /\ row.status = "claimed"
    /\ row.token # 0 /\ row.expired
    /\ row.pid \notin Live

Reclaimable(row) ==
    /\ row.status \in Active
    /\ row.token # 0 /\ row.expired
    /\ row.pid \notin Live

ReclaimStaleTasks ==
    /\ \E t \in Tasks : Reclaimable(task[t])
    /\ task' = [t \in Tasks |->
            IF Reclaimable(task[t])
            THEN [Unclaimed(task[t]) EXCEPT !.status = "requeued", !.due = TRUE]
            ELSE task[t]]
    /\ UNCHANGED <<pidOf, held, minted>>

Candidates ==
    {t \in Tasks : /\ task[t].status \in Claimable /\ task[t].due
                   /\ Peers(t, task[t].fp, Blocking \ Claimable) = {}}

\* The preferred lane first, then priority; created_at breaks ties.
FirstInLine(lane) ==
    {t \in Candidates : \A u \in Candidates :
        \/ LaneOf[t] = lane /\ LaneOf[u] # lane
        \/ /\ LaneOf[t] = lane <=> LaneOf[u] = lane
           /\ Priority[t] >= Priority[u]}

\* The claimed row and, in the same transaction, its claimable duplicates.
Claimed(t, w) ==
    [u \in Tasks |->
        IF u = t
        THEN [task[t] EXCEPT !.status = "claimed", !.by = w, !.pid = pidOf[w],
                             !.token = minted + 1, !.expired = FALSE,
                             !.claims = @ + 1, !.due = TRUE]
        ELSE IF u \in Peers(t, task[t].fp, Claimable)
             THEN Supersede(task[u], t)
             ELSE task[u]]

ClaimTask(w, lane) ==
    /\ pidOf[w] # NoPid /\ held[w] = NoTicket
    /\ minted < MaxTokens
    /\ \E t \in FirstInLine(lane) :
          /\ task' = Claimed(t, w)
          /\ held' = [held EXCEPT ![w] = [task |-> t, token |-> minted + 1]]
    /\ minted' = minted + 1
    /\ UNCHANGED pidOf

\* "where task_id=? and claimed_by=? and claim_token=?"
Owns(w) ==
    LET t == held[w].task
    IN  t # NoTask /\ task[t].by = w /\ task[t].token = held[w].token

RenewTaskLease(w) ==
    /\ Owns(w) /\ task[held[w].task].status \in Active
    /\ task' = [task EXCEPT ![held[w].task] =
                    [@ EXCEPT !.status = "coding", !.expired = FALSE]]
    /\ UNCHANGED <<pidOf, held, minted>>

\* A worker gives its row back, and is done with its ticket.
LetGo(w) ==
    /\ held' = [held EXCEPT ![w] = NoTicket]
    /\ UNCHANGED <<pidOf, minted>>

CompleteTask(w, status) ==
    /\ Owns(w)
    /\ task' = [task EXCEPT ![held[w].task] =
                    [Unclaimed(@) EXCEPT !.status = status]]
    /\ LetGo(w)

RequeueTask(w) ==
    /\ Owns(w)
    /\ task' = [task EXCEPT ![held[w].task] =
                    [Unclaimed(@) EXCEPT !.status = "requeued", !.due = FALSE]]
    /\ LetGo(w)

\* The exception handler's own write fails ("database is locked"): the turn
\* is over and the row stays claimed under a live pid.
Abandon(w) ==
    /\ held[w] # NoTicket
    /\ UNCHANGED task
    /\ LetGo(w)

----------------------------------------------------------------------------
\* A row that an older version queued, after the first sync gave it its
\* fingerprint: nothing compared it with its duplicates when it was queued.
LegacyRow(t) == [NoRow EXCEPT !.status = "queued", !.fp = FpOf[t]]

Init ==
    /\ \E old \in SUBSET Legacy :
          task = [t \in Tasks |-> IF t \in old THEN LegacyRow(t) ELSE NoRow]
    /\ pidOf = [th \in Threads |-> NoPid]
    /\ held = [w \in Workers |-> NoTicket]
    /\ minted = 0

Outcomes == {"completed", "parked_retry_limit", "promoted_pending_verification"}

WorkerStep(w) ==
    \/ \E lane \in Lanes : ClaimTask(w, lane)
    \/ RenewTaskLease(w)
    \/ \E status \in Outcomes : CompleteTask(w, status)
    \/ RequeueTask(w)
    \/ Abandon(w)

QueueStep ==
    \/ \E t \in Tasks : \/ Enqueue(t) \/ SetTaskWorkIdentity(t)
                        \/ LeaseExpires(t) \/ RetryComesDue(t)
    \/ ReconcileDuplicateTasks
    \/ ReclaimStaleTasks

ProcessStep == \E p \in Pids : Die(p) \/ \E th \in Threads : Start(th, p)

Next == ProcessStep \/ QueueStep \/ \E w \in Workers : WorkerStep(w)

Spec == Init /\ [][Next]_vars
----------------------------------------------------------------------------
(* Properties.                                                             *)

\* The columns and the threads' memory hold values of their types.
TypeOK ==
    /\ task \in [Tasks -> TaskRow]
    /\ pidOf \in [Threads -> Pids \cup {NoPid}]
    /\ held \in [Workers -> Ticket]
    /\ minted \in Tokens

\* A worker whose process lives and who has not given its row back still
\* owns it: no reclaim, enqueue, reconciliation or claim by another worker
\* has taken it.  "Return dead, expired worker claims to the queue without
\* touching live owners"; new evidence "cannot steal a live claim".
LiveOwnerKeepsClaim ==
    \A w \in Workers : held[w].task # NoTask =>
        /\ Owns(w)
        /\ task[held[w].task].status \in {"claimed", "coding"}
        /\ task[held[w].task].pid = pidOf[w]

\* Two tasks for the same piece of work are never both under way or
\* awaiting verification, whatever order they were enqueued, claimed,
\* reclaimed, finished and enqueued again in.
OneActivePerWork ==
    \A t, u \in Tasks : t # u /\ FpOf[t] = FpOf[u] =>
        ~(task[t].status \in Active /\ task[u].status \in Active)

\* Following canonical_task_id from a superseded task never leads back to it
\* through superseded tasks alone: some task still stands for the work.
Cycles ==
    {S \in (SUBSET Tasks) \ {{}} :
        \A t \in S : /\ task[t].status = "superseded_duplicate"
                     /\ task[t].canonical \in S}

NoCanonicalCycle == Cycles = {}

\* Work that some task still stands for is dropped only when a worker ends
\* it: deduplication always leaves one of the equivalent tasks standing.
StandsFor(f) == \E t \in Tasks : FpOf[t] = f /\ task[t].status \in Blocking

WorkIsNeverDropped ==
    [][\A f \in Fps : StandsFor(f) /\ ~StandsFor(f)' =>
          \E w \in Workers : /\ held[w].task # NoTask /\ held'[w] = NoTicket
                             /\ FpOf[held[w].task] = f]_vars

\* The workers' tickets are the abstract ownership of work.
Ownership == INSTANCE ExclusiveWork
                WITH doing <- [w \in Workers |-> held[w].task], WorkOf <- FpOf

OwnershipIsExclusive == Ownership!Spec

\* The supervisor runs one iteration per process, and every session, test run
\* and Git command of an iteration has a time limit, so every process ends;
\* leases run out; and every claim_task begins with reclaim_stale_tasks.
FairSpec ==
    /\ Spec
    /\ \A p \in Pids : WF_vars(Die(p))
    /\ \A t \in Tasks : WF_vars(LeaseExpires(t))
    /\ WF_vars(ReclaimStaleTasks)

\* Every claim ends: a task whose worker died, or whose worker's last write
\* failed, comes back to the queue.
EveryClaimEnds ==
    \A t \in Tasks, k \in 1 .. MaxTokens : task[t].token = k ~> task[t].token # k
=============================================================================
