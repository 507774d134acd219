-------------------------- MODULE TaskQueueProofs --------------------------
(***************************************************************************)
(* For every set of tasks, workers and processes: the columns keep their   *)
(* types, a live owner keeps its claim, equivalent work is never under way *)
(* twice, deduplication drops no work, and the queue implements            *)
(* ExclusiveWork.                                                          *)
(***************************************************************************)
EXTENDS TaskQueue, TLAPS

----------------------------------------------------------------------------
(* The inductive invariant.                                                *)

\* A claim is counted only when a token is minted.
ClaimsAreMinted == \A t \in Tasks : task[t].claims <= minted

\* A ticket names a row that names its worker, and a process that lives.
TicketHolds(w) ==
    held[w].task # NoTask =>
        /\ Owns(w)
        /\ task[held[w].task].status \in {"claimed", "coding"}
        /\ task[held[w].task].pid = pidOf[w]
        /\ pidOf[w] # NoPid

TicketsHold == \A w \in Workers : TicketHolds(w)

\* A row that exists carries the fingerprint of its work, except one that was
\* enqueued without and whose work is its own.
FingerprintsAreTrue ==
    \A t \in Tasks :
        /\ task[t].fp \in {NoFp, FpOf[t]}
        /\ task[t].fp = NoFp => task[t].status = "absent" \/ t \in LateIdentity

IInv == TypeOK /\ ClaimsAreMinted /\ TicketsHold /\ FingerprintsAreTrue
            /\ OneActivePerWork

----------------------------------------------------------------------------
(* What the row operations preserve.                                       *)

\* Unclaimed clears the claim and nothing else.
LEMMA UnclaimedRow ==
    ASSUME NEW row \in TaskRow
    PROVE  /\ Unclaimed(row) \in TaskRow
           /\ Unclaimed(row).status = row.status
           /\ Unclaimed(row).fp = row.fp
           /\ Unclaimed(row).claims = row.claims
<1>1. 0 \in Tokens
  BY QueueConstants DEF Tokens
<1>2. Unclaimed(row) \in TaskRow
  BY <1>1 DEF Unclaimed, TaskRow
<1>3. QED
  BY <1>2 DEF Unclaimed, TaskRow

\* Supersede retires a row to another that stands for its work.
LEMMA SupersedeRow ==
    ASSUME NEW row \in TaskRow, NEW c \in Tasks
    PROVE  /\ Supersede(row, c) \in TaskRow
           /\ Supersede(row, c).status = "superseded_duplicate"
           /\ Supersede(row, c).fp = row.fp
           /\ Supersede(row, c).claims = row.claims
BY DEF Supersede, TaskRow, Tokens, Statuses, Inert

\* Refresh never makes a row active and never touches an active one's claim.
LEMMA RefreshRow ==
    ASSUME NEW row \in TaskRow, NEW f \in Fps \cup {NoFp}
    PROVE  /\ Refresh(row, f) \in TaskRow
           /\ Refresh(row, f).fp = (IF f = NoFp THEN row.fp ELSE f)
           /\ Refresh(row, f).status = NextStatus(row.status)
           /\ Refresh(row, f).claims = row.claims
           /\ Refresh(row, f).by = row.by
           /\ Refresh(row, f).pid = row.pid
           /\ Refresh(row, f).token = row.token
<1>1. NextStatus(row.status) \in Statuses
  BY DEF NextStatus, TaskRow, Statuses, Blocking, Claimable
<1>2. QED
  BY <1>1 DEF Refresh, TaskRow, Tokens

\* No status is both claimable and under way, and a superseded row is neither.
LEMMA StatusFacts ==
    /\ Claimable \cap Active = {}
    /\ Active \subseteq Blocking \ Claimable
    /\ "superseded_duplicate" \notin Active \cup Blocking
    /\ "absent" \notin Active \cup Claimable
    /\ {"claimed", "coding", "promoted_pending_verification"} \subseteq Active
    /\ {"queued", "requeued"} = Claimable
    /\ Outcomes \subseteq Statuses
    /\ Active \cup Claimable \subseteq Statuses
BY DEF Claimable, Active, Blocking, Inert, Statuses, Outcomes

----------------------------------------------------------------------------
(* Steps that leave every claim alone.                                     *)

QuietRow(t) ==
    /\ task'[t] \in TaskRow
    /\ task'[t].claims = task[t].claims
    /\ task'[t].fp \in {task[t].fp, FpOf[t]}
    /\ task'[t].fp = NoFp => task'[t].status = "absent" \/ t \in LateIdentity
    /\ task[t].status \notin Active => task'[t].status \notin Active
    /\ task[t].status \in Active =>
          /\ task'[t].status = task[t].status /\ task'[t].by = task[t].by
          /\ task'[t].pid = task[t].pid /\ task'[t].token = task[t].token

Quiet == /\ task' \in [Tasks -> TaskRow]
         /\ \A t \in Tasks : QuietRow(t)
         /\ UNCHANGED <<pidOf, held, minted>>

\* Such a step keeps the whole invariant.
LEMMA QuietKeepsInvariant == ASSUME IInv, Quiet PROVE IInv'
<1>1. TypeOK'
  BY DEF IInv, TypeOK, Quiet
<1>2. ClaimsAreMinted'
  BY DEF IInv, ClaimsAreMinted, Quiet, QuietRow
<1>3. TicketsHold'
  <2> SUFFICES ASSUME NEW w \in Workers, held[w].task # NoTask
               PROVE  /\ Owns(w)'
                      /\ task'[held[w].task].status \in {"claimed", "coding"}
                      /\ task'[held[w].task].pid = pidOf[w]
                      /\ pidOf[w] # NoPid
    BY DEF TicketsHold, TicketHolds, Quiet
  <2>1. held[w].task \in Tasks
    BY DEF IInv, TypeOK, Ticket
  <2>2. /\ Owns(w) /\ pidOf[w] # NoPid
        /\ task[held[w].task].status \in {"claimed", "coding"}
        /\ task[held[w].task].pid = pidOf[w]
    BY DEF IInv, TicketsHold, TicketHolds
  <2>3. QuietRow(held[w].task) /\ held' = held
    BY <2>1 DEF Quiet
  <2>4. QED
    BY <2>1, <2>2, <2>3, StatusFacts DEF QuietRow, Owns
<1>4. FingerprintsAreTrue'
  BY DEF IInv, FingerprintsAreTrue, Quiet, QuietRow
<1>5. OneActivePerWork'
  BY DEF IInv, OneActivePerWork, Quiet, QuietRow
<1>6. QED
  BY <1>1, <1>2, <1>3, <1>4, <1>5 DEF IInv

\* A write to one row is quiet when that row is.
LEMMA QuietWrite ==
    ASSUME IInv, NEW t \in Tasks, NEW row \in TaskRow,
           task' = [task EXCEPT ![t] = row], UNCHANGED <<pidOf, held, minted>>,
           QuietRow(t)
    PROVE  Quiet
<1>1. /\ task' \in [Tasks -> TaskRow]
      /\ \A u \in Tasks : u # t => task'[u] = task[u]
  BY DEF IInv, TypeOK
<1>2. \A u \in Tasks : u # t => QuietRow(u)
  BY <1>1 DEF IInv, FingerprintsAreTrue, QuietRow
<1>3. QED
  BY <1>1, <1>2 DEF Quiet

\* The passing of time takes nobody's claim away.
LEMMA LeaseExpiresIsQuiet ==
    ASSUME IInv, NEW t \in Tasks, LeaseExpires(t) PROVE Quiet
<1> DEFINE row == [task[t] EXCEPT !.expired = TRUE]
<1>1. task[t] \in TaskRow
  BY DEF IInv, TypeOK
<1>2. row \in TaskRow
  BY <1>1 DEF TaskRow
<1>3. task' = [task EXCEPT ![t] = row] /\ UNCHANGED <<pidOf, held, minted>>
  BY DEF LeaseExpires
<1>4. task'[t] = row
  BY <1>3 DEF IInv, TypeOK
<1>5. QuietRow(t)
  BY <1>1, <1>2, <1>4 DEF IInv, FingerprintsAreTrue, QuietRow, TaskRow
<1>6. QED
  BY <1>2, <1>3, <1>5, QuietWrite

\* A retry that comes due is not a claim.
LEMMA RetryComesDueIsQuiet ==
    ASSUME IInv, NEW t \in Tasks, RetryComesDue(t) PROVE Quiet
<1> DEFINE row == [task[t] EXCEPT !.due = TRUE]
<1>1. task[t] \in TaskRow
  BY DEF IInv, TypeOK
<1>2. row \in TaskRow
  BY <1>1 DEF TaskRow
<1>3. task' = [task EXCEPT ![t] = row] /\ UNCHANGED <<pidOf, held, minted>>
  BY DEF RetryComesDue
<1>4. task'[t] = row
  BY <1>3 DEF IInv, TypeOK
<1>5. QuietRow(t)
  BY <1>1, <1>2, <1>4 DEF IInv, FingerprintsAreTrue, QuietRow, TaskRow
<1>6. QED
  BY <1>2, <1>3, <1>5, QuietWrite

\* A late fingerprint is the one of the task's own work.
LEMMA SetTaskWorkIdentityIsQuiet ==
    ASSUME IInv, NEW t \in Tasks, SetTaskWorkIdentity(t) PROVE Quiet
<1> DEFINE row == [task[t] EXCEPT !.fp = FpOf[t]]
<1>1. task[t] \in TaskRow /\ FpOf[t] \in Fps /\ FpOf[t] # NoFp
  BY QueueConstants DEF IInv, TypeOK
<1>2. row \in TaskRow
  BY <1>1 DEF TaskRow
<1>3. task' = [task EXCEPT ![t] = row] /\ UNCHANGED <<pidOf, held, minted>>
  BY DEF SetTaskWorkIdentity
<1>4. task'[t] = row
  BY <1>3 DEF IInv, TypeOK
<1>5. QuietRow(t)
  BY <1>1, <1>2, <1>4 DEF QuietRow, TaskRow
<1>6. QED
  BY <1>2, <1>3, <1>5, QuietWrite

\* New evidence never touches a claim: the row is superseded only when it is
\* not under way, and refreshed otherwise.
LEMMA EnqueueIsQuiet ==
    ASSUME IInv, NEW t \in Tasks, Enqueue(t) PROVE Quiet
<1>1. /\ task[t] \in TaskRow /\ task[t].fp \in {NoFp, FpOf[t]}
      /\ task[t].fp = NoFp => task[t].status = "absent" \/ t \in LateIdentity
  BY DEF IInv, TypeOK, FingerprintsAreTrue
<1>2. PICK f \in {FpOf[t]} \cup (IF t \in LateIdentity THEN {NoFp} ELSE {}) :
         EnqueueTask(t, f)
  BY DEF Enqueue
<1>3. UNCHANGED <<pidOf, held, minted>>
  BY DEF Enqueue
<1>4. f \in Fps \cup {NoFp} /\ FpOf[t] \in Fps /\ FpOf[t] # NoFp
  BY <1>2, QueueConstants
<1> DEFINE peers == Peers(t, f, Blocking)
<1>5. CASE peers # {} /\ task[t].status \notin Active
  <2>1. PICK c \in Foremost(peers) :
           task' = [task EXCEPT ![t] = Supersede([Unclaimed(task[t]) EXCEPT !.fp = f], c)]
    BY <1>2, <1>5 DEF EnqueueTask
  <2> DEFINE old == [Unclaimed(task[t]) EXCEPT !.fp = f]
             row == Supersede(old, c)
  <2>2. Unclaimed(task[t]) \in TaskRow /\ Unclaimed(task[t]).claims = task[t].claims
    BY <1>1, UnclaimedRow
  <2>3. old \in TaskRow /\ old.claims = task[t].claims /\ old.fp = f
    BY <1>4, <2>2 DEF TaskRow
  <2>4. c \in Tasks /\ f # NoFp
    BY <1>5, <2>1 DEF Foremost, Peers
  <2>5. /\ row \in TaskRow /\ row.status = "superseded_duplicate"
        /\ row.fp = f /\ row.claims = task[t].claims
    BY <2>3, <2>4, SupersedeRow
  <2>6. task' = [task EXCEPT ![t] = row]
    BY <2>1
  <2>7. task'[t] = row
    BY <2>6 DEF IInv, TypeOK
  <2>8. QuietRow(t)
    BY <1>2, <1>5, <2>4, <2>5, <2>7, StatusFacts DEF QuietRow
  <2>9. QED
    BY <1>3, <2>5, <2>6, <2>8, QuietWrite
<1>6. CASE ~(peers # {} /\ task[t].status \notin Active)
  <2> DEFINE row == Refresh(task[t], f)
  <2>1. task' = [task EXCEPT ![t] = row]
    BY <1>2, <1>6 DEF EnqueueTask
  <2>2. task'[t] = row
    BY <2>1 DEF IInv, TypeOK
  <2>3. /\ row \in TaskRow /\ row.fp = (IF f = NoFp THEN task[t].fp ELSE f)
        /\ row.status = NextStatus(task[t].status) /\ row.claims = task[t].claims
        /\ row.by = task[t].by /\ row.pid = task[t].pid /\ row.token = task[t].token
    BY <1>1, <1>4, RefreshRow
  <2>4. /\ task[t].status \in Active => row.status = task[t].status
        /\ task[t].status \notin Active => row.status \in Claimable
    BY <2>3 DEF NextStatus, Claimable
  <2>5. f = NoFp => t \in LateIdentity
    BY <1>2, <1>4
  <2>6. QuietRow(t)
    BY <1>1, <1>2, <2>2, <2>3, <2>4, <2>5, StatusFacts DEF QuietRow
  <2>7. QED
    BY <1>3, <2>1, <2>3, <2>6, QuietWrite
<1>7. QED
  BY <1>5, <1>6

\* Reconciliation supersedes claimable rows only.
LEMMA ReconcileIsQuiet == ASSUME IInv, ReconcileDuplicateTasks PROVE Quiet
<1> DEFINE shared == {f \in Fps : Cardinality(Sharing(f)) > 1}
<1>1. PICK kept \in [shared -> Tasks] :
         task' = [t \in Tasks |->
                    IF /\ task[t].fp \in shared
                       /\ task[t].status \in Claimable
                       /\ t # kept[task[t].fp]
                    THEN Supersede(task[t], kept[task[t].fp])
                    ELSE task[t]]
  BY DEF ReconcileDuplicateTasks
<1>2. UNCHANGED <<pidOf, held, minted>>
  BY DEF ReconcileDuplicateTasks
<1>3. ASSUME NEW t \in Tasks PROVE QuietRow(t)
  <2>1. /\ task[t] \in TaskRow /\ task[t].fp \in {NoFp, FpOf[t]}
        /\ task[t].fp = NoFp => task[t].status = "absent" \/ t \in LateIdentity
    BY DEF IInv, TypeOK, FingerprintsAreTrue
  <2>2. CASE task[t].fp \in shared /\ task[t].status \in Claimable
                /\ t # kept[task[t].fp]
    <3> DEFINE c == kept[task[t].fp]
    <3>1. c \in Tasks
      BY <2>2
    <3>2. task'[t] = Supersede(task[t], c)
      BY <1>1, <2>2
    <3>3. /\ Supersede(task[t], c) \in TaskRow
          /\ Supersede(task[t], c).status = "superseded_duplicate"
          /\ Supersede(task[t], c).fp = task[t].fp
          /\ Supersede(task[t], c).claims = task[t].claims
      BY <2>1, <3>1, SupersedeRow
    <3>4. task[t].status \notin Active /\ task[t].fp # NoFp
      BY <2>2, StatusFacts, QueueConstants
    <3>5. QED
      BY <3>2, <3>3, <3>4, StatusFacts DEF QuietRow
  <2>3. CASE ~(task[t].fp \in shared /\ task[t].status \in Claimable
                  /\ t # kept[task[t].fp])
    <3>1. task'[t] = task[t]
      BY <1>1, <2>3
    <3>2. QED
      BY <2>1, <3>1 DEF QuietRow
  <2>4. QED
    BY <2>2, <2>3
<1>4. task' \in [Tasks -> TaskRow]
  <2>1. \A t \in Tasks : task'[t] \in TaskRow
    BY <1>3 DEF QuietRow
  <2>2. QED
    BY <1>1, <2>1
<1>5. QED
  BY <1>2, <1>3, <1>4 DEF Quiet

----------------------------------------------------------------------------
(* Processes, and the steps that give claims and take them away.           *)

\* A thread that starts holds no ticket yet.
LEMMA StartKeepsInvariant ==
    ASSUME IInv, NEW th \in Threads, NEW p \in Pids, Start(th, p) PROVE IInv'
<1>1. TypeOK'
  BY DEF IInv, TypeOK, Start
<1>2. TicketsHold'
  BY QueueConstants DEF IInv, TypeOK, Start, TicketsHold, TicketHolds, Owns
<1>3. ClaimsAreMinted' /\ FingerprintsAreTrue' /\ OneActivePerWork'
  BY DEF IInv, Start, ClaimsAreMinted, FingerprintsAreTrue, OneActivePerWork
<1>4. QED
  BY <1>1, <1>2, <1>3 DEF IInv

\* A process that dies takes the tickets of its own threads with it.
LEMMA DieKeepsInvariant == ASSUME IInv, NEW p \in Pids, Die(p) PROVE IInv'
<1>1. TypeOK'
  BY QueueConstants DEF IInv, TypeOK, Die, NoTicket, Ticket, Tokens
<1>2. TicketsHold'
  BY QueueConstants DEF IInv, TypeOK, Die, TicketsHold, TicketHolds, Owns, NoTicket
<1>3. ClaimsAreMinted' /\ FingerprintsAreTrue' /\ OneActivePerWork'
  BY DEF IInv, Die, ClaimsAreMinted, FingerprintsAreTrue, OneActivePerWork
<1>4. QED
  BY <1>1, <1>2, <1>3 DEF IInv

\* A ticket goes on holding when neither it nor its row has changed.
LEMMA TicketStays ==
    ASSUME IInv, NEW w \in Workers, held'[w] = held[w], pidOf' = pidOf,
           held[w].task # NoTask => task'[held[w].task] = task[held[w].task]
    PROVE  TicketHolds(w)'
BY DEF IInv, TicketsHold, TicketHolds, Owns

\* What is reclaimed had no live owner, so no ticket names it.
LEMMA ReclaimKeepsInvariant == ASSUME IInv, ReclaimStaleTasks PROVE IInv'
<1> DEFINE back(t) == [Unclaimed(task[t]) EXCEPT !.status = "requeued", !.due = TRUE]
<1>1. /\ \A t \in Tasks : task'[t] = IF Reclaimable(task[t]) THEN back(t) ELSE task[t]
      /\ task' = [t \in Tasks |-> task'[t]]
      /\ UNCHANGED <<pidOf, held, minted>>
  BY DEF ReclaimStaleTasks
<1>2. ASSUME NEW t \in Tasks
      PROVE  /\ back(t) \in TaskRow /\ back(t).status = "requeued"
             /\ back(t).fp = task[t].fp /\ back(t).claims = task[t].claims
  <2>1. /\ Unclaimed(task[t]) \in TaskRow /\ Unclaimed(task[t]).fp = task[t].fp
        /\ Unclaimed(task[t]).claims = task[t].claims
    BY UnclaimedRow DEF IInv, TypeOK
  <2>2. "requeued" \in Statuses
    BY DEF Statuses, Blocking, Claimable
  <2>3. QED
    BY <2>1, <2>2 DEF TaskRow
<1>3. TypeOK'
  <2>1. \A t \in Tasks : task'[t] \in TaskRow
    BY <1>1, <1>2 DEF IInv, TypeOK
  <2>2. task' \in [Tasks -> TaskRow]
    BY <1>1, <2>1
  <2>3. QED
    BY <1>1, <2>2 DEF IInv, TypeOK
<1>4. \A t \in Tasks :
         /\ task'[t].claims = task[t].claims /\ task'[t].fp = task[t].fp
         /\ task'[t] = task[t] \/ task'[t].status = "requeued"
  BY <1>1, <1>2
<1>5. ClaimsAreMinted'
  BY <1>1, <1>4 DEF IInv, ClaimsAreMinted
<1>6. TicketsHold'
  <2> SUFFICES ASSUME NEW w \in Workers, held[w].task # NoTask
               PROVE  task'[held[w].task] = task[held[w].task]
    BY <1>1, TicketStays DEF TicketsHold
  <2>1. held[w].task \in Tasks /\ w \in Threads
    BY QueueConstants DEF IInv, TypeOK, Ticket
  <2>2. task[held[w].task].pid = pidOf[w] /\ pidOf[w] # NoPid
    BY DEF IInv, TicketsHold, TicketHolds
  <2>3. task[held[w].task].pid \in Live
    BY <2>1, <2>2 DEF Live
  <2>4. QED
    BY <1>1, <2>1, <2>3 DEF Reclaimable
<1>7. FingerprintsAreTrue'
  <2> SUFFICES ASSUME NEW t \in Tasks, task'[t].fp = NoFp
               PROVE  task'[t].status = "absent" \/ t \in LateIdentity
    BY <1>4 DEF IInv, FingerprintsAreTrue
  <2>1. task[t].status = "absent" \/ t \in LateIdentity
    BY <1>4 DEF IInv, FingerprintsAreTrue
  <2>2. task[t].status = "absent" => task'[t] = task[t]
    BY <1>1, StatusFacts DEF Reclaimable
  <2>3. QED
    BY <2>1, <2>2
<1>8. OneActivePerWork'
  BY <1>4, StatusFacts DEF IInv, OneActivePerWork
<1>9. QED
  BY <1>3, <1>5, <1>6, <1>7, <1>8 DEF IInv

\* Tickets of two workers name two rows, for two pieces of work.
LEMMA TicketsAreApart ==
    ASSUME IInv, NEW w \in Workers, NEW x \in Workers, w # x,
           held[w].task # NoTask, held[x].task # NoTask
    PROVE  /\ held[w].task # held[x].task
           /\ FpOf[held[w].task] # FpOf[held[x].task]
<1>1. held[w].task \in Tasks /\ held[x].task \in Tasks
  BY DEF IInv, TypeOK, Ticket
<1>2. held[w].task # held[x].task
  BY DEF IInv, TicketsHold, TicketHolds, Owns
<1>3. /\ task[held[w].task].status \in Active
      /\ task[held[x].task].status \in Active
  BY StatusFacts DEF IInv, TicketsHold, TicketHolds
<1>4. QED
  BY <1>1, <1>2, <1>3 DEF IInv, OneActivePerWork

\* A worker that writes its own row disturbs no other ticket, and makes
\* nothing active that was not.
LEMMA OwnerWrites ==
    ASSUME IInv, NEW w \in Workers, Owns(w),
           NEW row \in TaskRow, row.status # "absent",
           row.fp = task[held[w].task].fp,
           row.claims = task[held[w].task].claims,
           task' = [task EXCEPT ![held[w].task] = row],
           UNCHANGED <<pidOf, minted>>,
           held' \in [Workers -> Ticket],
           \A x \in Workers \ {w} : held'[x] = held[x],
           TicketHolds(w)'
    PROVE  IInv'
<1> DEFINE mine == held[w].task
<1>1. /\ mine # NoTask /\ mine \in Tasks
      /\ task[mine].status \in Active
  BY StatusFacts DEF Owns, IInv, TypeOK, Ticket, TicketsHold, TicketHolds
<1>2. task'[mine] = row /\ \A u \in Tasks \ {mine} : task'[u] = task[u]
  BY <1>1 DEF IInv, TypeOK
<1>3. TypeOK'
  BY <1>1 DEF IInv, TypeOK
<1>4. ClaimsAreMinted'
  BY <1>1, <1>2 DEF IInv, ClaimsAreMinted
<1>5. TicketsHold'
  <2> SUFFICES ASSUME NEW x \in Workers, x # w PROVE TicketHolds(x)'
    BY DEF TicketsHold
  <2>1. held[x].task # NoTask => task'[held[x].task] = task[held[x].task]
    BY <1>1, <1>2, TicketsAreApart DEF IInv, TypeOK, Ticket
  <2>2. QED
    BY <2>1, TicketStays
<1>6. FingerprintsAreTrue'
  <2>1. task[mine].fp = NoFp => mine \in LateIdentity
    BY <1>1, StatusFacts DEF IInv, FingerprintsAreTrue
  <2>2. QED
    BY <1>1, <1>2, <2>1 DEF IInv, FingerprintsAreTrue
<1>7. OneActivePerWork'
  <2>1. \A u \in Tasks : task'[u].status \in Active => task[u].status \in Active
    BY <1>1, <1>2
  <2>2. QED
    BY <2>1 DEF IInv, OneActivePerWork
<1>8. QED
  BY <1>3, <1>4, <1>5, <1>6, <1>7 DEF IInv

\* A renewal keeps the claim's owner, process and token.
LEMMA RenewKeepsInvariant ==
    ASSUME IInv, NEW w \in Workers, RenewTaskLease(w) PROVE IInv'
<1> DEFINE mine == held[w].task
           row == [task[mine] EXCEPT !.status = "coding", !.expired = FALSE]
<1>1. Owns(w) /\ mine \in Tasks /\ mine # NoTask /\ task[mine] \in TaskRow
  BY DEF RenewTaskLease, Owns, IInv, TypeOK, Ticket
<1>2. /\ task' = [task EXCEPT ![mine] = row]
      /\ held' = held /\ pidOf' = pidOf /\ minted' = minted
  BY DEF RenewTaskLease
<1>3. "coding" \in Statuses
  BY StatusFacts
<1>4. /\ row \in TaskRow /\ row.status = "coding" /\ row.fp = task[mine].fp
      /\ row.claims = task[mine].claims /\ row.by = task[mine].by
      /\ row.pid = task[mine].pid /\ row.token = task[mine].token
  BY <1>1, <1>3 DEF TaskRow
<1>5. task'[mine] = row
  BY <1>1, <1>2 DEF IInv, TypeOK
<1>6. TicketHolds(w)'
  BY <1>1, <1>2, <1>4, <1>5 DEF IInv, TicketsHold, TicketHolds, Owns
<1>7. held' \in [Workers -> Ticket]
  BY <1>2 DEF IInv, TypeOK
<1>8. QED
  BY <1>1, <1>2, <1>4, <1>6, <1>7, OwnerWrites

\* A row that is given back with any status, due at once or later.
LEMMA GiveBackKeepsInvariant ==
    ASSUME IInv, NEW w \in Workers, Owns(w), NEW row \in TaskRow,
           row.status # "absent", row.fp = task[held[w].task].fp,
           row.claims = task[held[w].task].claims,
           task' = [task EXCEPT ![held[w].task] = row], LetGo(w)
    PROVE  IInv'
<1>1. NoTicket \in Ticket /\ NoTicket.task = NoTask
  BY QueueConstants DEF NoTicket, Ticket, Tokens
<1>2. /\ held' = [held EXCEPT ![w] = NoTicket] /\ UNCHANGED <<pidOf, minted>>
      /\ held \in [Workers -> Ticket]
  BY DEF LetGo, IInv, TypeOK
<1>3. held' \in [Workers -> Ticket] /\ held'[w] = NoTicket
  BY <1>1, <1>2
<1>4. TicketHolds(w)'
  BY <1>1, <1>3 DEF TicketHolds
<1>5. QED
  BY <1>2, <1>3, <1>4, OwnerWrites

\* A finished turn writes one of the outcomes.
LEMMA CompleteKeepsInvariant ==
    ASSUME IInv, NEW w \in Workers, NEW status \in Outcomes,
           CompleteTask(w, status)
    PROVE  IInv'
<1> DEFINE mine == held[w].task
           row == [Unclaimed(task[mine]) EXCEPT !.status = status]
<1>1. Owns(w) /\ task[mine] \in TaskRow
  BY DEF CompleteTask, Owns, IInv, TypeOK, Ticket
<1>2. status \in Statuses /\ status # "absent"
  BY StatusFacts DEF Outcomes
<1>3. /\ Unclaimed(task[mine]) \in TaskRow
      /\ Unclaimed(task[mine]).fp = task[mine].fp
      /\ Unclaimed(task[mine]).claims = task[mine].claims
  BY <1>1, UnclaimedRow
<1>4. row \in TaskRow
  BY <1>2, <1>3 DEF TaskRow
<1>5. row.status = status /\ row.fp = task[mine].fp /\ row.claims = task[mine].claims
  BY <1>3 DEF TaskRow
<1>6. task' = [task EXCEPT ![mine] = row] /\ LetGo(w)
  BY DEF CompleteTask
<1>7. QED
  BY <1>1, <1>2, <1>4, <1>5, <1>6, GiveBackKeepsInvariant

\* A retry is the same, with a row that is claimable again.
LEMMA RequeueKeepsInvariant ==
    ASSUME IInv, NEW w \in Workers, RequeueTask(w) PROVE IInv'
<1> DEFINE mine == held[w].task
           row == [Unclaimed(task[mine]) EXCEPT !.status = "requeued", !.due = FALSE]
<1>1. Owns(w) /\ task[mine] \in TaskRow
  BY DEF RequeueTask, Owns, IInv, TypeOK, Ticket
<1>2. "requeued" \in Statuses
  BY StatusFacts
<1>3. /\ Unclaimed(task[mine]) \in TaskRow
      /\ Unclaimed(task[mine]).fp = task[mine].fp
      /\ Unclaimed(task[mine]).claims = task[mine].claims
  BY <1>1, UnclaimedRow
<1>4. row \in TaskRow
  BY <1>2, <1>3 DEF TaskRow
<1>5. /\ row.status # "absent" /\ row.fp = task[mine].fp
      /\ row.claims = task[mine].claims
  BY <1>3 DEF TaskRow
<1>6. task' = [task EXCEPT ![mine] = row] /\ LetGo(w)
  BY DEF RequeueTask
<1>7. QED
  BY <1>1, <1>4, <1>5, <1>6, GiveBackKeepsInvariant

\* A turn that is abandoned leaves its row as it is.
LEMMA AbandonKeepsInvariant ==
    ASSUME IInv, NEW w \in Workers, Abandon(w) PROVE IInv'
<1>1. /\ UNCHANGED <<task, pidOf, minted>>
      /\ held' = [held EXCEPT ![w] = NoTicket]
      /\ held \in [Workers -> Ticket]
  BY DEF Abandon, LetGo, IInv, TypeOK
<1>2. NoTicket \in Ticket /\ NoTicket.task = NoTask
  BY QueueConstants DEF NoTicket, Ticket, Tokens
<1>3. TypeOK'
  BY <1>1, <1>2 DEF IInv, TypeOK
<1>4. TicketsHold'
  <2> SUFFICES ASSUME NEW x \in Workers PROVE TicketHolds(x)'
    BY DEF TicketsHold
  <2>1. CASE x = w
    BY <1>1, <1>2, <2>1 DEF TicketHolds
  <2>2. CASE x # w
    <3>1. held'[x] = held[x]
      BY <1>1, <2>2
    <3>2. QED
      BY <1>1, <3>1, TicketStays
  <2>3. QED
    BY <2>1, <2>2
<1>5. ClaimsAreMinted' /\ FingerprintsAreTrue' /\ OneActivePerWork'
  BY <1>1 DEF IInv, ClaimsAreMinted, FingerprintsAreTrue, OneActivePerWork
<1>6. QED
  BY <1>3, <1>4, <1>5 DEF IInv

\* The work of a candidate is not under way anywhere.
LEMMA CandidateIsAlone ==
    ASSUME IInv, NEW t \in Candidates, NEW u \in Tasks, u # t, FpOf[u] = FpOf[t]
    PROVE  task[u].status \notin Active
<1>1. t \in Tasks /\ task[t].status \in Claimable
  BY DEF Candidates
<1>2. t \notin LateIdentity /\ u \notin LateIdentity
  BY <1>1, LateIdentityIsUnique
<1>3. task[t].fp = FpOf[t] /\ FpOf[t] # NoFp
  BY <1>1, <1>2, StatusFacts, QueueConstants DEF IInv, FingerprintsAreTrue
<1>4. SUFFICES ASSUME task[u].status \in Active PROVE FALSE
  OBVIOUS
<1>5. task[u].fp = FpOf[u]
  BY <1>2, <1>4, StatusFacts DEF IInv, FingerprintsAreTrue
<1>6. u \in Peers(t, task[t].fp, Blocking \ Claimable)
  BY <1>3, <1>4, <1>5, StatusFacts DEF Peers
<1>7. QED
  BY <1>6 DEF Candidates

\* What a claim does to each row: the candidate gets a new token, claimable
\* duplicates are superseded, and no other row changes.
LEMMA ClaimedRows ==
    ASSUME IInv, NEW w \in Workers, NEW t \in Candidates, minted < MaxTokens,
           task' = Claimed(t, w)
    PROVE  /\ task' \in [Tasks -> TaskRow]
           /\ /\ task'[t].status = "claimed" /\ task'[t].fp = task[t].fp
              /\ task'[t].claims = task[t].claims + 1
              /\ task'[t].by = w /\ task'[t].pid = pidOf[w]
              /\ task'[t].token = minted + 1
           /\ \A u \in Tasks \ {t} :
                 /\ task'[u].fp = task[u].fp /\ task'[u].claims = task[u].claims
                 /\ \/ task'[u] = task[u]
                    \/ /\ task'[u].status = "superseded_duplicate"
                       /\ task[u].status \in Claimable /\ task[u].fp # NoFp
<1> DEFINE row == [task[t] EXCEPT !.status = "claimed", !.by = w, !.pid = pidOf[w],
                                  !.token = minted + 1, !.expired = FALSE,
                                  !.claims = @ + 1, !.due = TRUE]
<1>1. t \in Tasks /\ task[t] \in TaskRow
  BY DEF Candidates, IInv, TypeOK
<1>2. task[t].claims + 1 \in Tokens /\ minted + 1 \in Tokens
  <2>1. task[t].claims \in 0 .. MaxTokens /\ minted \in 0 .. MaxTokens
    BY <1>1 DEF IInv, TypeOK, TaskRow, Tokens
  <2>2. task[t].claims <= minted /\ MaxTokens \in Nat
    BY <1>1, QueueConstants DEF IInv, ClaimsAreMinted
  <2>3. QED
    BY <2>1, <2>2 DEF Tokens
<1>3. pidOf[w] \in Pids \cup {NoPid} /\ "claimed" \in Statuses
  BY QueueConstants, StatusFacts DEF IInv, TypeOK
<1>4. row \in TaskRow
  BY <1>1, <1>2, <1>3 DEF TaskRow
<1>5. task'[t] = row
  BY <1>1 DEF Claimed
<1>6. /\ row.status = "claimed" /\ row.fp = task[t].fp
      /\ row.claims = task[t].claims + 1
      /\ row.by = w /\ row.pid = pidOf[w] /\ row.token = minted + 1
  BY <1>1 DEF TaskRow
<1>7. ASSUME NEW u \in Tasks \ {t}
      PROVE  /\ task'[u] \in TaskRow
             /\ task'[u].fp = task[u].fp /\ task'[u].claims = task[u].claims
             /\ \/ task'[u] = task[u]
                \/ /\ task'[u].status = "superseded_duplicate"
                   /\ task[u].status \in Claimable /\ task[u].fp # NoFp
  <2>1. task[u] \in TaskRow
    BY DEF IInv, TypeOK
  <2>2. CASE u \in Peers(t, task[t].fp, Claimable)
    <3>1. task'[u] = Supersede(task[u], t)
      BY <2>2 DEF Claimed
    <3>2. task[u].status \in Claimable /\ task[u].fp # NoFp
      BY <2>2 DEF Peers
    <3>3. QED
      BY <1>1, <2>1, <3>1, <3>2, SupersedeRow
  <2>3. CASE u \notin Peers(t, task[t].fp, Claimable)
    <3>1. task'[u] = task[u]
      BY <2>3 DEF Claimed
    <3>2. QED
      BY <2>1, <3>1
  <2>4. QED
    BY <2>2, <2>3
<1>8. task' \in [Tasks -> TaskRow]
  <2>1. \A u \in Tasks : task'[u] \in TaskRow
    BY <1>4, <1>5, <1>7
  <2>2. QED
    BY <2>1 DEF Claimed
<1>9. QED
  BY <1>5, <1>6, <1>7, <1>8

\* A claim keeps the invariant: nobody is on the candidate's work, and no
\* ticket names a row that was claimable.
LEMMA ClaimKeepsInvariant ==
    ASSUME IInv, NEW w \in Workers, NEW lane \in Lanes, ClaimTask(w, lane)
    PROVE  IInv'
<1>1. PICK t \in FirstInLine(lane) :
         /\ task' = Claimed(t, w)
         /\ held' = [held EXCEPT ![w] = [task |-> t, token |-> minted + 1]]
  BY DEF ClaimTask
<1>2. /\ pidOf[w] # NoPid /\ held[w] = NoTicket /\ minted < MaxTokens
      /\ minted' = minted + 1 /\ pidOf' = pidOf
  BY DEF ClaimTask
<1>3. t \in Candidates /\ t \in Tasks /\ task[t].status \in Claimable
  BY <1>1 DEF FirstInLine, Candidates
<1>4. /\ task' \in [Tasks -> TaskRow]
      /\ /\ task'[t].status = "claimed" /\ task'[t].fp = task[t].fp
         /\ task'[t].claims = task[t].claims + 1
         /\ task'[t].by = w /\ task'[t].pid = pidOf[w]
         /\ task'[t].token = minted + 1
      /\ \A u \in Tasks \ {t} :
            /\ task'[u].fp = task[u].fp /\ task'[u].claims = task[u].claims
            /\ \/ task'[u] = task[u]
               \/ /\ task'[u].status = "superseded_duplicate"
                  /\ task[u].status \in Claimable /\ task[u].fp # NoFp
  BY <1>1, <1>2, <1>3, ClaimedRows
<1>5. minted \in Nat /\ minted + 1 \in Tokens
  BY <1>2, QueueConstants DEF IInv, TypeOK, Tokens
<1>6. held' \in [Workers -> Ticket]
  BY <1>1, <1>3, <1>5 DEF IInv, TypeOK, Ticket
<1>7. TypeOK'
  BY <1>2, <1>4, <1>5, <1>6 DEF IInv, TypeOK
<1>8. ClaimsAreMinted'
  <2> SUFFICES ASSUME NEW u \in Tasks PROVE task'[u].claims <= minted + 1
    BY <1>2 DEF ClaimsAreMinted
  <2>1. task[u].claims \in Nat /\ task[u].claims <= minted
    BY QueueConstants DEF IInv, TypeOK, TaskRow, Tokens, ClaimsAreMinted
  <2>2. task'[u].claims \in {task[u].claims, task[u].claims + 1}
    BY <1>4
  <2>3. QED
    BY <1>5, <2>1, <2>2
<1>9. TicketsHold'
  <2> SUFFICES ASSUME NEW x \in Workers PROVE TicketHolds(x)'
    BY DEF TicketsHold
  <2>1. CASE x = w
    <3>1. held'[w] = [task |-> t, token |-> minted + 1]
      BY <1>1 DEF IInv, TypeOK
    <3>2. held'[w].task = t /\ held'[w].token = minted + 1
      BY <3>1
    <3>3. QED
      BY <1>2, <1>3, <1>4, <2>1, <3>2 DEF TicketHolds, Owns
  <2>2. CASE x # w
    <3>1. held'[x] = held[x]
      BY <1>1, <2>2 DEF IInv, TypeOK
    <3>2. ASSUME held[x].task # NoTask PROVE task'[held[x].task] = task[held[x].task]
      <4>1. held[x].task \in Tasks /\ task[held[x].task].status \in Active
        BY <3>2, StatusFacts DEF IInv, TypeOK, Ticket, TicketsHold, TicketHolds
      <4>2. QED
        BY <1>3, <1>4, <4>1, StatusFacts
    <3>3. QED
      BY <1>2, <3>1, <3>2, TicketStays
  <2>3. QED
    BY <2>1, <2>2
<1>10. FingerprintsAreTrue'
  <2> SUFFICES ASSUME NEW u \in Tasks
               PROVE  /\ task'[u].fp \in {NoFp, FpOf[u]}
                      /\ task'[u].fp = NoFp =>
                            task'[u].status = "absent" \/ u \in LateIdentity
    BY DEF FingerprintsAreTrue
  <2>1. /\ task[u].fp \in {NoFp, FpOf[u]}
        /\ task[u].fp = NoFp => task[u].status = "absent" \/ u \in LateIdentity
    BY DEF IInv, FingerprintsAreTrue
  <2>2. CASE u = t
    BY <1>3, <1>4, <2>1, <2>2, StatusFacts
  <2>3. CASE u # t
    BY <1>4, <2>1, <2>3
  <2>4. QED
    BY <2>2, <2>3
<1>11. OneActivePerWork'
  <2>1. \A u \in Tasks \ {t} : task'[u].status \in Active => task[u].status \in Active
    BY <1>4, StatusFacts
  <2>2. \A u \in Tasks \ {t} : FpOf[u] = FpOf[t] => task'[u].status \notin Active
    BY <1>3, <2>1, CandidateIsAlone
  <2>3. QED
    BY <2>1, <2>2 DEF IInv, OneActivePerWork
<1>12. QED
  BY <1>7, <1>8, <1>9, <1>10, <1>11 DEF IInv

----------------------------------------------------------------------------
(* The invariant, and the properties that follow from it.                  *)

\* A table of rows that nobody has claimed, with no process running,
\* satisfies the invariant.
LEMMA InitEstablishesInvariant == ASSUME Init PROVE IInv
<1>1. /\ 0 \in Tokens /\ NoTicket \in Ticket /\ NoTicket.task = NoTask
      /\ "absent" \in Statuses /\ "queued" \in Statuses
  BY QueueConstants, StatusFacts
  DEF Tokens, NoTicket, Ticket, Statuses, Blocking, Claimable, Inert
<1>2. PICK old \in SUBSET Legacy :
        task = [t \in Tasks |-> IF t \in old THEN LegacyRow(t) ELSE NoRow]
  BY DEF Init
<1>3. NoRow \in TaskRow /\ \A t \in Tasks : LegacyRow(t) \in TaskRow
  BY <1>1, QueueConstants DEF NoRow, LegacyRow, TaskRow
<1>4. ASSUME NEW t \in Tasks
      PROVE  /\ task[t] \in TaskRow
             /\ task[t].claims = 0
             /\ task[t].status \notin Active
             /\ task[t].fp \in {NoFp, FpOf[t]}
             /\ task[t].fp = NoFp => task[t].status = "absent"
  <2>1. CASE t \in old
    <3>1. task[t] = LegacyRow(t) /\ FpOf[t] # NoFp
      BY <1>2, <2>1, QueueConstants
    <3>2. QED
      BY <1>3, <3>1, StatusFacts DEF LegacyRow, NoRow
  <2>2. CASE t \notin old
    BY <1>2, <1>3, <2>2, StatusFacts DEF NoRow
  <2>3. QED
    BY <2>1, <2>2
<1>5. TypeOK
  BY <1>1, <1>2, <1>4 DEF Init, TypeOK
<1>6. TicketsHold
  BY <1>1 DEF Init, TicketsHold, TicketHolds
<1>7. ClaimsAreMinted /\ FingerprintsAreTrue
  BY <1>4 DEF Init, ClaimsAreMinted, FingerprintsAreTrue
<1>8. OneActivePerWork
  BY <1>4 DEF OneActivePerWork
<1>9. QED
  BY <1>5, <1>6, <1>7, <1>8 DEF IInv

\* Every step keeps the invariant.
LEMMA NextKeepsInvariant == ASSUME IInv, [Next]_vars PROVE IInv'
<1>1. CASE ProcessStep
  BY <1>1, StartKeepsInvariant, DieKeepsInvariant DEF ProcessStep
<1>2. CASE QueueStep
  <2>1. ASSUME NEW t \in Tasks, Enqueue(t) PROVE IInv'
    BY <2>1, EnqueueIsQuiet, QuietKeepsInvariant
  <2>2. ASSUME NEW t \in Tasks, SetTaskWorkIdentity(t) PROVE IInv'
    BY <2>2, SetTaskWorkIdentityIsQuiet, QuietKeepsInvariant
  <2>3. ASSUME NEW t \in Tasks, LeaseExpires(t) PROVE IInv'
    BY <2>3, LeaseExpiresIsQuiet, QuietKeepsInvariant
  <2>4. ASSUME NEW t \in Tasks, RetryComesDue(t) PROVE IInv'
    BY <2>4, RetryComesDueIsQuiet, QuietKeepsInvariant
  <2>5. ASSUME ReconcileDuplicateTasks PROVE IInv'
    BY <2>5, ReconcileIsQuiet, QuietKeepsInvariant
  <2>6. ASSUME ReclaimStaleTasks PROVE IInv'
    BY <2>6, ReclaimKeepsInvariant
  <2>7. QED
    BY <1>2, <2>1, <2>2, <2>3, <2>4, <2>5, <2>6 DEF QueueStep
<1>3. ASSUME NEW w \in Workers, WorkerStep(w) PROVE IInv'
  <2>1. ASSUME NEW lane \in Lanes, ClaimTask(w, lane) PROVE IInv'
    BY <2>1, ClaimKeepsInvariant
  <2>2. ASSUME RenewTaskLease(w) PROVE IInv'
    BY <2>2, RenewKeepsInvariant
  <2>3. ASSUME NEW status \in Outcomes, CompleteTask(w, status) PROVE IInv'
    BY <2>3, CompleteKeepsInvariant
  <2>4. ASSUME RequeueTask(w) PROVE IInv'
    BY <2>4, RequeueKeepsInvariant
  <2>5. ASSUME Abandon(w) PROVE IInv'
    BY <2>5, AbandonKeepsInvariant
  <2>6. QED
    BY <1>3, <2>1, <2>2, <2>3, <2>4, <2>5 DEF WorkerStep
<1>4. CASE UNCHANGED vars
  <2>1. UNCHANGED <<task, pidOf, held, minted>>
    BY <1>4 DEF vars
  <2>2. TypeOK' /\ TicketsHold'
    BY <2>1 DEF IInv, TypeOK, TicketsHold, TicketHolds, Owns
  <2>3. ClaimsAreMinted' /\ FingerprintsAreTrue' /\ OneActivePerWork'
    BY <2>1 DEF IInv, ClaimsAreMinted, FingerprintsAreTrue, OneActivePerWork
  <2>4. QED
    BY <2>2, <2>3 DEF IInv
<1>5. QED
  BY <1>1, <1>2, <1>3, <1>4 DEF Next

\* The inductive invariant holds of every behaviour of the queue.
THEOREM Invariance == Spec => []IInv
<1>1. Init => IInv
  BY InitEstablishesInvariant
<1>2. IInv /\ [Next]_vars => IInv'
  BY NextKeepsInvariant
<1>3. QED
  BY <1>1, <1>2, PTL DEF Spec

\* The columns and the threads' memory keep their types.
THEOREM Typing == Spec => []TypeOK
<1>1. IInv => TypeOK
  BY DEF IInv
<1>2. QED
  BY <1>1, Invariance, PTL

\* No operation of the queue takes a claim from a worker whose process lives.
THEOREM LiveOwnersKeepTheirClaims == Spec => []LiveOwnerKeepsClaim
<1>1. IInv => LiveOwnerKeepsClaim
  BY DEF IInv, TicketsHold, TicketHolds, LiveOwnerKeepsClaim
<1>2. QED
  BY <1>1, Invariance, PTL

\* Equivalent tasks are never under way at once.
THEOREM EquivalentWorkIsExclusive == Spec => []OneActivePerWork
<1>1. IInv => OneActivePerWork
  BY DEF IInv
<1>2. QED
  BY <1>1, Invariance, PTL

----------------------------------------------------------------------------
(* Deduplication leaves one of the equivalent tasks standing.              *)

\* A row that is superseded in this step names one that has its work and
\* stands for it.
Replaced(t) ==
    LET c == task'[t].canonical
    IN  c \in Tasks /\ FpOf[c] = FpOf[t] /\ task'[c].status \in Blocking

RowSurvives(t) ==
    /\ task'[t].status = "superseded_duplicate" =>
          \/ /\ task[t].status = "superseded_duplicate"
             /\ task'[t].canonical = task[t].canonical
          \/ Replaced(t)
    /\ task[t].status \in Blocking =>
          \/ task'[t].status \in Blocking \cup {"superseded_duplicate"}
          \/ \E w \in Workers : held[w].task = t /\ held'[w] = NoTicket

RowsSurvive == \A t \in Tasks : RowSurvives(t)

\* A row survives that blocks after the step, or whose status and canonical
\* row are as they were.
LEMMA BlockingOrSame ==
    ASSUME NEW t \in Tasks,
           \/ task'[t].status \in Blocking
           \/ /\ task'[t].status = task[t].status
              /\ task'[t].canonical = task[t].canonical
    PROVE  RowSurvives(t)
BY StatusFacts DEF RowSurvives

\* Supersede names the row that stands for the work.
LEMMA SupersedeNames ==
    ASSUME NEW row \in TaskRow, NEW c \in Tasks
    PROVE  Supersede(row, c).canonical = c
BY DEF Supersede, TaskRow

\* A row that a fingerprint lookup finds has that work.
LEMMA FingerprintTells ==
    ASSUME IInv, NEW t \in Tasks, task[t].fp # NoFp
    PROVE  FpOf[t] = task[t].fp
BY DEF IInv, FingerprintsAreTrue

\* A task that is enqueued is superseded only by a row that blocks.
LEMMA EnqueueSurvives ==
    ASSUME IInv, NEW t \in Tasks, Enqueue(t) PROVE RowsSurvive
<1>1. PICK f \in {FpOf[t]} \cup (IF t \in LateIdentity THEN {NoFp} ELSE {}) :
         EnqueueTask(t, f)
  BY DEF Enqueue
<1>2. task[t] \in TaskRow /\ f \in Fps \cup {NoFp}
  BY <1>1, QueueConstants DEF IInv, TypeOK
<1>3. \A u \in Tasks \ {t} : task'[u] = task[u]
  BY <1>1 DEF EnqueueTask, IInv, TypeOK
<1>4. \A u \in Tasks \ {t} : RowSurvives(u)
  BY <1>3, BlockingOrSame
<1> DEFINE peers == Peers(t, f, Blocking)
<1>5. CASE peers # {} /\ task[t].status \notin Active
  <2> DEFINE old == [Unclaimed(task[t]) EXCEPT !.fp = f]
  <2>1. PICK c \in Foremost(peers) : task' = [task EXCEPT ![t] = Supersede(old, c)]
    BY <1>1, <1>5 DEF EnqueueTask
  <2>2. /\ c \in Tasks \ {t} /\ f # NoFp /\ task[c].fp = f
        /\ task[c].status \in Blocking
    BY <2>1 DEF Foremost, Peers
  <2>3. FpOf[t] = f /\ FpOf[c] = f
    BY <1>1, <2>2, FingerprintTells
  <2>4. old \in TaskRow
    BY <1>2, UnclaimedRow DEF TaskRow
  <2>5. task'[t] = Supersede(old, c)
    BY <2>1 DEF IInv, TypeOK
  <2>6. /\ task'[t].status = "superseded_duplicate" /\ task'[t].canonical = c
    BY <2>2, <2>4, <2>5, SupersedeRow, SupersedeNames
  <2>7. task'[c].status \in Blocking
    BY <1>3, <2>2
  <2>8. RowSurvives(t)
    BY <2>2, <2>3, <2>6, <2>7 DEF RowSurvives, Replaced
  <2>9. QED
    BY <1>4, <2>8 DEF RowsSurvive
<1>6. CASE ~(peers # {} /\ task[t].status \notin Active)
  <2>1. task'[t] = Refresh(task[t], f)
    BY <1>1, <1>6 DEF EnqueueTask, IInv, TypeOK
  <2>2. task'[t].status = NextStatus(task[t].status)
    BY <1>2, <2>1, RefreshRow
  <2>3. task'[t].status \in Blocking
    BY <2>2 DEF NextStatus, Blocking, Claimable
  <2>4. QED
    BY <1>4, <2>3, BlockingOrSame DEF RowsSurvive
<1>7. QED
  BY <1>5, <1>6

\* Reconciliation keeps the row that it makes the others' canonical one.
LEMMA ReconcileSurvives ==
    ASSUME IInv, ReconcileDuplicateTasks PROVE RowsSurvive
<1> DEFINE shared == {f \in Fps : Cardinality(Sharing(f)) > 1}
<1>1. PICK kept \in [shared -> Tasks] :
         /\ \A f \in shared : kept[f] \in Foremost(Sharing(f))
         /\ task' = [t \in Tasks |->
                    IF /\ task[t].fp \in shared
                       /\ task[t].status \in Claimable
                       /\ t # kept[task[t].fp]
                    THEN Supersede(task[t], kept[task[t].fp])
                    ELSE task[t]]
  BY DEF ReconcileDuplicateTasks
<1> SUFFICES ASSUME NEW t \in Tasks PROVE RowSurvives(t)
  BY DEF RowsSurvive
<1> DEFINE f == task[t].fp
           c == kept[f]
<1>2. CASE f \in shared /\ task[t].status \in Claimable /\ t # c
  <2>1. c \in Foremost(Sharing(f)) /\ f \in Fps /\ f # NoFp
    BY <1>1, <1>2, QueueConstants
  <2>2. c \in Tasks /\ task[c].fp = f /\ task[c].status \in Blocking
    BY <2>1 DEF Foremost, Sharing
  <2>3. task[c].fp \in shared /\ ~(c # kept[task[c].fp])
    BY <1>2, <2>2
  <2>4. task'[c] = task[c]
    BY <1>1, <2>2, <2>3
  <2>5. FpOf[t] = f /\ FpOf[c] = f
    BY <2>1, <2>2, FingerprintTells
  <2>6. task'[t] = Supersede(task[t], c) /\ task[t] \in TaskRow
    BY <1>1, <1>2 DEF IInv, TypeOK
  <2>7. task'[t].status = "superseded_duplicate" /\ task'[t].canonical = c
    BY <2>2, <2>6, SupersedeRow, SupersedeNames
  <2>8. QED
    BY <2>2, <2>4, <2>5, <2>7 DEF RowSurvives, Replaced
<1>3. CASE ~(f \in shared /\ task[t].status \in Claimable /\ t # c)
  <2>1. task'[t] = task[t]
    BY <1>1, <1>3
  <2>2. QED
    BY <2>1, BlockingOrSame
<1>4. QED
  BY <1>2, <1>3

\* A reclaimed row is queued again.
LEMMA ReclaimSurvives ==
    ASSUME IInv, ReclaimStaleTasks PROVE RowsSurvive
<1> SUFFICES ASSUME NEW t \in Tasks PROVE RowSurvives(t)
  BY DEF RowsSurvive
<1>1. task[t] \in TaskRow
  BY DEF IInv, TypeOK
<1>2. CASE Reclaimable(task[t])
  <2>1. task'[t] = [Unclaimed(task[t]) EXCEPT !.status = "requeued", !.due = TRUE]
    BY <1>2 DEF ReclaimStaleTasks
  <2>2. task'[t].status = "requeued"
    BY <1>1, <2>1, UnclaimedRow DEF TaskRow
  <2>3. QED
    BY <2>2, BlockingOrSame DEF Blocking, Claimable
<1>3. CASE ~Reclaimable(task[t])
  <2>1. task'[t] = task[t]
    BY <1>3 DEF ReclaimStaleTasks
  <2>2. QED
    BY <2>1, BlockingOrSame
<1>4. QED
  BY <1>2, <1>3

\* The duplicates of a claimed row are superseded by it.
LEMMA ClaimSurvives ==
    ASSUME IInv, NEW w \in Workers, NEW lane \in Lanes, ClaimTask(w, lane)
    PROVE  RowsSurvive
<1>1. PICK t \in FirstInLine(lane) : task' = Claimed(t, w)
  BY DEF ClaimTask
<1>2. t \in Candidates /\ t \in Tasks /\ minted < MaxTokens
  BY <1>1 DEF FirstInLine, Candidates, ClaimTask
<1>3. task'[t].status = "claimed"
  BY <1>1, <1>2, ClaimedRows
<1>4. task'[t].status \in Blocking
  BY <1>3 DEF Blocking, Active
<1>5. ASSUME NEW u \in Tasks, u # t PROVE RowSurvives(u)
  <2>1. CASE u \in Peers(t, task[t].fp, Claimable)
    <3>1. task[u].fp = task[t].fp /\ task[t].fp # NoFp
      BY <2>1 DEF Peers
    <3>2. FpOf[u] = FpOf[t]
      BY <1>2, <3>1, FingerprintTells
    <3>3. task'[u] = Supersede(task[u], t) /\ task[u] \in TaskRow
      BY <1>1, <1>5, <2>1 DEF Claimed, IInv, TypeOK
    <3>4. task'[u].status = "superseded_duplicate" /\ task'[u].canonical = t
      BY <1>2, <3>3, SupersedeRow, SupersedeNames
    <3>5. QED
      BY <1>2, <1>4, <3>2, <3>4 DEF RowSurvives, Replaced
  <2>2. CASE u \notin Peers(t, task[t].fp, Claimable)
    <3>1. task'[u] = task[u]
      BY <1>1, <1>5, <2>2 DEF Claimed
    <3>2. QED
      BY <3>1, BlockingOrSame
  <2>3. QED
    BY <2>1, <2>2
<1>6. QED
  BY <1>2, <1>4, <1>5, BlockingOrSame DEF RowsSurvive

\* A worker that writes its row renews it, gives it back, or is done with it.
LEMMA OwnerSurvives ==
    ASSUME IInv, NEW w \in Workers, Owns(w), NEW row,
           task' = [task EXCEPT ![held[w].task] = row],
           row.status # "superseded_duplicate",
           row.status \in Blocking \/ held'[w] = NoTicket
    PROVE  RowsSurvive
<1>1. held[w].task \in Tasks
  BY DEF Owns, IInv, TypeOK, Ticket
<1>2. /\ task'[held[w].task] = row
      /\ \A u \in Tasks \ {held[w].task} : task'[u] = task[u]
  BY <1>1 DEF IInv, TypeOK
<1>3. RowSurvives(held[w].task)
  BY <1>1, <1>2 DEF RowSurvives
<1>4. QED
  BY <1>2, <1>3, BlockingOrSame DEF RowsSurvive

\* So do the steps of a worker.
LEMMA WorkerSurvives ==
    ASSUME IInv, NEW w \in Workers, WorkerStep(w) PROVE RowsSurvive
<1> DEFINE mine == held[w].task
<1>1. Owns(w) => mine \in Tasks /\ task[mine] \in TaskRow
  BY DEF Owns, IInv, TypeOK, Ticket
<1>2. Owns(w) => Unclaimed(task[mine]) \in TaskRow
  BY <1>1, UnclaimedRow
<1>3. LetGo(w) => held'[w] = NoTicket
  BY DEF LetGo, IInv, TypeOK
<1>4. ASSUME NEW lane \in Lanes, ClaimTask(w, lane) PROVE RowsSurvive
  BY <1>4, ClaimSurvives
<1>5. CASE RenewTaskLease(w)
  <2> DEFINE row == [task[mine] EXCEPT !.status = "coding", !.expired = FALSE]
  <2>1. Owns(w) /\ task' = [task EXCEPT ![mine] = row]
    BY <1>5 DEF RenewTaskLease
  <2>2. row.status = "coding"
    BY <1>1, <2>1 DEF TaskRow
  <2>3. QED
    BY <2>1, <2>2, OwnerSurvives DEF Blocking, Active
<1>6. ASSUME NEW status \in Outcomes, CompleteTask(w, status) PROVE RowsSurvive
  <2> DEFINE row == [Unclaimed(task[mine]) EXCEPT !.status = status]
  <2>1. Owns(w) /\ task' = [task EXCEPT ![mine] = row] /\ LetGo(w)
    BY <1>6 DEF CompleteTask
  <2>2. row.status = status /\ status # "superseded_duplicate"
    BY <1>2, <2>1 DEF TaskRow, Outcomes
  <2>3. QED
    BY <1>3, <2>1, <2>2, OwnerSurvives
<1>7. CASE RequeueTask(w)
  <2> DEFINE row == [Unclaimed(task[mine]) EXCEPT !.status = "requeued", !.due = FALSE]
  <2>1. Owns(w) /\ task' = [task EXCEPT ![mine] = row] /\ LetGo(w)
    BY <1>7 DEF RequeueTask
  <2>2. row.status = "requeued"
    BY <1>2, <2>1 DEF TaskRow
  <2>3. QED
    BY <1>3, <2>1, <2>2, OwnerSurvives
<1>8. CASE Abandon(w)
  BY <1>8, BlockingOrSame DEF Abandon, RowsSurvive
<1>9. QED
  BY <1>4, <1>5, <1>6, <1>7, <1>8 DEF WorkerStep

\* Every step leaves something standing for the work of every row.
LEMMA NextSurvives == ASSUME IInv, [Next]_vars PROVE RowsSurvive
<1>1. CASE task' = task
  BY <1>1, BlockingOrSame DEF RowsSurvive
<1>2. ASSUME NEW t \in Tasks,
             SetTaskWorkIdentity(t) \/ LeaseExpires(t) \/ RetryComesDue(t)
      PROVE  RowsSurvive
  <2>1. task[t] \in TaskRow
    BY DEF IInv, TypeOK
  <2>2. /\ task'[t].status = task[t].status
        /\ task'[t].canonical = task[t].canonical
        /\ \A u \in Tasks \ {t} : task'[u] = task[u]
    BY <1>2, <2>1 DEF SetTaskWorkIdentity, LeaseExpires, RetryComesDue,
                      IInv, TypeOK, TaskRow
  <2>3. QED
    BY <2>2, BlockingOrSame DEF RowsSurvive
<1>3. CASE QueueStep
  BY <1>2, <1>3, EnqueueSurvives, ReconcileSurvives, ReclaimSurvives DEF QueueStep
<1>4. CASE ProcessStep \/ UNCHANGED vars
  BY <1>1, <1>4 DEF ProcessStep, Start, Die, vars
<1>5. QED
  BY <1>3, <1>4, WorkerSurvives DEF Next

\* A step closes no cycle of superseded rows: a row that it supersedes names
\* one that is not superseded.
LEMMA NoCycleCloses ==
    ASSUME IInv, RowsSurvive, NoCanonicalCycle PROVE NoCanonicalCycle'
<1> SUFFICES ASSUME NEW S \in SUBSET Tasks, S # {},
                    \A t \in S : /\ task'[t].status = "superseded_duplicate"
                                 /\ task'[t].canonical \in S
             PROVE  FALSE
  BY DEF NoCanonicalCycle, Cycles
<1>1. ASSUME NEW t \in S
      PROVE  task[t].status = "superseded_duplicate" /\ task[t].canonical \in S
  <2>1. ~Replaced(t)
    BY StatusFacts DEF Replaced
  <2>2. QED
    BY <2>1 DEF RowsSurvive, RowSurvives
<1>2. S \in Cycles
  BY <1>1 DEF Cycles
<1>3. QED
  BY <1>2 DEF NoCanonicalCycle

\* Whatever enqueue, claim and reconciliation make superseded, the rows never
\* stand for each other.
THEOREM CanonicalRowsEnd == Spec => []NoCanonicalCycle
<1>1. Init => NoCanonicalCycle
  <2> SUFFICES ASSUME Init, NEW t \in Tasks
               PROVE  task[t].status # "superseded_duplicate"
    BY DEF NoCanonicalCycle, Cycles
  <2>1. NoRow.status = "absent" /\ LegacyRow(t).status = "queued"
    BY DEF NoRow, LegacyRow
  <2>2. task[t] = NoRow \/ task[t] = LegacyRow(t)
    BY DEF Init
  <2>3. QED
    BY <2>1, <2>2
<1>2. IInv /\ NoCanonicalCycle /\ [Next]_vars => NoCanonicalCycle'
  BY NextSurvives, NoCycleCloses
<1>3. QED
  BY <1>1, <1>2, Invariance, PTL DEF Spec

\* Work that a task stands for is dropped only by the worker that ends it.
THEOREM DeduplicationDropsNoWork == Spec => WorkIsNeverDropped
<1> DEFINE A == \A f \in Fps : StandsFor(f) /\ ~StandsFor(f)' =>
                  \E w \in Workers : /\ held[w].task # NoTask /\ held'[w] = NoTicket
                                     /\ FpOf[held[w].task] = f
<1>1. IInv /\ [Next]_vars => [A]_vars
  <2> SUFFICES ASSUME IInv, [Next]_vars, NEW f \in Fps,
                      StandsFor(f), ~StandsFor(f)'
               PROVE  \E w \in Workers : /\ held[w].task # NoTask
                                         /\ held'[w] = NoTicket
                                         /\ FpOf[held[w].task] = f
    OBVIOUS
  <2>1. PICK t \in Tasks : FpOf[t] = f /\ task[t].status \in Blocking
    BY DEF StandsFor
  <2>2. RowSurvives(t) /\ task[t].status # "superseded_duplicate"
    BY <2>1, NextSurvives, StatusFacts DEF RowsSurvive
  <2>3. task'[t].status \notin Blocking /\ ~Replaced(t)
    BY <2>1 DEF StandsFor, Replaced
  <2>4. PICK w \in Workers : held[w].task = t /\ held'[w] = NoTicket
    BY <2>1, <2>2, <2>3 DEF RowSurvives
  <2>5. QED
    BY <2>1, <2>4, QueueConstants
<1>2. QED
  BY <1>1, Invariance, PTL DEF Spec, WorkIsNeverDropped

----------------------------------------------------------------------------
(* The queue implements ExclusiveWork.                                     *)

\* A worker begins what nobody is doing.
LEMMA ClaimIsBegin ==
    ASSUME IInv, NEW w \in Workers, NEW lane \in Lanes, ClaimTask(w, lane)
    PROVE  \E t \in Tasks : Ownership!Begin(w, t)
<1>1. PICK t \in FirstInLine(lane) :
         held' = [held EXCEPT ![w] = [task |-> t, token |-> minted + 1]]
  BY DEF ClaimTask
<1>2. t \in Candidates /\ t \in Tasks /\ task[t].status \in Claimable
  BY <1>1 DEF FirstInLine, Candidates
<1>3. held[w].task = NoTask /\ held \in [Workers -> Ticket]
  BY DEF ClaimTask, NoTicket, IInv, TypeOK
<1>4. ASSUME NEW x \in Workers, held[x].task # NoTask
      PROVE  FpOf[held[x].task] # FpOf[t]
  <2>1. held[x].task \in Tasks /\ task[held[x].task].status \in Active
    BY <1>4, StatusFacts DEF IInv, TypeOK, Ticket, TicketsHold, TicketHolds
  <2>2. QED
    BY <1>2, <2>1, CandidateIsAlone, StatusFacts
<1>5. [x \in Workers |-> held'[x].task]
         = [[x \in Workers |-> held[x].task] EXCEPT ![w] = t]
  BY <1>1, <1>3
<1>6. Ownership!Begin(w, t)
  BY <1>3, <1>4, <1>5 DEF Ownership!Begin
<1>7. QED
  BY <1>2, <1>6

\* A worker that lets go of its ticket stops.
LEMMA LetGoIsStop ==
    ASSUME IInv, NEW w \in Workers, LetGo(w)
    PROVE  \E S \in SUBSET Workers : Ownership!Stop(S)
<1>1. held' = [held EXCEPT ![w] = NoTicket] /\ held \in [Workers -> Ticket]
  BY DEF LetGo, IInv, TypeOK
<1>2. Ownership!Stop({w})
  BY <1>1 DEF Ownership!Stop, NoTicket
<1>3. QED
  BY <1>2

\* When a process dies, the workers it ran stop.
LEMMA DieIsStop ==
    ASSUME IInv, NEW p \in Pids, Die(p)
    PROVE  \E S \in SUBSET Workers : Ownership!Stop(S)
<1>1. PICK S \in SUBSET Workers : S = {w \in Workers : pidOf[w] = p}
  OBVIOUS
<1>2. Ownership!Stop(S)
  BY <1>1 DEF Die, Ownership!Stop, NoTicket
<1>3. QED
  BY <1>2

\* Every other step leaves the tickets alone.
LEMMA StepImplements ==
    ASSUME IInv, [Next]_vars
    PROVE  [Ownership!Next]_[w \in Workers |-> held[w].task]
<1>1. CASE held' = held
  BY <1>1
<1>2. CASE \E p \in Pids : Die(p)
  BY <1>2, DieIsStop DEF Ownership!Next
<1>3. ASSUME NEW w \in Workers, NEW lane \in Lanes, ClaimTask(w, lane)
      PROVE  Ownership!Next
  BY <1>3, ClaimIsBegin DEF Ownership!Next
<1>4. ASSUME NEW w \in Workers, LetGo(w) PROVE Ownership!Next
  BY <1>4, LetGoIsStop DEF Ownership!Next
<1>5. CASE \E w \in Workers : WorkerStep(w)
  <2>1. PICK w \in Workers : WorkerStep(w)
    BY <1>5
  <2>2. RenewTaskLease(w) => held' = held
    BY DEF RenewTaskLease
  <2>3. \/ \E lane \in Lanes : ClaimTask(w, lane)
        \/ RenewTaskLease(w)
        \/ LetGo(w)
    BY <2>1 DEF WorkerStep, CompleteTask, RequeueTask, Abandon
  <2>4. QED
    BY <1>1, <1>3, <1>4, <2>2, <2>3
<1>6. CASE QueueStep
  <2>1. held' = held
    BY <1>6 DEF QueueStep, Enqueue, SetTaskWorkIdentity, LeaseExpires,
                RetryComesDue, ReconcileDuplicateTasks, ReclaimStaleTasks
  <2>2. QED
    BY <1>1, <2>1
<1>7. CASE ProcessStep
  <2>1. (\E p \in Pids : Die(p)) \/ held' = held
    BY <1>7 DEF ProcessStep, Start
  <2>2. QED
    BY <1>1, <1>2, <2>1
<1>8. CASE UNCHANGED vars
  <2>1. held' = held
    BY <1>8 DEF vars
  <2>2. QED
    BY <1>1, <2>1
<1>9. QED
  BY <1>5, <1>6, <1>7, <1>8 DEF Next

\* The queue implements its abstract promise: two workers are never on the
\* same piece of work, and only letting go or dying ends a worker's work.
THEOREM Refinement == Spec => OwnershipIsExclusive
<1>1. Init => Ownership!Init
  BY DEF Init, Ownership!Init, NoTicket
<1>2. IInv /\ [Next]_vars => [Ownership!Next]_[w \in Workers |-> held[w].task]
  BY StepImplements
<1>3. QED
  BY <1>1, <1>2, Invariance, PTL DEF Spec, OwnershipIsExclusive, Ownership!Spec
=============================================================================
