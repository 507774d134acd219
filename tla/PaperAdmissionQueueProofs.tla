--------------------- MODULE PaperAdmissionQueueProofs ---------------------
(***************************************************************************)
(* For any number of episodes, keys and radars, any markets and lineages   *)
(* of the keys, and any limit: the types, the one active row of a key, one *)
(* fill per episode, and one open trade of a key.  As long as passes have  *)
(* not overlapped: an open trade has a row that follows it, a row that     *)
(* ended stays ended, and no two open trades are of one market and one     *)
(* lineage.                                                                *)
(***************************************************************************)
EXTENDS PaperAdmissionQueue, TLAPS, FiniteSetTheorems

RadarsTyped == radar \in [Radars -> Pass]

RowsTyped ==
  /\ row \in [Episodes -> QueueRow]
  /\ \A e \in Episodes : row[e].token # None => row[e].status = "queued"
  /\ OneActive(row)

ArtifactsTyped ==
  /\ decision \in [Episodes -> Decisions]
  /\ shadowed \subseteq Episodes
  /\ trade \in [Episodes -> Trades]
  /\ fills \in [Episodes -> Nat]

\* A pass that has claimed a row is working on one.
WorksOnARow ==
  \A r \in Radars :
    radar[r].at \in {"review", "check", "execute", "executeFull", "decide"}
      => radar[r].item \in Episodes

LEMMA IdleIsAPass == IdlePass \in Pass
  BY DEF IdlePass, Pass, Steps, Decisions

\* What a pass is left with after each part of its work.
LEMMA FreshPass ==
  ASSUME NEW step \in Steps
  PROVE  [IdlePass EXCEPT !.at = step] \in Pass
  BY DEF IdlePass, Pass, Steps, Decisions

LEMMA VerdictIsAStatus ==
  ASSUME NEW e \in Episodes
  PROVE  Verdict(e) \in Active \cup Terminal \cup {"keep"}
  BY DEF Verdict, Active, Terminal

LEMMA RadarStaysTyped ==
  ASSUME RadarsTyped, [Next]_vars
  PROVE  RadarsTyped'
  <1> USE IdleIsAPass DEF RadarsTyped, Pass, Dies, Goes, Steps, Decisions
  <1>1. CASE UNCHANGED vars
    BY <1>1 DEF vars
  <1>2. ASSUME NEW r \in Radars, Crash(r) PROVE RadarsTyped'
    BY <1>2 DEF Crash
  <1>3. ASSUME NEW r \in Radars, Begin(r) PROVE RadarsTyped'
    BY <1>3 DEF Begin
  <1>4. ASSUME NEW r \in Radars, ReconcileList(r) PROVE RadarsTyped'
    <2>1. PICK first \in ActiveRows \cup {None} :
            radar' = [radar EXCEPT ![r].at = IF @ = "list" THEN "reconcile" ELSE "finish",
                        ![r].seen = ActiveRows, ![r].first = first,
                        ![r].verdict = IF first = None THEN "keep" ELSE Verdict(first)]
      BY <1>4 DEF ReconcileList
    <2>2. /\ ActiveRows \subseteq Episodes
          /\ first # None => Verdict(first) \in Active \cup Terminal \cup {"keep"}
      BY VerdictIsAStatus DEF ActiveRows
    <2> DEFINE verdict == IF first = None THEN "keep" ELSE Verdict(first)
    <2>3. verdict \in Active \cup Terminal \cup {"keep"}
      BY <2>2
    <2> HIDE DEF verdict
    <2>4. radar' = [radar EXCEPT ![r].at = IF @ = "list" THEN "reconcile" ELSE "finish",
                      ![r].seen = ActiveRows, ![r].first = first, ![r].verdict = verdict]
      BY <2>1 DEF verdict
    <2>5. (IF radar[r].at = "list" THEN "reconcile" ELSE "finish") \in Steps
      OBVIOUS
    <2> DEFINE step == IF radar[r].at = "list" THEN "reconcile" ELSE "finish"
    <2>6. radar' = [radar EXCEPT ![r] = [radar[r] EXCEPT !.at = step, !.seen = ActiveRows,
                                           !.first = first, !.verdict = verdict]]
      BY <2>4
    <2>7. step \in Steps
      BY <2>5
    <2> HIDE DEF step, Steps
    <2>8. [radar[r] EXCEPT !.at = step, !.seen = ActiveRows,
                           !.first = first, !.verdict = verdict] \in Pass
      BY <2>2, <2>3, <2>7
    <2> HIDE DEF Pass
    <2> QED
      BY <2>6, <2>8
  <1>5. ASSUME NEW r \in Radars, Reconcile(r) PROVE RadarsTyped'
    BY <1>5 DEF Reconcile, AfterReconcile, IdlePass
  <1>6. ASSUME NEW r \in Radars, EnqueueRead(r) PROVE RadarsTyped'
    <2> HIDE DEF Decisions
    <2> QED
      BY <1>6 DEF EnqueueRead, Queued
  <1>7. ASSUME NEW r \in Radars, EnqueueUpdates(r) \/ EnqueueInserts(r) PROVE RadarsTyped'
    <2>1. \/ radar' = [radar EXCEPT ![r] = [IdlePass EXCEPT !.at = "select"]]
          \/ radar' = [radar EXCEPT ![r] = IdlePass]
      BY <1>7 DEF EnqueueUpdates, EnqueueInserts, ToSelect
    <2> HIDE DEF Pass, Decisions
    <2> QED
      BY <2>1, FreshPass
  <1>8. ASSUME NEW r \in Radars, Select(r) PROVE RadarsTyped'
    <2>1. CASE Reconciles(r)
      <3> HIDE DEF Pass, Decisions
      <3> QED
        BY <2>1, FreshPass DEF Reconciles
    <2>2. ASSUME NEW e \in Episodes,
                 radar' = [radar EXCEPT ![r].at = "review", ![r].item = e]
          PROVE  RadarsTyped'
      <3>1. [radar[r] EXCEPT !.at = "review", !.item = e] \in Pass
        OBVIOUS
      <3>2. radar' = [radar EXCEPT ![r] = [radar[r] EXCEPT !.at = "review", !.item = e]]
        BY <2>2
      <3> HIDE DEF Pass
      <3> QED
        BY <3>1, <3>2
    <2>3. \A gone \in SUBSET Claimed : Free(gone) \subseteq Episodes
      BY DEF Free, Queued, Claimed
    <2> HIDE DEF Pass, RadarsTyped, Steps, Decisions
    <2> QED
      BY <1>8, <2>1, <2>2, <2>3 DEF Select, Claims
  <1>9. ASSUME NEW r \in Radars, Review(r) PROVE RadarsTyped'
    BY <1>9 DEF Review, Reconciles, IdlePass
  <1>10. ASSUME NEW r \in Radars, Check(r) PROVE RadarsTyped'
    BY <1>10 DEF Check, Reconciles, IdlePass
  <1>11. ASSUME NEW r \in Radars, Fill(r) \/ NoFill(r) \/ Shadow(r) PROVE RadarsTyped'
    BY <1>11 DEF Fill, NoFill, Shadow, Ends
  <1>12. ASSUME NEW r \in Radars, Decide(r) PROVE RadarsTyped'
    BY <1>12 DEF Decide, Reconciles, IdlePass
  <1>13. ASSUME NEW e \in Episodes, CloseTrade(e) \/ OutcomeMeasured(e) PROVE RadarsTyped'
    BY <1>13 DEF CloseTrade, OutcomeMeasured
  <1> QED
    BY <1>1, <1>2, <1>3, <1>4, <1>5, <1>6, <1>7, <1>8, <1>9, <1>10, <1>11, <1>12, <1>13
       DEF Next

LEMMA WorkStays ==
  ASSUME RadarsTyped, WorksOnARow, [Next]_vars
  PROVE  WorksOnARow'
  <1> SUFFICES ASSUME NEW s \in Radars,
                      radar'[s].at \in {"review", "check", "execute", "executeFull", "decide"}
               PROVE  radar'[s].item \in Episodes
    BY DEF WorksOnARow
  <1> USE DEF RadarsTyped, WorksOnARow, At, AtOneOf, Goes, Dies, Reconciles, ToSelect, IdlePass
  <1>1. CASE UNCHANGED radar
    BY <1>1
  <1>2. ASSUME NEW r \in Radars,
               Crash(r) \/ Begin(r) \/ ReconcileList(r) \/ Reconcile(r) \/ EnqueueRead(r)
                 \/ EnqueueUpdates(r) \/ EnqueueInserts(r)
        PROVE  radar'[s].item \in Episodes
    <2>1. radar'[r].at \in {"idle", "list", "reconcile", "finish", "scan", "enqueue", "select"}
      <3>1. CASE Crash(r) \/ Begin(r)
        BY <3>1 DEF Crash, Begin, Pass
      <3>4. CASE EnqueueRead(r)
        BY <3>4 DEF EnqueueRead, Pass
      <3>5. CASE EnqueueUpdates(r) \/ EnqueueInserts(r)
        <4>1. ToSelect(r) \/ Dies(r)
          BY <3>5 DEF EnqueueUpdates, EnqueueInserts
        <4> QED
          BY <4>1 DEF Pass
      <3>2. CASE Reconcile(r)
        BY <3>2 DEF Reconcile, AfterReconcile, Pass
      <3>3. CASE ReconcileList(r)
        BY <3>3 DEF ReconcileList, Pass
      <3> QED
        BY <1>2, <3>1, <3>2, <3>3, <3>4, <3>5
    <2>2. s # r => radar'[s] = radar[s]
      <3> HIDE DEF WorksOnARow
      <3> QED
        BY <1>2 DEF Crash, Begin, ReconcileList, Reconcile, AfterReconcile, EnqueueRead,
                  EnqueueUpdates, EnqueueInserts, Pass
    <2> QED
      BY <2>1, <2>2
  <1>3. ASSUME NEW r \in Radars, Select(r) PROVE radar'[s].item \in Episodes
    <2>1. \/ Reconciles(r)
          \/ \E e \in Episodes : radar' = [radar EXCEPT ![r].at = "review", ![r].item = e]
      BY <1>3 DEF Select, Claims, Free, Queued, Claimed
    <2>2. CASE Reconciles(r)
      BY <2>2 DEF Pass
    <2>3. ASSUME NEW e \in Episodes,
                 radar' = [radar EXCEPT ![r].at = "review", ![r].item = e]
          PROVE  radar'[s].item \in Episodes
      BY <2>3 DEF Pass
    <2> QED
      BY <2>1, <2>2, <2>3
  <1>4. ASSUME NEW r \in Radars, Review(r) \/ Check(r) PROVE radar'[s].item \in Episodes
    BY <1>4 DEF Review, Check, Pass
  <1>5. ASSUME NEW r \in Radars, Fill(r) \/ NoFill(r) \/ Shadow(r) \/ Decide(r)
        PROVE  radar'[s].item \in Episodes
    BY <1>5 DEF Fill, NoFill, Shadow, Ends, Decide, Pass
  <1> QED
    BY <1>1, <1>2, <1>3, <1>4, <1>5 DEF Next, vars, CloseTrade, OutcomeMeasured

\* What a reconciled row is: the row itself, or a transition of it.
LEMMA ReconciledRow ==
  ASSUME RadarsTyped, NEW r \in Radars, NEW e \in Episodes
  PROVE  \/ Reconciled(r, e) = row[e]
         \/ \E status \in Active \cup Terminal : Reconciled(r, e) = Transitioned(e, status)
  <1>1. radar[r].verdict \in Active \cup Terminal \cup {"keep"}
    BY DEF RadarsTyped, Pass
  <1> DEFINE verdict == IF e = radar[r].first THEN radar[r].verdict ELSE Verdict(e)
  <1>2. verdict \in Active \cup Terminal \cup {"keep"}
    BY <1>1, VerdictIsAStatus
  <1>3. Reconciled(r, e) = IF e \notin radar[r].seen \/ verdict = "keep"
                           THEN row[e] ELSE Transitioned(e, verdict)
    BY DEF Reconciled
  <1> HIDE DEF verdict
  <1> QED
    BY <1>2, <1>3

Reconciling == \E r \in Radars : Reconcile(r)
Inserting == \E r \in Radars : EnqueueInserts(r)

\* The row of an episode after a step: as it was, in a new status without a
\* claim, with its claim released, claimed, filled, or new.
RowStep(e) ==
  \/ row'[e] = row[e]
  \/ /\ row[e].status # "absent"
     /\ \E status \in Active \cup Terminal :
          /\ row'[e] = Transitioned(e, status)
          /\ status \in Terminal \/ row[e].status \in Active \/ Reconciling
  \/ row'[e] = [row[e] EXCEPT !.token = None]
  \/ \E r \in Radars : /\ Select(r)
                       /\ row[e].status = "queued"
                       /\ row'[e] = [row[e] EXCEPT !.token = r]
  \/ \E k \in Keys : /\ Inserting
                     /\ row[e].status = "absent"
                     /\ row'[e] = [Absent EXCEPT !.key = k, !.status = "queued"]

\* A pass lists and invalidates rows that exist.
SeesRows ==
  \A r \in Radars : \A e \in radar[r].seen : e \in Episodes /\ row[e].status # "absent"

LEMMA SightStays ==
  ASSUME RadarsTyped, SeesRows, RowsTyped, [Next]_vars,
         \A e \in Episodes : RowStep(e)
  PROVE  SeesRows'
  <1>1. \A e \in Episodes : row[e].status # "absent" => row'[e].status # "absent"
    BY DEF RowStep, Transitioned, RowsTyped, QueueRow, Active, Terminal
  <1>2. ASSUME NEW s \in Radars
        PROVE  radar'[s].seen \subseteq radar[s].seen \cup ActiveRows
    <2> USE DEF RadarsTyped, Dies, Goes, Reconciles, ToSelect, IdlePass
    <2>1. CASE UNCHANGED radar
      BY <2>1
    <2>2. ASSUME NEW r \in Radars,
                 Crash(r) \/ Begin(r) \/ EnqueueUpdates(r) \/ EnqueueInserts(r) \/ Select(r)
                   \/ Review(r) \/ Check(r) \/ Fill(r) \/ NoFill(r) \/ Shadow(r) \/ Decide(r)
          PROVE  radar'[s].seen \subseteq radar[s].seen
      <3>1. CASE Crash(r) \/ Begin(r) \/ Decide(r)
        BY <3>1 DEF Crash, Begin, Decide, Pass
      <3>2. CASE EnqueueUpdates(r) \/ EnqueueInserts(r)
        <4>1. ToSelect(r) \/ Dies(r)
          BY <3>2 DEF EnqueueUpdates, EnqueueInserts
        <4> QED
          BY <4>1 DEF Pass
      <3>3. CASE Select(r)
        <4>1. \/ Reconciles(r)
              \/ \E e \in Episodes : radar' = [radar EXCEPT ![r].at = "review", ![r].item = e]
          BY <3>3 DEF Select, Claims, Free, Queued, Claimed
        <4> QED
          BY <4>1 DEF Pass
      <3>4. CASE Review(r) \/ Check(r)
        BY <3>4 DEF Review, Check, Pass
      <3>5. CASE Fill(r) \/ NoFill(r) \/ Shadow(r)
        BY <3>5 DEF Fill, NoFill, Shadow, Ends, Pass
      <3> QED
        BY <2>2, <3>1, <3>2, <3>3, <3>4, <3>5
    <2>3. ASSUME NEW r \in Radars, ReconcileList(r) \/ EnqueueRead(r)
          PROVE  radar'[s].seen \subseteq radar[s].seen \cup ActiveRows
      <3>1. CASE ReconcileList(r)
        BY <3>1 DEF ReconcileList, Pass
      <3>2. CASE EnqueueRead(r)
        BY <3>2 DEF EnqueueRead, Pass, Queued, ActiveRows, Active
      <3> QED
        BY <2>3, <3>1, <3>2
    <2>4. ASSUME NEW r \in Radars, Reconcile(r)
          PROVE  radar'[s].seen \subseteq radar[s].seen
      BY <2>4 DEF Reconcile, AfterReconcile, Pass
    <2> QED
      BY <2>1, <2>2, <2>3, <2>4 DEF Next, vars, CloseTrade, OutcomeMeasured
  <1>3. \A e \in ActiveRows : e \in Episodes /\ row[e].status # "absent"
    BY DEF ActiveRows, Active
  <1> QED
    BY <1>1, <1>2, <1>3 DEF SeesRows

LEMMA EveryRowSteps ==
  ASSUME RadarsTyped, SeesRows, RowsTyped, WorksOnARow, [Next]_vars, NEW e \in Episodes
  PROVE  RowStep(e)
  <1>1. CASE UNCHANGED row
    BY <1>1 DEF RowStep
  <1>2. ASSUME NEW r \in Radars, ReconcileList(r) PROVE RowStep(e)
    BY <1>2 DEF ReconcileList, Released, RowStep, RowsTyped
  <1>3. ASSUME NEW r \in Radars, Reconcile(r) PROVE RowStep(e)
    <2>1. row'[e] \in {row[e], Reconciled(r, e)}
      BY <1>3 DEF Reconcile
    <2>2. row[e].status = "absent" => Reconciled(r, e) = row[e]
      BY DEF SeesRows, Reconciled
    <2>3. Reconciling
      BY <1>3 DEF Reconciling
    <2> QED
      BY <2>1, <2>2, <2>3, ReconciledRow DEF RowStep
  <1>4. ASSUME NEW r \in Radars, EnqueueUpdates(r) PROVE RowStep(e)
    BY <1>4 DEF EnqueueUpdates, RowStep, SeesRows, Terminal
  <1>5. ASSUME NEW r \in Radars, EnqueueInserts(r) PROVE RowStep(e)
    <2>1. radar[r].key \in Keys
      BY <1>5 DEF EnqueueInserts, RadarsTyped, Pass
    <2>2. Inserting
      BY <1>5 DEF Inserting
    <2> QED
      BY <1>5, <2>1, <2>2 DEF EnqueueInserts, RowStep, RowsTyped
  <1>6. ASSUME NEW r \in Radars, Select(r) PROVE RowStep(e)
    <2>1. PICK gone \in SUBSET Claimed : \E ended \in SUBSET Free(gone) :
            \/ row' = Swept(gone, ended)
            \/ \E f \in Free(gone) \ ended : row' = [Swept(gone, ended) EXCEPT ![f].token = r]
      BY <1>6 DEF Select, Claims
    <2>2. PICK ended \in SUBSET Free(gone) :
            \/ row' = Swept(gone, ended)
            \/ \E f \in Free(gone) \ ended : row' = [Swept(gone, ended) EXCEPT ![f].token = r]
      BY <2>1
    <2> DEFINE rows == Swept(gone, ended)
    <2>3. /\ rows[e] \in {row[e], [row[e] EXCEPT !.token = None], Transitioned(e, "terminal")}
          /\ e \in ended => row[e].status # "absent"
          /\ e \notin ended => rows[e] \in {row[e], [row[e] EXCEPT !.token = None]}
          /\ e \in ended => rows[e] = Transitioned(e, "terminal")
      BY DEF Swept, Free, Released, Queued, Claimed
    <2>6. rows = [f \in Episodes |-> rows[f]]
      BY DEF Swept
    <2> HIDE DEF rows
    <2>4. CASE row' = rows
      BY <2>3, <2>4 DEF RowStep, Terminal
    <2>5. ASSUME NEW f \in Free(gone) \ ended,
                 row' = [rows EXCEPT ![f].token = r]
          PROVE  RowStep(e)
      <3>1. CASE e = f
        <4>1. row'[e] = [rows[e] EXCEPT !.token = r]
          BY <2>5, <2>6, <3>1
        <4>2. row'[e] = [row[e] EXCEPT !.token = r] /\ row[e].status = "queued"
          BY <4>1, <2>3, <2>5, <3>1 DEF RowsTyped, QueueRow, Free, Queued, Claimed
        <4> QED
          BY <4>2, <1>6 DEF RowStep
      <3>2. CASE e # f
        BY <2>3, <2>5, <2>6, <3>2 DEF RowStep, Terminal
      <3> QED
        BY <3>1, <3>2
    <2> QED
      BY <2>2, <2>4, <2>5 DEF rows
  <1>7. ASSUME NEW r \in Radars, Fill(r) PROVE RowStep(e)
    BY <1>7 DEF Fill, MayConsume, RowStep, Transitioned, WorksOnARow, At, Active,
                RowsTyped
  <1> QED
    BY <1>1, <1>2, <1>3, <1>4, <1>5, <1>6, <1>7
       DEF Next, vars, Crash, Begin, EnqueueRead, Review, Check, NoFill, Shadow, Decide,
           CloseTrade, OutcomeMeasured

LEMMA ArtifactsStayTyped ==
  ASSUME ArtifactsTyped, WorksOnARow, RadarsTyped, [Next]_vars
  PROVE  ArtifactsTyped'
  <1> USE DEF ArtifactsTyped, WorksOnARow, At, AtOneOf
  <1>1. CASE UNCHANGED <<decision, shadowed, trade, fills>>
    BY <1>1
  <1>2. ASSUME NEW r \in Radars, Begin(r) PROVE ArtifactsTyped'
    BY <1>2 DEF Begin
  <1>3. ASSUME NEW r \in Radars, Review(r) \/ Check(r) PROVE ArtifactsTyped'
    BY <1>3 DEF Review, Check, Decisions
  <1>4. ASSUME NEW r \in Radars, Fill(r) PROVE ArtifactsTyped'
    BY <1>4 DEF Fill, Trades
  <1>5. ASSUME NEW r \in Radars, NoFill(r) \/ Shadow(r) PROVE ArtifactsTyped'
    BY <1>5 DEF NoFill, Shadow
  <1>6. ASSUME NEW r \in Radars, Decide(r) PROVE ArtifactsTyped'
    BY <1>6 DEF Decide, RadarsTyped, Pass
  <1>7. ASSUME NEW e \in Episodes, CloseTrade(e) \/ OutcomeMeasured(e) PROVE ArtifactsTyped'
    BY <1>7 DEF CloseTrade, OutcomeMeasured, Trades
  <1> QED
    BY <1>1, <1>2, <1>3, <1>4, <1>5, <1>6, <1>7
       DEF Next, vars, Crash, ReconcileList, Reconcile, EnqueueRead, EnqueueUpdates,
           EnqueueInserts, Select

\* Nothing but a row for every episode is ever written.
LEMMA RowsStayRows ==
  ASSUME row \in [Episodes -> QueueRow], [Next]_vars
  PROVE  row' = [e \in Episodes |-> row'[e]]
  <1>1. CASE UNCHANGED row
    BY <1>1
  <1>2. ASSUME NEW r \in Radars, ReconcileList(r) PROVE row' = [e \in Episodes |-> row'[e]]
    <2>1. PICK gone \in SUBSET Claimed : row' = Released(row, gone)
      BY <1>2 DEF ReconcileList
    <2> QED
      BY <2>1 DEF Released
  <1>7. ASSUME NEW r \in Radars, Reconcile(r) PROVE row' = [e \in Episodes |-> row'[e]]
    BY <1>7 DEF Reconcile
  <1>3. ASSUME NEW r \in Radars, EnqueueUpdates(r) PROVE row' = [e \in Episodes |-> row'[e]]
    BY <1>3 DEF EnqueueUpdates
  <1>4. ASSUME NEW r \in Radars, EnqueueInserts(r) PROVE row' = [e \in Episodes |-> row'[e]]
    BY <1>4 DEF EnqueueInserts
  <1>5. ASSUME NEW r \in Radars, Select(r) PROVE row' = [e \in Episodes |-> row'[e]]
    BY <1>5 DEF Select, Claims, Swept
  <1>6. ASSUME NEW r \in Radars, Fill(r) PROVE row' = [e \in Episodes |-> row'[e]]
    BY <1>6 DEF Fill
  <1> QED
    BY <1>1, <1>2, <1>3, <1>4, <1>5, <1>6, <1>7
       DEF Next, vars, Crash, Begin, EnqueueRead, Review, Check, NoFill, Shadow, Decide,
           CloseTrade, OutcomeMeasured

\* The writers that can make a row active check the index; the others keep the
\* key of every row that stays active.
LEMMA OneActiveStays ==
  ASSUME RowsTyped, \A e \in Episodes : RowStep(e)
  PROVE  OneActive(row')
  <1>1. CASE Reconciling \/ Inserting
    BY <1>1 DEF Reconciling, Inserting, Reconcile, EnqueueInserts, RowsTyped
  <1>2. CASE ~Reconciling /\ ~Inserting
    <2>1. ASSUME NEW e \in Episodes, row'[e].status \in Active
          PROVE  row[e].status \in Active /\ row'[e].key = row[e].key
      <3>1. row[e] \in QueueRow
        BY DEF RowsTyped
      <3>2. \/ row'[e].status = row[e].status /\ row'[e].key = row[e].key
            \/ \E status \in Active \cup Terminal :
                 /\ row'[e] = Transitioned(e, status)
                 /\ status \in Terminal \/ row[e].status \in Active
        BY <1>2, <3>1 DEF RowStep, QueueRow
      <3>3. \A status \in Active \cup Terminal :
              Transitioned(e, status).status = status /\ Transitioned(e, status).key = row[e].key
        BY <3>1 DEF Transitioned, QueueRow
      <3>4. Active \cap Terminal = {}
        BY DEF Active, Terminal
      <3> QED
        BY <2>1, <3>2, <3>3, <3>4
    <2> QED
      BY <2>1 DEF OneActive, RowsTyped
  <1> QED
    BY <1>1, <1>2

LEMMA RowsStayTyped ==
  ASSUME RowsTyped, RadarsTyped, WorksOnARow, SeesRows, [Next]_vars
  PROVE  RowsTyped'
  <1>1. \A e \in Episodes : row'[e] \in QueueRow
                            /\ (row'[e].token # None => row'[e].status = "queued")
    <2> SUFFICES ASSUME NEW e \in Episodes
                 PROVE  row'[e] \in QueueRow
                        /\ (row'[e].token # None => row'[e].status = "queued")
      OBVIOUS
    <2>1. RowStep(e)
      BY EveryRowSteps
    <2> QED
      BY <2>1, QueueConstants DEF RowStep, Transitioned, Absent, RowsTyped, QueueRow, Active
  <1>2. row' = [e \in Episodes |-> row'[e]]
    BY RowsStayRows DEF RowsTyped
  <1>3. row' \in [Episodes -> QueueRow]
    BY <1>1, <1>2
  <1> QED
    BY <1>1, <1>3, EveryRowSteps, OneActiveStays DEF RowsTyped


-----------------------------------------------------------------------------
\* What is proved inductive of the types, with what a pass carries.
Sane ==
  RadarsTyped /\ RowsTyped /\ ArtifactsTyped /\ WorksOnARow /\ SeesRows
    /\ overlapped \in BOOLEAN

LEMMA SaneAtFirst == Init => Sane
  <1> SUFFICES ASSUME Init PROVE Sane
    OBVIOUS
  <1>1. Absent \in QueueRow /\ Absent.status \notin Active /\ Absent.token = None
    BY DEF Absent, QueueRow, Active
  <1>2. RadarsTyped
    BY IdleIsAPass DEF Init, RadarsTyped
  <1>3. RowsTyped
    BY <1>1 DEF Init, RowsTyped, OneActive
  <1>4. ArtifactsTyped
    BY DEF Init, ArtifactsTyped, Decisions, Trades
  <1>5. WorksOnARow /\ SeesRows
    BY DEF Init, WorksOnARow, SeesRows, IdlePass
  <1> QED
    BY <1>2, <1>3, <1>4, <1>5 DEF Init, Sane

LEMMA SaneStays ==
  ASSUME Sane, [Next]_vars
  PROVE  Sane'
  <1>1. RadarsTyped' /\ RowsTyped' /\ ArtifactsTyped' /\ WorksOnARow'
    BY RadarStaysTyped, RowsStayTyped, ArtifactsStayTyped, WorkStays DEF Sane
  <1>2. SeesRows'
    BY SightStays, EveryRowSteps DEF Sane
  <1>3. overlapped' \in BOOLEAN
    <2>1. overlapped' = overlapped \/ \E r \in Radars : Begin(r)
      BY DEF Next, vars, Crash, ReconcileList, Reconcile, EnqueueRead, EnqueueUpdates,
             EnqueueInserts, Select, Review, Check, Fill, NoFill, Shadow, Decide, CloseTrade,
             OutcomeMeasured
    <2>2. ASSUME NEW r \in Radars, Begin(r) PROVE overlapped' \in BOOLEAN
      BY <2>2 DEF Begin
    <2> QED
      BY <2>1, <2>2 DEF Sane
  <1> QED
    BY <1>1, <1>2, <1>3 DEF Sane

LEMMA AlwaysSane == Spec => []Sane
  BY SaneAtFirst, SaneStays, PTL DEF Spec

\* The columns and the locals of every pass stay in their ranges, a claim is only
\* ever on a selectable row, and a key has at most one active row, however many
\* passes write over each other.
THEOREM QueueTypeCorrect == Spec => []QueueTypeOK
  <1>1. Sane => QueueTypeOK
    BY DEF Sane, RadarsTyped, RowsTyped, ArtifactsTyped, QueueTypeOK
  <1> QED
    BY <1>1, AlwaysSane, PTL

-----------------------------------------------------------------------------
\* A fill is a trade that was opened, and a trade is never taken back.
FillsAreTrades == \A e \in Episodes : fills[e] = IF trade[e] = "none" THEN 0 ELSE 1

LEMMA FillsStayTrades ==
  ASSUME Sane, FillsAreTrades, [Next]_vars
  PROVE  FillsAreTrades'
  <1> USE DEF Sane, ArtifactsTyped, FillsAreTrades
  <1>1. CASE UNCHANGED <<trade, fills>>
    BY <1>1
  <1>2. ASSUME NEW r \in Radars, Fill(r) PROVE FillsAreTrades'
    <2>1. radar[r].item \in Episodes
      BY <1>2 DEF WorksOnARow, Fill, At
    <2> QED
      BY <1>2, <2>1 DEF Fill, Unfilled
  <1>3. ASSUME NEW e \in Episodes, CloseTrade(e) \/ OutcomeMeasured(e) PROVE FillsAreTrades'
    BY <1>3 DEF CloseTrade, OutcomeMeasured
  <1> QED
    BY <1>1, <1>2, <1>3
       DEF Next, vars, Crash, Begin, ReconcileList, Reconcile, EnqueueRead, EnqueueUpdates,
           EnqueueInserts, Select, Review, Check, NoFill, Shadow, Decide

\* An episode is filled at most once, for any number of overlapping passes: the
\* guard is in the fill's own transaction and looks at the trade, not the row.
THEOREM FilledOnce == Spec => []OneFillPerEpisode
  <1>1. Init => FillsAreTrades
    BY DEF Init, FillsAreTrades
  <1>2. FillsAreTrades => OneFillPerEpisode
    BY DEF FillsAreTrades, OneFillPerEpisode
  <1>3. Sane /\ FillsAreTrades /\ [Next]_vars => FillsAreTrades'
    BY FillsStayTrades
  <1> QED
    BY <1>1, <1>2, <1>3, AlwaysSane, PTL DEF Spec

-----------------------------------------------------------------------------
\* A row that does not exist has no trade.
AbsentIsBare == \A e \in Episodes : row[e].status = "absent" => trade[e] = "none"

\* What is exposed by its own admission key is exposed.
KeyIsOpen(e) == \E f \in OpenTrades : row[f].key = row[e].key

\* Of the check of has_open_trade this much still holds when the pass comes to the
\* fill, as long as it keeps its claim: the claimed row is the one active row of
\* its key, so nobody else can have filled that key meanwhile.
CheckedIsUnexposed ==
  \A r \in Radars :
    radar[r].at = "execute" /\ row[radar[r].item].token = r => ~KeyIsOpen(radar[r].item)

Unexposed == AbsentIsBare /\ CheckedIsUnexposed /\ OneTradePerKey

LEMMA KeysExpose ==
  ASSUME NEW e, KeyIsOpen(e)
  PROVE  Exposed(e)
  BY DEF KeyIsOpen, Exposed

\* A row that exists keeps its key, and exists for good.
LEMMA RowsKeepKeys ==
  ASSUME Sane, [Next]_vars, NEW e \in Episodes, row[e].status # "absent"
  PROVE  row'[e].key = row[e].key /\ row'[e].status # "absent"
  <1>1. RowStep(e)
    BY EveryRowSteps DEF Sane
  <1>2. row[e] \in QueueRow
    BY DEF Sane, RowsTyped
  <1> QED
    BY <1>1, <1>2 DEF RowStep, Transitioned, QueueRow, Active, Terminal

\* A claim is only ever taken by the Select of its pass.
LEMMA ClaimsAreSelected ==
  ASSUME Sane, [Next]_vars, NEW e \in Episodes, NEW r \in Radars, row'[e].token = r
  PROVE  row[e].token = r \/ (Select(r) /\ row[e].status = "queued")
  <1>1. RowStep(e)
    BY EveryRowSteps DEF Sane
  <1>2. row[e] \in QueueRow /\ r # None
    BY QueueConstants DEF Sane, RowsTyped
  <1> QED
    BY <1>1, <1>2 DEF RowStep, Transitioned, QueueRow, Absent

\* A pass that is about to fill was so before, or has just made its check.
LEMMA ExecutesWhatItChecked ==
  ASSUME Sane, [Next]_vars, NEW r \in Radars, radar'[r].at = "execute"
  PROVE  /\ radar'[r].item = radar[r].item /\ radar[r].item \in Episodes
         /\ radar[r].at \in {"check", "execute"}
         /\ radar[r].at = "check" => ~Exposed(radar[r].item) /\ UNCHANGED <<row, trade>>
  <1>1. radar'[r] = radar[r] \/ Check(r)
    <2> USE DEF Sane, RadarsTyped, Dies, Goes, Reconciles, ToSelect, IdlePass
    <2>1. ASSUME NEW s \in Radars, s # r,
                 Crash(s) \/ Begin(s) \/ EnqueueRead(s) \/ Review(s) \/ Check(s) \/ Fill(s)
                   \/ NoFill(s) \/ Shadow(s) \/ Decide(s) \/ ReconcileList(s)
          PROVE  radar'[r] = radar[r]
      BY <2>1 DEF Crash, Begin, EnqueueRead, Review, Check, Fill, NoFill, Shadow, Decide, Ends,
                  ReconcileList
    <2>2. ASSUME NEW s \in Radars, s # r,
                 Reconcile(s) \/ EnqueueUpdates(s) \/ EnqueueInserts(s)
          PROVE  radar'[r] = radar[r]
      BY <2>2 DEF Reconcile, AfterReconcile, EnqueueUpdates, EnqueueInserts
    <2>3. ASSUME NEW s \in Radars, s # r, Select(s) PROVE radar'[r] = radar[r]
      BY <2>3 DEF Select, Claims
    <2>4. ASSUME Crash(r) \/ Begin(r) \/ EnqueueRead(r) \/ Review(r) PROVE FALSE
      BY <2>4 DEF Crash, Begin, EnqueueRead, Review, Pass
    <2>5. ASSUME Fill(r) \/ NoFill(r) \/ Shadow(r) \/ Decide(r) PROVE FALSE
      BY <2>5 DEF Fill, NoFill, Shadow, Decide, Ends, Pass
    <2>6. ASSUME ReconcileList(r) \/ Reconcile(r) PROVE FALSE
      <3>1. CASE ReconcileList(r)
        BY <3>1 DEF ReconcileList, Pass
      <3>2. CASE Reconcile(r)
        BY <3>2 DEF Reconcile, AfterReconcile, Pass
      <3> QED
        BY <2>6, <3>1, <3>2
    <2>7. ASSUME EnqueueUpdates(r) \/ EnqueueInserts(r) PROVE FALSE
      <3>1. ToSelect(r) \/ Dies(r)
        BY <2>7 DEF EnqueueUpdates, EnqueueInserts
      <3> QED
        BY <3>1 DEF Pass
    <2>8. ASSUME Select(r) PROVE FALSE
      <3>1. \/ Reconciles(r)
            \/ \E e \in Episodes : radar' = [radar EXCEPT ![r].at = "review", ![r].item = e]
        BY <2>8 DEF Select, Claims, Free, Queued, Claimed
      <3> QED
        BY <3>1 DEF Pass
    <2>9. CASE UNCHANGED radar
      BY <2>9
    <2> QED
      BY <2>1, <2>2, <2>3, <2>4, <2>5, <2>6, <2>7, <2>8, <2>9
         DEF Next, vars, CloseTrade, OutcomeMeasured
  <1>2. CASE radar'[r] = radar[r]
    BY <1>2 DEF Sane, WorksOnARow
  <1>3. CASE Check(r)
    <2>1. radar[r].at = "check" /\ radar[r].item \in Episodes
      BY <1>3 DEF Check, At, Sane, WorksOnARow
    <2>2. ~Exposed(radar[r].item) /\ UNCHANGED <<row, trade>> /\ radar'[r].item = radar[r].item
      BY <1>3 DEF Check, Reconciles, Goes, IdlePass, Sane, RadarsTyped, Pass
    <2> QED
      BY <2>1, <2>2
  <1> QED
    BY <1>1, <1>2, <1>3

\* The trades open after a step were open before it, or have just been filled.
LEMMA TradesAreOpenedByFills ==
  ASSUME Sane, [Next]_vars, NEW e \in OpenTrades'
  PROVE  e \in OpenTrades \/ \E r \in Radars : Fill(r) /\ e = radar[r].item
  BY DEF OpenTrades, Sane, ArtifactsTyped, Next, vars, Crash, Begin, ReconcileList, Reconcile,
         EnqueueRead, EnqueueUpdates, EnqueueInserts, Select, Review, Check, NoFill, Shadow,
         Decide, CloseTrade, OutcomeMeasured, Fill

\* What a fill writes to.
LEMMA FilledRow ==
  ASSUME Sane, NEW r \in Radars, Fill(r)
  PROVE  /\ radar[r].at = "execute" /\ radar[r].item \in Episodes
         /\ row[radar[r].item].token = r /\ row[radar[r].item].status = "queued"
  BY DEF Fill, At, MayConsume, Holds, Sane, WorksOnARow

LEMMA UnexposedStays ==
  ASSUME Sane, Unexposed, [Next]_vars
  PROVE  Unexposed'
  <1> USE DEF Unexposed
  <1>1. \A e \in OpenTrades : e \in Episodes /\ row[e].status # "absent"
    BY DEF OpenTrades, AbsentIsBare
  <1>2. AbsentIsBare'
    <2> SUFFICES ASSUME NEW e \in Episodes, row'[e].status = "absent"
                 PROVE  trade'[e] = "none"
      BY DEF AbsentIsBare
    <2>1. row[e].status = "absent" /\ trade[e] = "none"
      BY RowsKeepKeys DEF AbsentIsBare
    <2>2. \A r \in Radars : Fill(r) => radar[r].item # e
      BY <2>1, FilledRow
    <2> QED
      BY <2>1, <2>2
         DEF Sane, ArtifactsTyped, Next, vars, Crash, Begin, ReconcileList, Reconcile,
             EnqueueRead, EnqueueUpdates, EnqueueInserts, Select, Review, Check, NoFill, Shadow,
             Decide, CloseTrade, OutcomeMeasured, Fill
  <1>3. CheckedIsUnexposed'
    <2> SUFFICES ASSUME NEW r \in Radars, radar'[r].at = "execute",
                        row'[radar'[r].item].token = r, NEW f \in OpenTrades',
                        row'[f].key = row'[radar'[r].item].key
                 PROVE  FALSE
      BY DEF CheckedIsUnexposed, KeyIsOpen
    <2> DEFINE e == radar[r].item
    <2>1. /\ radar'[r].item = e /\ e \in Episodes
          /\ radar[r].at \in {"check", "execute"}
          /\ radar[r].at = "check" => ~Exposed(e) /\ UNCHANGED <<row, trade>>
      BY ExecutesWhatItChecked
    <2> HIDE DEF e
    <2>2. row[e].token = r
      BY <2>1, ClaimsAreSelected DEF Select, At
    <2>3. row[e].status = "queued" /\ ~KeyIsOpen(e)
      BY <2>1, <2>2, KeysExpose, QueueConstants DEF Sane, RowsTyped, CheckedIsUnexposed, e
    <2>4. row'[e].key = row[e].key
      BY <2>1, <2>3, RowsKeepKeys
    <2>5. CASE f \in OpenTrades
      BY <1>1, <2>1, <2>3, <2>4, <2>5, RowsKeepKeys DEF KeyIsOpen
    <2>6. ASSUME NEW s \in Radars, Fill(s), f = radar[s].item PROVE FALSE
      <3>1. /\ radar[s].at = "execute" /\ f \in Episodes
            /\ row[f].token = s /\ row[f].status = "queued"
        BY <2>6, FilledRow
      <3>2. row'[f].key = row[f].key
        BY <3>1, RowsKeepKeys
      <3>3. e = f
        BY <2>1, <2>3, <2>4, <3>1, <3>2 DEF Sane, RowsTyped, OneActive, Active
      <3>4. s = r
        BY <2>2, <3>1, <3>3
      <3>5. radar'[s].at = "decide"
        BY <2>6 DEF Fill, Ends, Sane, RadarsTyped, Pass
      <3> QED
        BY <3>4, <3>5
    <2> QED
      BY <2>5, <2>6, TradesAreOpenedByFills
  <1>4. OneTradePerKey'
    <2> SUFFICES ASSUME NEW e \in OpenTrades', NEW f \in OpenTrades',
                        row'[e].key = row'[f].key
                 PROVE  e = f
      BY DEF OneTradePerKey
    <2>1. /\ e \in OpenTrades \/ \E r \in Radars : Fill(r) /\ e = radar[r].item
          /\ f \in OpenTrades \/ \E r \in Radars : Fill(r) /\ f = radar[r].item
      BY TradesAreOpenedByFills
    <2>2. /\ e \in Episodes /\ row'[e].key = row[e].key
          /\ f \in Episodes /\ row'[f].key = row[f].key
      BY <1>1, <2>1, FilledRow, RowsKeepKeys
    <2>3. ASSUME NEW r \in Radars, Fill(r) PROVE ~KeyIsOpen(radar[r].item)
      BY <2>3, FilledRow DEF CheckedIsUnexposed
    <2>4. CASE e \in OpenTrades /\ f \in OpenTrades
      BY <2>2, <2>4 DEF OneTradePerKey
    <2>5. ASSUME NEW r \in Radars, Fill(r), NEW s \in Radars, Fill(s),
                 e = radar[r].item, f = radar[s].item
          PROVE  e = f
      <3>1. row[e].status = "queued" /\ row[f].status = "queued" /\ row[e].key = row[f].key
        BY <2>2, <2>5, FilledRow
      <3> QED
        BY <2>2, <3>1 DEF Sane, RowsTyped, OneActive, Active
    <2> QED
      BY <2>1, <2>2, <2>3, <2>4, <2>5 DEF KeyIsOpen
  <1> QED
    BY <1>2, <1>3, <1>4

LEMMA AlwaysUnexposed == Spec => []Unexposed
  <1>1. Init => Unexposed
    BY DEF Init, Unexposed, AbsentIsBare, CheckedIsUnexposed, OneTradePerKey, OpenTrades,
           IdlePass
  <1>2. Sane /\ Unexposed /\ [Next]_vars => Unexposed'
    BY UnexposedStays
  <1> QED
    BY <1>1, <1>2, AlwaysSane, PTL DEF Spec

\* Two trades of one admission key are never open together, for any number of
\* overlapping passes, although the exposure is checked before the fill.
THEOREM OneTradeOfAKey == Spec => []OneTradePerKey
  <1>1. Unexposed => OneTradePerKey
    BY DEF Unexposed
  <1> QED
    BY <1>1, AlwaysUnexposed, PTL

-----------------------------------------------------------------------------
LEMMA CapStays ==
  ASSUME Sane, OpenTradesAreCapped, [Next]_vars
  PROVE  OpenTradesAreCapped'
  <1>1. IsFiniteSet(OpenTrades) /\ IsFiniteSet(Episodes)
    BY QueueConstants, FS_Subset DEF OpenTrades
  <1>2. ASSUME NEW r \in Radars, Fill(r) PROVE OpenTradesAreCapped'
    <2>1. radar[r].item \in Episodes
      BY <1>2, FilledRow
    <2>2. OpenTrades' = OpenTrades \cup {radar[r].item} /\ Cardinality(OpenTrades) < MaxOpen
      BY <1>2, <2>1 DEF Fill, HasRoom, OpenTrades, Sane, ArtifactsTyped
    <2>3. Cardinality(OpenTrades \cup {radar[r].item}) \in
            {Cardinality(OpenTrades), Cardinality(OpenTrades) + 1}
      BY <1>1, FS_AddElement
    <2>4. Cardinality(OpenTrades) \in Nat
      BY <1>1, FS_CardinalityType
    <2> QED
      BY <2>2, <2>3, <2>4, QueueConstants DEF OpenTradesAreCapped
  <1>3. CASE OpenTrades' \subseteq OpenTrades
    <2>1. Cardinality(OpenTrades') <= Cardinality(OpenTrades)
          /\ Cardinality(OpenTrades') \in Nat /\ Cardinality(OpenTrades) \in Nat
      BY <1>1, <1>3, FS_Subset, FS_CardinalityType
    <2> QED
      BY <2>1, QueueConstants DEF OpenTradesAreCapped
  <1> QED
    BY <1>2, <1>3, TradesAreOpenedByFills

\* The open trades stay within the limit, for any limit and any number of
\* overlapping passes: the count that decides is made in the fill's transaction.
THEOREM OpenTradesStayCapped == Spec => []OpenTradesAreCapped
  <1>1. Init => OpenTradesAreCapped
    <2> SUFFICES ASSUME Init PROVE OpenTradesAreCapped
      OBVIOUS
    <2>1. OpenTrades = {}
      BY DEF Init, OpenTrades
    <2> QED
      BY <2>1, FS_EmptySet, QueueConstants DEF OpenTradesAreCapped
  <1>2. Sane /\ OpenTradesAreCapped /\ [Next]_vars => OpenTradesAreCapped'
    BY CapStays
  <1> QED
    BY <1>1, <1>2, AlwaysSane, PTL DEF Spec

-----------------------------------------------------------------------------
(***************************************************************************)
(* While passes do not overlap: what a pass has read of the rows is what   *)
(* they are when it writes to them.                                        *)
(***************************************************************************)
PassStep(r) ==
  \/ Crash(r) \/ Begin(r) \/ ReconcileList(r) \/ Reconcile(r)
  \/ EnqueueRead(r) \/ EnqueueUpdates(r) \/ EnqueueInserts(r) \/ Select(r)
  \/ Review(r) \/ Check(r) \/ Fill(r) \/ NoFill(r) \/ Shadow(r) \/ Decide(r)

OnePass ==
  \A r, s \in Radars : radar[r].at # "idle" /\ radar[s].at # "idle" => r = s

\* The rows a pass is going to write to are still those it has listed or found.
SightIsFresh ==
  \A r \in Radars :
    /\ radar[r].at = "scan" => radar[r].seen = {}
    /\ radar[r].at \in {"reconcile", "finish"} =>
         \A e \in radar[r].seen : row[e].status \in Active
    /\ radar[r].at = "enqueue" => \A e \in radar[r].seen : row[e].status = "queued"

\* The artifacts it has looked up early may be older than their row, by what
\* happens to a trade and never by a fill.
VerdictHolds ==
  \A r \in Radars :
    radar[r].at \in {"reconcile", "finish"} /\ radar[r].first # None =>
      /\ radar[r].verdict \in {"queued", "terminal"} => trade[radar[r].first] = "none"
      /\ radar[r].verdict = "completed_valid" => trade[radar[r].first] = "valid"

Followed ==
  \A e \in Episodes : trade[e] # "none" =>
    \/ row[e].status = "inflight"
    \/ row[e].status = "completed_valid" /\ trade[e] = "valid"

InTurn == ~overlapped => OnePass /\ SightIsFresh /\ VerdictHolds /\ Followed

LEMMA OverlapIsRemembered ==
  ASSUME Sane, [Next]_vars
  PROVE  \/ overlapped' = overlapped
         \/ \E r \in Radars :
              /\ Begin(r)
              /\ overlapped' = (overlapped \/ \E s \in Radars \ {r} : ~At(s, "idle"))
  BY DEF Next, vars, Begin, Crash, ReconcileList, Reconcile, EnqueueRead, EnqueueUpdates,
         EnqueueInserts, Select, Review, Check, Fill, NoFill, Shadow, Decide, CloseTrade,
         OutcomeMeasured

\* A pass leaves the others alone, and there is none under way.
LEMMA OthersAreIdle ==
  ASSUME Sane, OnePass, ~overlapped', NEW r \in Radars, PassStep(r),
         NEW s \in Radars, s # r
  PROVE  radar[s].at = "idle" /\ radar'[s] = radar[s]
  <1> USE DEF Sane, RadarsTyped, Dies, Goes, Reconciles, ToSelect, IdlePass
  <1>1. radar'[s] = radar[s]
    <2>1. CASE Crash(r) \/ Begin(r) \/ EnqueueRead(r) \/ Review(r) \/ Check(r) \/ Fill(r)
                 \/ NoFill(r) \/ Shadow(r) \/ Decide(r) \/ ReconcileList(r)
      BY <2>1 DEF Crash, Begin, EnqueueRead, Review, Check, Fill, NoFill, Shadow, Decide, Ends,
                  ReconcileList
    <2>2. CASE Reconcile(r) \/ EnqueueUpdates(r) \/ EnqueueInserts(r)
      BY <2>2 DEF Reconcile, AfterReconcile, EnqueueUpdates, EnqueueInserts
    <2>3. CASE Select(r)
      BY <2>3 DEF Select, Claims
    <2> QED
      BY <2>1, <2>2, <2>3 DEF PassStep
  <1>2. CASE Begin(r)
    BY <1>2 DEF Begin, At
  <1>3. CASE ~Begin(r)
    <2>1. radar[r].at # "idle"
      BY <1>3 DEF PassStep, Crash, ReconcileList, Reconcile, EnqueueRead, EnqueueUpdates,
                  EnqueueInserts, Select, Review, Check, Fill, NoFill, Shadow, Decide, At,
                  AtOneOf
    <2> QED
      BY <1>1, <2>1 DEF OnePass
  <1> QED
    BY <1>1, <1>2, <1>3

\* What a pass carries to its next write.
LEMMA NextSight ==
  ASSUME Sane, NEW r \in Radars, PassStep(r)
  PROVE  \/ radar'[r].at \notin {"scan", "reconcile", "finish", "enqueue"}
         \/ radar'[r].at = "scan" /\ radar'[r].seen = {}
         \/ /\ ReconcileList(r) /\ radar'[r].at \in {"reconcile", "finish"}
            /\ radar'[r].seen = ActiveRows /\ radar'[r].first \in ActiveRows \cup {None}
            /\ radar'[r].first # None => radar'[r].verdict = Verdict(radar'[r].first)
         \/ /\ EnqueueRead(r) /\ radar[r].at = "scan" /\ radar'[r].at = "enqueue"
            /\ radar'[r].seen \subseteq radar[r].seen \cup Queued
  <1> USE DEF Sane, RadarsTyped, Dies, Goes, Reconciles, ToSelect, IdlePass
  <1>1. CASE Crash(r) \/ Begin(r) \/ Review(r) \/ Check(r) \/ Decide(r)
    BY <1>1 DEF Crash, Begin, Review, Check, Decide, Pass
  <1>2. CASE Fill(r) \/ NoFill(r) \/ Shadow(r)
    BY <1>2 DEF Fill, NoFill, Shadow, Ends, Pass
  <1>3. CASE EnqueueUpdates(r) \/ EnqueueInserts(r)
    <2>1. ToSelect(r) \/ Dies(r)
      BY <1>3 DEF EnqueueUpdates, EnqueueInserts
    <2> QED
      BY <2>1 DEF Pass
  <1>4. CASE Select(r)
    <2>1. \/ Reconciles(r)
          \/ \E e \in Episodes : radar' = [radar EXCEPT ![r].at = "review", ![r].item = e]
      BY <1>4 DEF Select, Claims, Free, Queued, Claimed
    <2> QED
      BY <2>1 DEF Pass
  <1>5. CASE Reconcile(r)
    <2>1. Dies(r) \/ radar' = [radar EXCEPT ![r] = [IdlePass EXCEPT !.at = "scan"]]
      BY <1>5 DEF Reconcile, AfterReconcile
    <2> QED
      BY <2>1 DEF Pass
  <1>6. CASE EnqueueRead(r)
    BY <1>6 DEF EnqueueRead, Pass, At
  <1>7. CASE ReconcileList(r)
    <2>1. PICK first \in ActiveRows \cup {None} :
            radar' = [radar EXCEPT ![r].at = IF @ = "list" THEN "reconcile" ELSE "finish",
                        ![r].seen = ActiveRows, ![r].first = first,
                        ![r].verdict = IF first = None THEN "keep" ELSE Verdict(first)]
      BY <1>7 DEF ReconcileList
    <2>2. /\ radar'[r].at \in {"reconcile", "finish"}
          /\ radar'[r].seen = ActiveRows /\ radar'[r].first = first
          /\ radar'[r].verdict = IF first = None THEN "keep" ELSE Verdict(first)
      BY <2>1 DEF Pass
    <2> QED
      BY <1>7, <2>2
  <1> QED
    BY <1>1, <1>2, <1>3, <1>4, <1>5, <1>6, <1>7 DEF PassStep

\* Which rows a pass may move: those that wait, what it fills, and what it has
\* listed to reconcile.
LEMMA RowsMove ==
  ASSUME Sane, SightIsFresh, NEW r \in Radars, PassStep(r), NEW e \in Episodes
  PROVE  \/ row'[e].status = row[e].status /\ trade'[e] = trade[e]
         \/ row[e].status \in {"queued", "absent"} /\ trade'[e] = trade[e]
         \/ row[e].status = "queued" /\ row'[e].status = "inflight"
         \/ /\ Reconcile(r) /\ row[e].status \in Active /\ trade' = trade
            /\ \/ /\ e = radar[r].first /\ radar[r].verdict # "keep"
                  /\ row'[e].status = radar[r].verdict
               \/ Verdict(e) # "keep" /\ row'[e].status = Verdict(e)
  <1> USE DEF Sane, RowsTyped, ArtifactsTyped
  <1>1. CASE UNCHANGED <<row, trade>>
    BY <1>1
  <1>2. CASE ReconcileList(r)
    BY <1>2 DEF ReconcileList, Released, QueueRow
  <1>3. CASE Reconcile(r)
    <2>1. row'[e] \in {row[e], Reconciled(r, e)} /\ trade' = trade
      BY <1>3 DEF Reconcile
    <2>2. radar[r].at \in {"reconcile", "finish"}
      BY <1>3 DEF Reconcile, AtOneOf
    <2> DEFINE verdict == IF e = radar[r].first THEN radar[r].verdict ELSE Verdict(e)
    <2>3. Reconciled(r, e) = IF e \notin radar[r].seen \/ verdict = "keep"
                             THEN row[e] ELSE Transitioned(e, verdict)
      BY DEF Reconciled
    <2>4. \A status : Transitioned(e, status).status = status
      BY DEF Transitioned, QueueRow
    <2>5. e \in radar[r].seen => row[e].status \in Active
      BY <2>2 DEF SightIsFresh
    <2>6. verdict = IF e = radar[r].first THEN radar[r].verdict ELSE Verdict(e)
      OBVIOUS
    <2> HIDE DEF verdict
    <2> QED
      BY <1>3, <2>1, <2>3, <2>4, <2>5, <2>6
  <1>4. CASE EnqueueUpdates(r)
    BY <1>4 DEF EnqueueUpdates, SightIsFresh, At
  <1>5. CASE EnqueueInserts(r)
    BY <1>5 DEF EnqueueInserts
  <1>6. CASE Select(r)
    <2>1. PICK gone \in SUBSET Claimed : \E ended \in SUBSET Free(gone) :
            \/ row' = Swept(gone, ended)
            \/ \E f \in Free(gone) \ ended : row' = [Swept(gone, ended) EXCEPT ![f].token = r]
      BY <1>6 DEF Select, Claims
    <2>2. PICK ended \in SUBSET Free(gone) :
            \/ row' = Swept(gone, ended)
            \/ \E f \in Free(gone) \ ended : row' = [Swept(gone, ended) EXCEPT ![f].token = r]
      BY <2>1
    <2> DEFINE rows == Swept(gone, ended)
    <2>3. rows = [f \in Episodes |-> rows[f]]
      BY DEF Swept
    <2>4. e \in ended => row[e].status = "queued"
      BY DEF Free, Queued, Claimed
    <2>5. e \notin ended => rows[e].status = row[e].status
      BY DEF Swept, Released, QueueRow
    <2> HIDE DEF rows
    <2>6. row'[e].status = rows[e].status
      <3>1. CASE row' = rows
        BY <3>1
      <3>2. ASSUME NEW f \in Episodes, row' = [rows EXCEPT ![f].token = r]
            PROVE  row'[e].status = rows[e].status
        BY <2>3, <3>2
      <3>3. Free(gone) \subseteq Episodes
        BY DEF Free, Queued, Claimed
      <3> QED
        BY <2>2, <3>1, <3>2, <3>3 DEF rows
    <2>7. trade' = trade
      BY <1>6 DEF Select
    <2> QED
      BY <2>4, <2>5, <2>6, <2>7
  <1>7. CASE Fill(r)
    <2>1. radar[r].item \in Episodes /\ row[radar[r].item].status = "queued"
      BY <1>7, FilledRow
    <2> QED
      BY <1>7, <2>1 DEF Fill, QueueRow
  <1> QED
    BY <1>1, <1>2, <1>3, <1>4, <1>5, <1>6, <1>7
       DEF PassStep, Crash, Begin, EnqueueRead, Review, Check, NoFill, Shadow, Decide

LEMMA SightStaysFresh ==
  ASSUME Sane, OnePass, SightIsFresh, ~overlapped', NEW r \in Radars, PassStep(r)
  PROVE  SightIsFresh' /\ OnePass'
  <1>1. \A s \in Radars : s # r => radar'[s].at = "idle"
    BY OthersAreIdle
  <1>2. OnePass'
    BY <1>1 DEF OnePass
  <1>3. CASE radar'[r].at \notin {"scan", "reconcile", "finish", "enqueue"}
    BY <1>1, <1>2, <1>3 DEF SightIsFresh
  <1>4. CASE radar'[r].at = "scan" /\ radar'[r].seen = {}
    BY <1>1, <1>2, <1>4 DEF SightIsFresh
  <1>5. CASE /\ ReconcileList(r) /\ radar'[r].at \in {"reconcile", "finish"}
             /\ radar'[r].seen = ActiveRows
    <2>1. \A e \in Episodes : row'[e].status = row[e].status
      BY <1>5 DEF ReconcileList, Released, Sane, RowsTyped, QueueRow
    <2>2. \A e \in radar'[r].seen : row'[e].status \in Active
      BY <1>5, <2>1 DEF ActiveRows
    <2> QED
      BY <1>1, <1>2, <1>5, <2>2 DEF SightIsFresh
  <1>6. CASE /\ EnqueueRead(r) /\ radar[r].at = "scan" /\ radar'[r].at = "enqueue"
             /\ radar'[r].seen \subseteq radar[r].seen \cup Queued
    <2>1. row' = row /\ radar'[r].seen \subseteq Queued
      BY <1>6 DEF EnqueueRead, SightIsFresh
    <2>2. \A e \in radar'[r].seen : row'[e].status = "queued"
      BY <2>1 DEF Queued
    <2> QED
      BY <1>1, <1>2, <1>6, <2>2 DEF SightIsFresh
  <1> QED
    BY <1>3, <1>4, <1>5, <1>6, NextSight

LEMMA VerdictStaysTrue ==
  ASSUME Sane, OnePass, ~overlapped', NEW r \in Radars, PassStep(r)
  PROVE  VerdictHolds'
  <1>1. \A s \in Radars : s # r => radar'[s].at = "idle"
    BY OthersAreIdle
  <1>2. CASE radar'[r].at \notin {"reconcile", "finish"}
    BY <1>1, <1>2 DEF VerdictHolds
  <1>3. ASSUME ReconcileList(r), radar'[r].first \in ActiveRows,
               radar'[r].verdict = Verdict(radar'[r].first)
        PROVE  /\ radar'[r].verdict \in {"queued", "terminal"} =>
                     trade'[radar'[r].first] = "none"
               /\ radar'[r].verdict = "completed_valid" =>
                     trade'[radar'[r].first] = "valid"
    <2> DEFINE f == radar'[r].first
    <2>1. f \in Episodes /\ trade' = trade
      BY <1>3 DEF ReconcileList, ActiveRows
    <2>2. /\ Verdict(f) \in {"queued", "terminal"} => trade[f] = "none"
          /\ Verdict(f) = "completed_valid" => trade[f] = "valid"
      BY <2>1 DEF Verdict, Sane, ArtifactsTyped, Trades
    <2> HIDE DEF f
    <2> QED
      BY <1>3, <2>1, <2>2 DEF f
  <1>4. CASE /\ ReconcileList(r)
             /\ radar'[r].first \in ActiveRows \cup {None}
             /\ radar'[r].first # None => radar'[r].verdict = Verdict(radar'[r].first)
    BY <1>1, <1>3, <1>4 DEF VerdictHolds
  <1> QED
    BY <1>2, <1>4, NextSight

LEMMA TradesStayFollowed ==
  ASSUME Sane, SightIsFresh, VerdictHolds, Followed, NEW r \in Radars, PassStep(r),
         [Next]_vars
  PROVE  Followed'
  <1> SUFFICES ASSUME NEW e \in Episodes, trade'[e] # "none"
               PROVE  \/ row'[e].status = "inflight"
                      \/ row'[e].status = "completed_valid" /\ trade'[e] = "valid"
    BY DEF Followed
  <1>1. CASE row'[e].status = row[e].status /\ trade'[e] = trade[e]
    BY <1>1 DEF Followed
  <1>2. CASE row[e].status \in {"queued", "absent"} /\ trade'[e] = trade[e]
    BY <1>2 DEF Followed
  <1>3. ASSUME Reconcile(r), e = radar[r].first, radar[r].verdict # "keep",
               row'[e].status = radar[r].verdict, trade' = trade
        PROVE  \/ row'[e].status = "inflight"
               \/ row'[e].status = "completed_valid" /\ trade'[e] = "valid"
    <2>1. radar[r].at \in {"reconcile", "finish"} /\ radar[r].first # None
      BY <1>3, QueueConstants DEF Reconcile, AtOneOf
    <2>2. radar[r].verdict \in Active \cup Terminal
      BY <1>3 DEF Sane, RadarsTyped, Pass
    <2> QED
      BY <1>3, <2>1, <2>2 DEF VerdictHolds, Active, Terminal
  <1>4. ASSUME Verdict(e) # "keep", row'[e].status = Verdict(e), trade' = trade
        PROVE  \/ row'[e].status = "inflight"
               \/ row'[e].status = "completed_valid" /\ trade'[e] = "valid"
    BY <1>4 DEF Verdict, Sane, ArtifactsTyped, Trades
  <1> QED
    BY <1>1, <1>2, <1>3, <1>4, RowsMove

LEMMA InTurnStays ==
  ASSUME Sane, InTurn, [Next]_vars
  PROVE  InTurn'
  <1> SUFFICES ASSUME ~overlapped' PROVE OnePass' /\ SightIsFresh' /\ VerdictHolds' /\ Followed'
    BY DEF InTurn
  <1>1. ~overlapped
    BY OverlapIsRemembered DEF Sane
  <1>2. OnePass /\ SightIsFresh /\ VerdictHolds /\ Followed
    BY <1>1 DEF InTurn
  <1>3. ASSUME NEW r \in Radars, PassStep(r)
        PROVE  OnePass' /\ SightIsFresh' /\ VerdictHolds' /\ Followed'
    BY <1>2, <1>3, SightStaysFresh, VerdictStaysTrue, TradesStayFollowed
  <1>4. ASSUME UNCHANGED <<row, radar>>, \A e \in Episodes :
                 \/ trade'[e] = trade[e]
                 \/ trade[e] = "open" /\ trade'[e] = "over"
                 \/ trade[e] = "over" /\ trade'[e] = "valid"
        PROVE  OnePass' /\ SightIsFresh' /\ VerdictHolds' /\ Followed'
    <2>1. \A r \in Radars : radar[r].first # None => radar[r].first \in Episodes
      BY DEF Sane, RadarsTyped, Pass
    <2> QED
      BY <1>2, <1>4, <2>1 DEF OnePass, SightIsFresh, VerdictHolds, Followed
  <1>5. \/ \E r \in Radars : PassStep(r)
        \/ UNCHANGED <<row, radar, trade>>
        \/ UNCHANGED <<row, radar>> /\ \E e \in Episodes : CloseTrade(e) \/ OutcomeMeasured(e)
    BY DEF Next, PassStep, vars, CloseTrade, OutcomeMeasured
  <1>6. ASSUME NEW e \in Episodes, CloseTrade(e) \/ OutcomeMeasured(e), NEW f \in Episodes
        PROVE  \/ trade'[f] = trade[f]
               \/ trade[f] = "open" /\ trade'[f] = "over"
               \/ trade[f] = "over" /\ trade'[f] = "valid"
    BY <1>6 DEF CloseTrade, OutcomeMeasured, Sane, ArtifactsTyped
  <1> QED
    BY <1>3, <1>4, <1>5, <1>6

LEMMA AlwaysInTurn == Spec => []InTurn
  <1>1. Init => InTurn
    BY DEF Init, InTurn, OnePass, SightIsFresh, VerdictHolds, Followed, IdlePass
  <1>2. Sane /\ InTurn /\ [Next]_vars => InTurn'
    BY InTurnStays
  <1> QED
    BY <1>1, <1>2, AlwaysSane, PTL DEF Spec

\* As long as passes never overlap, the row of a trade stays where reconcile
\* finds it until the trade has a valid outcome, for any number of radars that
\* follow each other and whatever dies when.
THEOREM TradesStayWithTheirRows == Spec => []TradesAreFollowed
  <1>1. InTurn => TradesAreFollowed
    BY DEF InTurn, Followed, TradesAreFollowed
  <1> QED
    BY <1>1, AlwaysInTurn, PTL

\* As long as passes never overlap, an episode that has ended stays ended.
THEOREM EndedStaysEnded == Spec => EndedEpisodesStay
  <1> DEFINE A == ~overlapped' => \A e \in Episodes :
                    row[e].status \in Terminal => row'[e].status = row[e].status
  <1>1. ASSUME Sane, InTurn, [Next]_vars PROVE A
    <2> SUFFICES ASSUME ~overlapped', NEW e \in Episodes, row[e].status \in Terminal
                 PROVE  row'[e].status = row[e].status
      OBVIOUS
    <2>1. SightIsFresh
      BY <1>1, OverlapIsRemembered DEF Sane, InTurn
    <2>2. ASSUME NEW r \in Radars, PassStep(r) PROVE row'[e].status = row[e].status
      BY <1>1, <2>1, <2>2, RowsMove DEF Terminal, Active
    <2>3. (\E r \in Radars : PassStep(r)) \/ UNCHANGED row
      BY <1>1 DEF Next, PassStep, vars, CloseTrade, OutcomeMeasured
    <2> QED
      BY <2>2, <2>3
  <1>2. Sane /\ InTurn /\ [Next]_vars => [A]_vars
    BY <1>1
  <1> QED
    BY <1>2, AlwaysSane, AlwaysInTurn, PTL DEF Spec, EndedEpisodesStay

-----------------------------------------------------------------------------
(***************************************************************************)
(* While passes do not overlap: nothing is filled between the check of a   *)
(* pass and its fill, whatever the keys, so the check is still true.       *)
(***************************************************************************)
Single ==
  \A e, f \in OpenTrades :
    /\ Market[row[e].key] = Market[row[f].key]
    /\ Lineage[row[e].key] = Lineage[row[f].key]
    => e = f

StillUnexposed ==
  \A r \in Radars : radar[r].at = "execute" => ~Exposed(radar[r].item)

ExposedInTurn == ~overlapped => StillUnexposed /\ Single

\* The keys of the open trades, and of the item a pass executes, do not change.
LEMMA OpenTradesKeepKeys ==
  ASSUME Sane, AbsentIsBare, [Next]_vars, NEW e \in OpenTrades'
  PROVE  e \in Episodes /\ row'[e].key = row[e].key
  <1>1. CASE e \in OpenTrades
    BY <1>1, RowsKeepKeys DEF AbsentIsBare, OpenTrades
  <1>2. ASSUME NEW r \in Radars, Fill(r), e = radar[r].item
        PROVE  e \in Episodes /\ row'[e].key = row[e].key
    BY <1>2, FilledRow, RowsKeepKeys
  <1> QED
    BY <1>1, <1>2, TradesAreOpenedByFills

\* While a pass is about to fill, nothing but the ends of trades happens.
LEMMA NothingElseIsFilled ==
  ASSUME Sane, OnePass, ~overlapped', [Next]_vars, NEW r \in Radars, radar'[r].at = "execute"
  PROVE  row' = row /\ OpenTrades' \subseteq OpenTrades
  <1>1. CASE UNCHANGED <<row, trade>>
    BY <1>1 DEF OpenTrades
  <1>2. ASSUME NEW e \in Episodes, CloseTrade(e) \/ OutcomeMeasured(e)
        PROVE  row' = row /\ OpenTrades' \subseteq OpenTrades
    BY <1>2 DEF CloseTrade, OutcomeMeasured, OpenTrades, Sane, ArtifactsTyped
  <1>3. ASSUME NEW s \in Radars, PassStep(s), s # r PROVE FALSE
    BY <1>3, OthersAreIdle
  <1>4. ASSUME PassStep(r), ~UNCHANGED <<row, trade>> PROVE FALSE
    <2>1. radar[r].at = "execute"
      BY <1>4, ExecutesWhatItChecked
    <2>2. Crash(r) \/ Fill(r) \/ NoFill(r) \/ Shadow(r)
      BY <1>4, <2>1 DEF PassStep, Begin, ReconcileList, Reconcile, EnqueueRead, EnqueueUpdates,
                        EnqueueInserts, Select, Review, Check, Decide, At, AtOneOf
    <2>3. radar'[r].at \in {"idle", "decide"}
      BY <2>2 DEF Crash, Dies, IdlePass, Fill, NoFill, Shadow, Ends, Sane, RadarsTyped, Pass
    <2> QED
      BY <2>3
  <1>5. \/ UNCHANGED <<row, trade>>
        \/ \E e \in Episodes : CloseTrade(e) \/ OutcomeMeasured(e)
        \/ \E s \in Radars : PassStep(s)
    BY DEF Next, PassStep, vars
  <1> QED
    BY <1>1, <1>2, <1>3, <1>4, <1>5

LEMMA ExposureStaysSingle ==
  ASSUME Sane, AbsentIsBare, OnePass, StillUnexposed, Single, ~overlapped', [Next]_vars
  PROVE  StillUnexposed' /\ Single'
  <1>1. StillUnexposed'
    <2> SUFFICES ASSUME NEW r \in Radars, radar'[r].at = "execute"
                 PROVE  ~Exposed(radar[r].item)'
      BY DEF StillUnexposed
    <2>1. /\ radar'[r].item = radar[r].item
          /\ ~Exposed(radar[r].item)
      BY ExecutesWhatItChecked DEF StillUnexposed
    <2> QED
      BY <2>1, NothingElseIsFilled DEF Exposed
  <1>2. Single'
    <2> SUFFICES ASSUME NEW e \in OpenTrades', NEW f \in OpenTrades',
                        Market[row'[e].key] = Market[row'[f].key],
                        Lineage[row'[e].key] = Lineage[row'[f].key]
                 PROVE  e = f
      BY DEF Single
    <2>1. row'[e].key = row[e].key /\ row'[f].key = row[f].key
      BY OpenTradesKeepKeys
    <2>2. /\ e \in OpenTrades \/ \E r \in Radars : Fill(r) /\ e = radar[r].item
          /\ f \in OpenTrades \/ \E r \in Radars : Fill(r) /\ f = radar[r].item
      BY TradesAreOpenedByFills
    <2>3. ASSUME NEW r \in Radars, Fill(r)
          PROVE  radar[r].at = "execute" /\ ~Exposed(radar[r].item)
      BY <2>3, FilledRow DEF StillUnexposed
    <2>4. CASE e \in OpenTrades /\ f \in OpenTrades
      BY <2>1, <2>4 DEF Single
    <2>5. ASSUME NEW r \in Radars, Fill(r), NEW s \in Radars, Fill(s),
                 e = radar[r].item, f = radar[s].item
          PROVE  e = f
      BY <2>3, <2>5 DEF OnePass
    <2> QED
      BY <2>1, <2>2, <2>3, <2>4, <2>5 DEF Exposed
  <1> QED
    BY <1>1, <1>2

\* As long as passes never overlap, two trades of one lineage are never open in
\* one market, for any keys, markets and lineages and whatever dies when.
THEOREM ExposureIsSingle == Spec => []NoDuplicateExposure
  <1>1. Init => ExposedInTurn
    BY DEF Init, ExposedInTurn, StillUnexposed, Single, OpenTrades, IdlePass
  <1>2. Sane /\ InTurn /\ Unexposed /\ ExposedInTurn /\ [Next]_vars => ExposedInTurn'
    <2> SUFFICES ASSUME Sane, InTurn, Unexposed, ExposedInTurn, [Next]_vars, ~overlapped'
                 PROVE  StillUnexposed' /\ Single'
      BY DEF ExposedInTurn
    <2>1. ~overlapped
      BY OverlapIsRemembered DEF Sane
    <2> QED
      BY <2>1, ExposureStaysSingle DEF InTurn, Unexposed, ExposedInTurn
  <1>3. ExposedInTurn => NoDuplicateExposure
    BY DEF ExposedInTurn, Single, NoDuplicateExposure
  <1> QED
    BY <1>1, <1>2, <1>3, AlwaysSane, AlwaysInTurn, AlwaysUnexposed, PTL DEF Spec
=============================================================================
