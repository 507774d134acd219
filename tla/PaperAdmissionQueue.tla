------------------------ MODULE PaperAdmissionQueue ------------------------
(***************************************************************************)
(* The queue between the market scanners and the paper trades.  A radar    *)
(* pass (radar_loop.py) repairs interrupted decisions, reconciles the      *)
(* queue with the artifacts of its rows, enqueues what it scanned, claims  *)
(* a row, reviews it, executes it and reconciles again                     *)
(* (paper_admission_queue.py, execution_engine.py, storage.py).  A pass    *)
(* may die between any two steps.  The queue has no lock of its own: only  *)
(* the bounded campaign keeps two passes apart, and the ordinary radar     *)
(* loop does not, so passes may overlap here.                              *)
(*                                                                         *)
(* A radar's name stands for the claim token of its pass.  Clocks, quotes  *)
(* and evidence are left out: a lease may be found expired, evidence stale *)
(* or refreshed and a back-off over whenever the code looks.  Statuses the *)
(* code treats alike are one: "queued" stands for queued_review,           *)
(* approved_waiting_capacity and retry_wait, "inflight" for paper_open and *)
(* waiting_outcome, "terminal" for terminal_reject, terminal_reference and *)
(* synthetic_shadow_only.                                                  *)
(***************************************************************************)
EXTENDS Naturals, FiniteSets

CONSTANTS
  Episodes,    \* the queue rows the instance has room for
  Keys,        \* admission keys: venue, instrument, surface, lineage and direction
  Market,      \* the instrument and direction of a key
  Lineage,     \* the Strategy Lab lineage root of a key, None for other strategies
  Radars,      \* radar processes
  MaxOpen,     \* risk.max_open_paper_trades
  None

ASSUME QueueConstants ==
  /\ None \notin Episodes \cup Keys \cup Radars
  /\ MaxOpen \in Nat
  /\ IsFiniteSet(Episodes)
  /\ DOMAIN Market = Keys /\ DOMAIN Lineage = Keys

VARIABLES
  row,         \* paper_admission_queue: one row per episode, or "absent"
  decision,    \* opportunities.decision of the episode, by what reconcile makes of it
  shadowed,    \* the episodes whose order, as reconcile finds it, is a shadow
  trade,       \* its paper trade, with the outcome measured for it
  fills,       \* how many filled orders with a trade it has had
  radar,       \* the passes
  overlapped   \* two passes have been under way at once

vars == <<row, decision, shadowed, trade, fills, radar, overlapped>>

Active == {"queued", "inflight"}
Terminal == {"completed_valid", "terminal"}
\* "kept": no opportunity yet, or a decision that reconcile leaves alone
\* (paper_filled, a blocked ticket); "rejected": also the shadow decisions.
Decisions == {"kept", "pending", "rejected", "deferred", "error"}
\* "over": closed, or expired_unpriced.
Trades == {"none", "open", "over", "valid"}
\* A pass reconciles twice; it executes its item with or without room for a fill.
Steps == {"idle", "list", "reconcile", "scan", "enqueue", "select", "review",
          "check", "execute", "executeFull", "decide", "relist", "finish"}

QueueRow == [key : Keys \cup {None}, token : Radars \cup {None},
             status : Active \cup Terminal \cup {"absent"}]
Absent == [key |-> None, token |-> None, status |-> "absent"]

\* `seen`, `first` and `verdict` are what a pass has read, `key` and `item` what
\* it works on, `outcome` the decision it is about to save.
Pass == [at : Steps, seen : SUBSET Episodes, first : Episodes \cup {None},
         verdict : Active \cup Terminal \cup {"keep"}, key : Keys \cup {None},
         item : Episodes \cup {None}, outcome : Decisions]
IdlePass == [at |-> "idle", seen |-> {}, first |-> None, verdict |-> "keep",
             key |-> None, item |-> None, outcome |-> "kept"]

Init ==
  /\ row = [e \in Episodes |-> Absent]
  /\ decision = [e \in Episodes |-> "kept"]
  /\ shadowed = {}
  /\ trade = [e \in Episodes |-> "none"]
  /\ fills = [e \in Episodes |-> 0]
  /\ radar = [r \in Radars |-> IdlePass]
  /\ overlapped = FALSE

ActiveRows == {e \in Episodes : row[e].status \in Active}
Queued == {e \in Episodes : row[e].status = "queued"}
Claimed == {e \in Queued : row[e].token # None}
OpenTrades == {e \in Episodes : trade[e] = "open"}

\* The unique index idx_paper_admission_queue_one_active.
OneActive(rows) ==
  \A e, f \in Episodes :
    rows[e].status \in Active /\ rows[f].status \in Active /\ rows[e].key = rows[f].key
      => e = f

\* A mutant: the claim survives a transition.
TransitionedWithClaim(e, status) == [row[e] EXCEPT !.status = status]

\* _transition_queue_status writes by queue_id, whatever the row has become,
\* and always drops the claim.
Transitioned(e, status) == [row[e] EXCEPT !.status = status, !.token = None]

\* release_expired_paper_admission_leases.
Released(rows, gone) ==
  [e \in Episodes |-> IF e \in gone THEN [rows[e] EXCEPT !.token = None] ELSE rows[e]]

At(r, step) == radar[r].at = step
AtOneOf(r, steps) == radar[r].at \in steps
Goes(r, step) == radar' = [radar EXCEPT ![r].at = step]

\* The pass raises, or is killed: what it held in memory is gone.
Dies(r) == radar' = [radar EXCEPT ![r] = IdlePass]

\* The end of the items: the second reconciliation begins.
Reconciles(r) == radar' = [radar EXCEPT ![r] = [IdlePass EXCEPT !.at = "relist"]]

Crash(r) ==
  /\ ~At(r, "idle")
  /\ Dies(r)
  /\ UNCHANGED <<row, decision, shadowed, trade, fills, overlapped>>

\* reconcile_pending_opportunities: a decision left pending follows the trade,
\* then the order, and is abandoned once it is old enough.
MayBecome(e) ==
  IF decision[e] # "pending" THEN {decision[e]}
  ELSE IF trade[e] # "none" THEN {"kept"}
  ELSE IF e \in shadowed THEN {"rejected"}
  ELSE {"pending", "rejected", "kept"}

Begin(r) ==
  /\ At(r, "idle")
  /\ decision' \in {d \in [Episodes -> Decisions] : \A e \in Episodes : d[e] \in MayBecome(e)}
  /\ Goes(r, "list")
  /\ overlapped' = (overlapped \/ \E s \in Radars \ {r} : ~At(s, "idle"))
  /\ UNCHANGED <<row, shadowed, trade, fills>>

\* What reconcile makes of an episode's artifacts: "keep" leaves the status.
Verdict(e) ==
  CASE trade[e] \in {"open", "over"} -> "inflight"
    [] trade[e] = "valid" -> "completed_valid"
    [] trade[e] = "none" /\ decision[e] = "deferred" -> "queued"
    [] trade[e] = "none" /\ decision[e] = "error" /\ e \notin shadowed -> "queued"
    [] trade[e] = "none" /\ decision[e] # "deferred"
         /\ (e \in shadowed \/ decision[e] = "rejected") -> "terminal"
    [] OTHER -> "keep"

\* A mutant: reconcile lists every row that exists.
ReconcileListAll(r) ==
  /\ AtOneOf(r, {"list", "relist"})
  /\ UNCHANGED row
  /\ radar' = [radar EXCEPT ![r].at = IF @ = "list" THEN "reconcile" ELSE "finish",
                  ![r].seen = {e \in Episodes : row[e].status # "absent"}]
  /\ UNCHANGED <<decision, shadowed, trade, fills, overlapped>>

\* reconcile_paper_admission_queue lists the active rows before its first write
\* opens a transaction; it may also have looked up one row's artifacts by then.
ReconcileList(r) ==
  /\ AtOneOf(r, {"list", "relist"})
  /\ \E gone \in SUBSET Claimed : row' = Released(row, gone)
  /\ \E first \in ActiveRows \cup {None} :
       radar' = [radar EXCEPT ![r].at = IF @ = "list" THEN "reconcile" ELSE "finish",
                   ![r].seen = ActiveRows, ![r].first = first,
                   ![r].verdict = IF first = None THEN "keep" ELSE Verdict(first)]
  /\ UNCHANGED <<decision, shadowed, trade, fills, overlapped>>

Reconciled(r, e) ==
  LET verdict == IF e = radar[r].first THEN radar[r].verdict ELSE Verdict(e)
  IN  IF e \notin radar[r].seen \/ verdict = "keep" THEN row[e] ELSE Transitioned(e, verdict)

AfterReconcile(r) ==
  IF At(r, "finish") THEN Dies(r)
  ELSE radar' = [radar EXCEPT ![r] = [IdlePass EXCEPT !.at = "scan"]]

\* The writes are one transaction; a second active row of a key aborts it.
Reconcile(r) ==
  /\ AtOneOf(r, {"reconcile", "finish"})
  /\ LET rows == [e \in Episodes |-> Reconciled(r, e)]
     IN  IF OneActive(rows)
         THEN row' = rows /\ AfterReconcile(r)
         ELSE UNCHANGED row /\ Dies(r)
  /\ UNCHANGED <<decision, shadowed, trade, fills, overlapped>>

\* A mutant: a terminal classification also ends a row with a trade.
EnqueueReadInflight(r) ==
  /\ At(r, "scan")
  /\ \/ \E k \in Keys :
          /\ \A e \in ActiveRows : row[e].key # k
          /\ radar' = [radar EXCEPT ![r].at = "enqueue", ![r].key = k]
     \/ \E found \in SUBSET ActiveRows :
          radar' = [radar EXCEPT ![r].at = "enqueue", ![r].seen = found]
  /\ UNCHANGED <<row, decision, shadowed, trade, fills, overlapped>>

\* enqueue_paper_admission_candidates looks for the active row of the
\* candidate's key (one candidate a pass), outside any transaction; a candidate
\* without a direction matches the queued rows of its market.
EnqueueRead(r) ==
  /\ At(r, "scan")
  /\ \/ \E k \in Keys :
          /\ \A e \in ActiveRows : row[e].key # k
          /\ radar' = [radar EXCEPT ![r].at = "enqueue", ![r].key = k]
     \/ \E found \in (SUBSET Queued) \ {{}} :
          radar' = [radar EXCEPT ![r].at = "enqueue", ![r].seen = found]
     \/ Goes(r, "select")
  /\ UNCHANGED <<row, decision, shadowed, trade, fills, overlapped>>

ToSelect(r) == radar' = [radar EXCEPT ![r] = [IdlePass EXCEPT !.at = "select"]]

\* A fresh terminal or invalidating classification ends the rows that were
\* queued when they were read.  Otherwise nothing but evidence and counters is
\* written: no slot, not eligible, a duplicate, a refresh, a row with a trade.
EnqueueUpdates(r) ==
  /\ At(r, "enqueue")
  /\ \/ UNCHANGED row
     \/ row' = [e \in Episodes |->
                  IF e \in radar[r].seen THEN Transitioned(e, "terminal") ELSE row[e]]
  /\ ToSelect(r)
  /\ UNCHANGED <<decision, shadowed, trade, fills, overlapped>>

\* An eligible candidate that found no active row gets a new one, unless another
\* pass has been quicker: then the unique index aborts the pass.
EnqueueInserts(r) ==
  /\ At(r, "enqueue") /\ radar[r].key # None
  /\ \E e \in Episodes :
       /\ row[e].status = "absent"
       /\ LET rows == [row EXCEPT ![e] = [Absent EXCEPT !.key = radar[r].key,
                                                        !.status = "queued"]]
          IN  IF OneActive(rows)
              THEN row' = rows /\ ToSelect(r)
              ELSE UNCHANGED row /\ Dies(r)
  /\ UNCHANGED <<decision, shadowed, trade, fills, overlapped>>

\* select_paper_admission_candidates, one immediate transaction: expired claims
\* are released, stale or losing rows end, and at most one row is claimed.
Free(gone) == (Queued \ Claimed) \cup gone

Swept(gone, ended) ==
  [e \in Episodes |-> IF e \in ended THEN Transitioned(e, "terminal") ELSE Released(row, gone)[e]]

Claims(r, e, rows) ==
  /\ row' = [rows EXCEPT ![e].token = r]
  /\ radar' = [radar EXCEPT ![r].at = "review", ![r].item = e]

Select(r) ==
  /\ At(r, "select")
  /\ \E gone \in SUBSET Claimed : \E ended \in SUBSET Free(gone) :
       \/ row' = Swept(gone, ended) /\ Reconciles(r)
       \/ \E e \in Free(gone) \ ended : Claims(r, e, Swept(gone, ended))
  /\ UNCHANGED <<decision, shadowed, trade, fills, overlapped>>

\* _bounded_paper_queue_row_for_candidate: the row still carries this pass's
\* claim (and the candidate that was claimed, which is left out).
Holds(r) == row[radar[r].item].token = r

\* save_opportunity: the review's decision, an approval being saved as pending.
Review(r) ==
  /\ At(r, "review")
  /\ LET e == radar[r].item
     IN  IF Holds(r)
         THEN \/ decision' = [decision EXCEPT ![e] = "rejected"] /\ Reconciles(r)
              \/ decision' = [decision EXCEPT ![e] = "pending"] /\ Goes(r, "check")
         ELSE UNCHANGED decision /\ Dies(r)
  /\ UNCHANGED <<row, shadowed, trade, fills, overlapped>>

\* A mutant: only the episode's own trade counts as exposure.
ExposedByItself(e) == e \in OpenTrades

\* A mutant: only a trade of the same admission key counts as exposure.
ExposedByKey(e) == \E f \in OpenTrades : row[f].key = row[e].key

\* has_open_trade: the same instrument and direction is already open; a Strategy
\* Lab candidate asks only for the trades of its own lineage.
Exposed(e) ==
  \E f \in OpenTrades :
    /\ Market[row[f].key] = Market[row[e].key]
    /\ Lineage[row[e].key] \in {None, Lineage[row[f].key]}

\* The execution loop's checks, read before execute_order: exposure, and room
\* for a fill (the limits of the cycle may also leave none).
Check(r) ==
  /\ At(r, "check")
  /\ LET e == radar[r].item
     IN  IF Exposed(e)
         THEN decision' = [decision EXCEPT ![e] = "rejected"] /\ Reconciles(r)
         ELSE /\ UNCHANGED decision
              /\ \/ Cardinality(OpenTrades) < MaxOpen /\ Goes(r, "execute")
                 \/ Goes(r, "executeFull")
  /\ UNCHANGED <<row, shadowed, trade, fills, overlapped>>

Ends(r, outcome) ==
  radar' = [radar EXCEPT ![r].at = "decide", ![r].outcome = outcome]

\* consume_bounded_paper_queue_claim.
MayConsume(r) == Holds(r) /\ row[radar[r].item].status = "queued"

\* A mutant: only an open trade refuses another fill.
UnfilledOnceClosed(e) == trade[e] # "open"

\* The triggers and checks of save_execution_order: the episode has no fill yet.
Unfilled(e) == trade[e] = "none"

\* open_paper_trade counts the open trades again inside the fill's transaction.
HasRoom(e) == Cardinality(OpenTrades) < MaxOpen

\* execute_order's fill bundle: the claim is consumed, the order filled and the
\* trade opened and bound, or nothing is.
Fill(r) ==
  /\ At(r, "execute") /\ MayConsume(r)
  /\ LET e == radar[r].item
     IN  /\ Unfilled(e) /\ HasRoom(e)
         /\ row' = [row EXCEPT ![e].status = "inflight", ![e].token = None]
         /\ trade' = [trade EXCEPT ![e] = "open"]
         /\ shadowed' = shadowed \ {e}
         /\ fills' = [fills EXCEPT ![e] = @ + 1]
  /\ Ends(r, "kept")
  /\ UNCHANGED <<decision, overlapped>>

\* Every other way out of execute_order: no capacity ("deferred"), an exception
\* that rolls the fill back ("error"), an expired or lost claim ("kept"), or a
\* ticket that is not ready, whose order is saved and becomes the latest.
NoFill(r) ==
  /\ AtOneOf(r, {"execute", "executeFull"})
  /\ \/ UNCHANGED shadowed /\ \E outcome \in {"deferred", "error", "kept"} : Ends(r, outcome)
     \/ shadowed' = shadowed \ {radar[r].item} /\ Ends(r, "kept")
  /\ UNCHANGED <<row, decision, trade, fills, overlapped>>

\* A guard turned the candidate into a shadow: an observation without an order,
\* or an order with a shadow status.  There may be no room left to observe it.
Shadow(r) ==
  /\ AtOneOf(r, {"execute", "executeFull"})
  /\ shadowed' \in {shadowed, shadowed \cup {radar[r].item}}
  /\ \E outcome \in {"deferred", "rejected"} : Ends(r, outcome)
  /\ UNCHANGED <<row, decision, trade, fills, overlapped>>

\* update_opportunity_decision, by id, after the artifacts are committed.
Decide(r) ==
  /\ At(r, "decide")
  /\ decision' = [decision EXCEPT ![radar[r].item] = radar[r].outcome]
  /\ Reconciles(r)
  /\ UNCHANGED <<row, shadowed, trade, fills, overlapped>>

\* close_due_trades: the trade's horizon is over, with or without a price; later
\* it may have a price, and an outcome that is valid and reliable.
CloseTrade(e) ==
  /\ trade[e] = "open"
  /\ trade' = [trade EXCEPT ![e] = "over"]
  /\ UNCHANGED <<row, decision, shadowed, fills, radar, overlapped>>

OutcomeMeasured(e) ==
  /\ trade[e] = "over"
  /\ trade' = [trade EXCEPT ![e] = "valid"]
  /\ UNCHANGED <<row, decision, shadowed, fills, radar, overlapped>>

Next ==
  \/ \E r \in Radars :
       \/ Crash(r) \/ Begin(r) \/ ReconcileList(r) \/ Reconcile(r)
       \/ EnqueueRead(r) \/ EnqueueUpdates(r) \/ EnqueueInserts(r) \/ Select(r)
       \/ Review(r) \/ Check(r) \/ Fill(r) \/ NoFill(r) \/ Shadow(r) \/ Decide(r)
  \/ \E e \in Episodes : CloseTrade(e) \/ OutcomeMeasured(e)

Spec == Init /\ [][Next]_vars

-----------------------------------------------------------------------------
\* The variables range over what the columns of the tables and the locals of a
\* pass may hold; a claim is only ever on a selectable row.
QueueTypeOK ==
  /\ row \in [Episodes -> QueueRow]
  /\ decision \in [Episodes -> Decisions]
  /\ shadowed \subseteq Episodes
  /\ trade \in [Episodes -> Trades]
  /\ fills \in [Episodes -> Nat]
  /\ radar \in [Radars -> Pass]
  /\ overlapped \in BOOLEAN
  /\ \A e \in Episodes : row[e].token # None => row[e].status = "queued"
  /\ OneActive(row)

\* However passes overlap, die and overwrite each other's rows, an episode is
\* filled at most once: a status written back over a filled row lets it be
\* claimed and executed again, and only the order's guard refuses the fill.
OneFillPerEpisode == \A e \in Episodes : fills[e] <= 1

\* Two trades of one admission key are never open together, however passes
\* overlap, although has_open_trade is read in one step and the fill is made in a
\* later one.
OneTradePerKey == \A e, f \in OpenTrades : row[e].key = row[f].key => e = f

\* As long as passes never overlap, two trades of one lineage are never open in one
\* instrument and direction, although they have rows and admission keys of their
\* own: "Strategy Lab relaxed variants share a lineage root, preventing duplicate
\* open exposure across revisions" (STABILIZATION_REVIEW_2026-08-06.md).
NoDuplicateExposure ==
  ~overlapped => \A e, f \in OpenTrades :
    /\ Market[row[e].key] = Market[row[f].key]
    /\ Lineage[row[e].key] = Lineage[row[f].key]
    => e = f

\* The open trades stay within max_open_paper_trades, although the loop's own
\* count is read before other passes fill.
OpenTradesAreCapped == Cardinality(OpenTrades) <= MaxOpen

\* As long as passes never overlap, the row of a trade stays where reconcile
\* finds it, whatever dies when, until the trade has a valid outcome.
TradesAreFollowed ==
  ~overlapped => \A e \in Episodes :
    trade[e] # "none" =>
      \/ row[e].status = "inflight"
      \/ row[e].status = "completed_valid" /\ trade[e] = "valid"

\* As long as passes never overlap, an episode that has ended stays ended.
EndedEpisodesStay ==
  [][~overlapped' => \A e \in Episodes :
       row[e].status \in Terminal => row'[e].status = row[e].status]_vars
=============================================================================
