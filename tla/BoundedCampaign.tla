--------------------------- MODULE BoundedCampaign --------------------------
(***************************************************************************)
(* The bounded paper campaign: one row of paper_expansion_campaign_state,  *)
(* whose JSON names the radar cycle in flight, the lease of the paid       *)
(* research operation and the watermark of the model spending seen so far. *)
(* A radar loads the row, compares the cost ledger with the watermark,     *)
(* may write its whole copy back, claims a cycle, and records it.  A payer *)
(* takes the lease between two cycles, calls the model once a day, and     *)
(* releases.  An operator resets a hard halt.  The scripts that start the  *)
(* two hold one cycle mutex; nothing stops a direct start.                 *)
(***************************************************************************)
EXTENDS Naturals, FiniteSets

CONSTANTS
    Radars,         \* radar runs, each with its own cycle_id
    Payers,         \* runs of paid_research_once, or of others that call models
    ResumeAfter,    \* resume_healthy_cycles
    Nobody

ASSUME CampaignConstants ==
    /\ ResumeAfter \in Nat \ {0} /\ Nobody \notin Radars \cup Payers

VARIABLES
    supervised,     \* whether the processes are started under the cycle mutex
    row,            \* paper_expansion_campaign_state
    cycles,         \* paper_expansion_campaign_cycles: health_status by cycle
    latest,         \* the health_status of the cycle completed last
    spent,          \* whose calls llm_cost_events holds
    claimed,        \* the claim file of this UTC day
    late,           \* the cycles and leases that are past their time
    radar, payer,   \* where each process is
    moved,          \* the radars whose copy is no longer the row
    operator        \* the copy bounded_campaign_control is about to write

campvars == <<supervised, row, cycles, latest, spent, claimed, late, radar, payer,
              moved, operator>>

Healths == {"healthy", "probe", "soft_paused", "hard_halted"}
Results == {"completed", "failed", "gate", "unknown"}

\* last: last_paid_research_lease.  captured: the cycle of the watermark, or
\* Nobody for one before the first of Radars.
Row == [phase: {"early", "research"}, status: {"running", "soft_paused", "hard_halted"},
        streak: 0 .. ResumeAfter - 1,
        cycle: Radars \cup {Nobody}, lease: Payers \cup {Nobody}, last: Payers \cup {Nobody},
        marked: BOOLEAN, captured: Radars \cup {Nobody},
        markSpent: SUBSET Payers, markLast: Payers \cup {Nobody}]

NewRow == [phase |-> "early", status |-> "running", streak |-> 0,
           cycle |-> Nobody, lease |-> Nobody, last |-> Nobody,
           marked |-> FALSE, captured |-> Nobody, markSpent |-> {}, markLast |-> Nobody]

RadarSteps == {"idle", "loaded", "writing", "claiming", "running", "failed", "over"}
PayerSteps == {"idle", "starting", "leased", "calling", "releasing", "over"}
Radar == [step: RadarSteps, copy: Row, base: SUBSET Payers]
\* seen: the cycles completed before its lease started.
Payer == [step: PayerSteps, result: Results, seen: SUBSET Radars]

Halted(s) == [s EXCEPT !.status = "hard_halted", !.streak = 0]

----------------------------------------------------------------------------
(* Starting.  Under the mutex a process starts when no other is alive.     *)

Alive == {r \in Radars : radar[r].step \notin {"idle", "over"}}
            \cup {q \in Payers : payer[q].step \notin {"idle", "over"}}
MayStart == supervised => Alive = {}

At(r, step) == radar[r].step = step
Goto(r, step) == radar' = [radar EXCEPT ![r].step = step]
Pay(q, step) == payer' = [payer EXCEPT ![q].step = step]

\* A writer of the row changes updated_at, which every other radar that has
\* a copy compares.
Write(new, writers) ==
    /\ row' = new
    /\ moved' = {r \in Radars \ writers : radar[r].step \in {"loaded", "writing", "claiming"}}

\* A radar needs its copy no more.
Drop(r, step, base) == radar' = [radar EXCEPT ![r] = [step |-> step, copy |-> NewRow, base |-> base]]

----------------------------------------------------------------------------
(* A radar run: apply_campaign_controls, then record_campaign_cycle.       *)

Load(r) ==
    /\ At(r, "idle") /\ MayStart
    /\ radar' = [radar EXCEPT ![r].step = "loaded", ![r].copy = row]
    /\ moved' = moved \ {r}
    /\ UNCHANGED <<supervised, row, cycles, latest, spent, claimed, late, payer, operator>>

NewSpending(s) == spent \ s.markSpent

\* _authorized_paid_research_attribution: the one new call is that of the
\* operation released last, whose result is known.
Attributed(s) ==
    /\ s.phase = "research" /\ s.status = "running"
    /\ s.last # Nobody /\ s.last # s.markLast
    /\ NewSpending(s) = {s.last}
    /\ payer[s.last].result \in {"completed", "failed"}
    /\ s.captured # Nobody => s.captured \in payer[s.last].seen

\* _categorized_zero_delta_paid_gate.
GateDenied(s) ==
    /\ s.phase = "research" /\ s.status = "running"
    /\ NewSpending(s) = {} /\ s.last # Nobody /\ s.last # s.markLast
    /\ payer[s.last].result = "gate"
    /\ s.captured # Nobody => s.captured \in payer[s.last].seen

\* A mutant: any call since the watermark is taken for the paid operation's.
ExplainedByLease(s) ==
    s.marked => \/ NewSpending(s) = {} /\ s.last = s.markLast
                \/ s.last # Nobody /\ s.last # s.markLast

Explained(s) ==
    s.marked => \/ NewSpending(s) = {} /\ s.last = s.markLast
                \/ Attributed(s)
                \/ GateDenied(s)

\* An attributed failure or a denied gate pauses; only a call that ended well
\* does not.
Pauses(s) ==
    /\ s.marked /\ s.last # s.markLast /\ Explained(s)
    /\ payer[s.last].result # "completed"

\* _safety_snapshot and _intercycle_safety_check, on the copy.  The process
\* guard and a ledger that is not clean halt as well, whatever was spent.
Check(r) ==
    LET s == radar[r].copy
        Next(step, copy) ==
            radar' = [radar EXCEPT ![r] = [step |-> step, copy |-> copy, base |-> spent]]
    IN  /\ At(r, "loaded")
        /\ \/ s.status = "hard_halted" /\ Next("claiming", s)
           \/ s.status # "hard_halted" /\ Next("writing", Halted(s))
           \/ s.status # "hard_halted" /\ Explained(s) /\ ~Pauses(s) /\ Next("claiming", s)
           \/ /\ s.status # "hard_halted" /\ Pauses(s)
              /\ Next("writing", [s EXCEPT !.status = "soft_paused", !.streak = 0])
        /\ UNCHANGED <<supervised, row, cycles, latest, spent, claimed, late, payer,
                       moved, operator>>

\* _persist_state writes the copy, whatever the row has become.
PersistCopy(r) ==
    /\ At(r, "writing") /\ Goto(r, "claiming")
    /\ Write(radar[r].copy, {r})
    /\ UNCHANGED <<supervised, cycles, latest, spent, claimed, late, payer, operator>>

\* _atomic_claim_campaign_cycle: any difference latches a hard halt.
ClaimCycle(r) ==
    /\ At(r, "claiming")
    /\ IF row.cycle = Nobody /\ row.lease = Nobody /\ r \notin moved
       THEN Write([row EXCEPT !.cycle = r], {r}) /\ Drop(r, "running", radar[r].base)
       ELSE Write(Halted(row), {r}) /\ Drop(r, "failed", {})
    /\ UNCHANGED <<supervised, cycles, latest, spent, claimed, late, payer, operator>>

\* A mutant: a healthy cycle resumes a halted campaign.
AfterResuming(t, h, phase) ==
    [row EXCEPT !.status = IF h = "healthy" THEN "running" ELSE h, !.streak = 0,
                !.cycle = Nobody, !.marked = TRUE, !.captured = t,
                !.markSpent = spent, !.markLast = row.last]

\* A mutant: one healthy probe too many is asked for.
ResumesLate == row.status = "soft_paused" /\ row.streak >= ResumeAfter

\* A healthy cycle is the last probe that a paused campaign needs.
Resumes == row.status = "soft_paused" /\ row.streak + 1 >= ResumeAfter

\* The row after cycle t is evaluated with health h.
After(t, h, phase) ==
    LET status == IF row.status = "hard_halted" \/ h = "hard_halted" THEN "hard_halted"
                  ELSE IF h = "healthy" /\ (row.status = "running" \/ Resumes) THEN "running"
                  ELSE "soft_paused"
    IN  [row EXCEPT !.status = status,
            !.streak = IF row.status = "hard_halted" THEN @
                       ELSE IF status = "soft_paused" /\ h = "healthy" THEN @ + 1 ELSE 0,
            !.phase = IF row.status = "running" /\ status = "running" THEN phase ELSE @,
            !.cycle = Nobody, !.marked = TRUE, !.captured = t,
            !.markSpent = spent, !.markLast = row.last]

HealthStatus(h, new) ==
    IF row.status = "hard_halted" THEN "hard_halted"
    ELSE IF h = "healthy" /\ new.status = "soft_paused" THEN "probe" ELSE h

\* A mutant: the token is evaluated though its cycle has been recorded.
RecordTokenAgain(t, healths) ==
    /\ row.cycle = t
    /\ \E h \in healths, phase \in {row.phase, "research"} :
         LET new == After(t, h, phase)
         IN  /\ spent # radar[t].base => h = "hard_halted"
             /\ Write(new, {})
             /\ cycles' = [cycles EXCEPT ![t] = HealthStatus(h, new)]
             /\ latest' = HealthStatus(h, new)

\* record_campaign_cycle for the token of cycle t, in one transaction.  New
\* calls since the baseline are a hard reason; research is entered through
\* the gates of three earlier phases, taken together.
RecordToken(t, healths) ==
    \/ /\ cycles[t] # "none"
       /\ IF row.cycle = t THEN Write([row EXCEPT !.cycle = Nobody], {})
                           ELSE UNCHANGED <<row, moved>>
       /\ UNCHANGED <<cycles, latest>>
    \/ /\ cycles[t] = "none" /\ row.cycle = t
       /\ \E h \in healths, phase \in {row.phase, "research"} :
            LET new == After(t, h, phase)
            IN  /\ spent # radar[t].base => h = "hard_halted"
                /\ Write(new, {})
                /\ cycles' = [cycles EXCEPT ![t] = HealthStatus(h, new)]
                /\ latest' = HealthStatus(h, new)

AnyHealth == {"healthy", "soft_paused", "hard_halted"}
FailedHealth == {"soft_paused", "hard_halted"}

\* The radar records its own cycle; a row that names another one is an error.
Record(r) ==
    /\ At(r, "running")
    /\ \/ RecordToken(r, AnyHealth) /\ Goto(r, "over")
       \/ /\ cycles[r] = "none" /\ row.cycle # r /\ Goto(r, "failed")
          /\ UNCHANGED <<row, moved, cycles, latest>>
    /\ UNCHANGED <<supervised, spent, claimed, late, payer, operator>>

\* A radar raises, or is killed at its time limit.
Fail(r) ==
    /\ radar[r].step \in {"loaded", "writing", "claiming", "running"}
    /\ Drop(r, "failed", IF At(r, "running") THEN radar[r].base ELSE {})
    /\ moved' = moved \ {r}
    /\ UNCHANGED <<supervised, row, cycles, latest, spent, claimed, late, payer, operator>>

\* record_inflight_failure: the supervisor of a failed radar records the cycle
\* the row names, whichever it is.
RecordInflightFailure(r) ==
    /\ At(r, "failed") /\ Goto(r, "over")
    /\ \/ \E t \in Radars : row.cycle = t /\ RecordToken(t, FailedHealth)
       \/ row.cycle = Nobody /\ UNCHANGED <<row, moved, cycles, latest>>
    /\ UNCHANGED <<supervised, spent, claimed, late, payer, operator>>

\* A radar that has no supervisor, or whose supervisor is gone.
Abandon(r) ==
    /\ At(r, "failed") /\ Goto(r, "over")
    /\ UNCHANGED <<supervised, row, cycles, latest, spent, claimed, late, payer, moved,
                   operator>>

----------------------------------------------------------------------------
(* A paid research run: run_once.                                          *)

\* It ends at once when the day's claim file is there.
Start(q) ==
    /\ payer[q].step = "idle" /\ MayStart
    /\ Pay(q, IF claimed THEN "over" ELSE "starting")
    /\ UNCHANGED <<supervised, row, cycles, latest, spent, claimed, late, radar, moved,
                   operator>>

\* A mutant: the cycle in flight is not looked at.
LeaseIsOpenDuringCycle == row.phase = "research" /\ row.status = "running" /\ latest = "healthy"

LeaseIsOpen ==
    row.phase = "research" /\ row.status = "running" /\ row.cycle = Nobody /\ latest = "healthy"

\* _claim_paid_research_lease: it refuses too when the last cycle is old.
ClaimLease(q) ==
    /\ payer[q].step = "starting"
    /\ \/ /\ LeaseIsOpen /\ row.lease = Nobody
          /\ Write([row EXCEPT !.lease = q], {})
          /\ payer' = [payer EXCEPT ![q].step = "leased",
                                    ![q].seen = {r \in Radars : cycles[r] # "none"}]
       \/ /\ LeaseIsOpen /\ row.lease \in late
          /\ Write(Halted(row), {}) /\ Pay(q, "over")
       \/ Pay(q, "over") /\ UNCHANGED <<row, moved>>
    /\ UNCHANGED <<supervised, cycles, latest, spent, claimed, late, radar, operator>>

\* No evidence, a preflight or a budget refuses, or something raises.
Deny(q) ==
    /\ payer[q].step \in {"leased", "calling"}
    /\ \E why \in IF payer[q].step = "leased" THEN {"gate", "unknown"} ELSE {"unknown"} :
         payer' = [payer EXCEPT ![q].step = "releasing", ![q].result = why]
    /\ UNCHANGED <<supervised, row, cycles, latest, spent, claimed, late, radar, moved,
                   operator>>

\* The claim file is opened for exclusive creation.
OpenClaim(q) ==
    /\ payer[q].step = "leased"
    /\ claimed' = TRUE
    /\ payer' = IF claimed THEN [payer EXCEPT ![q].step = "releasing", ![q].result = "gate"]
                           ELSE [payer EXCEPT ![q].step = "calling"]
    /\ UNCHANGED <<supervised, row, cycles, latest, spent, late, radar, moved, operator>>

\* complete() leaves a row in llm_cost_events; the answer is ingested, lost
\* downstream, or was none.
CallModel(q) ==
    /\ payer[q].step = "calling"
    /\ spent' = spent \cup {q}
    /\ \E why \in {"completed", "failed", "unknown"} :
         payer' = [payer EXCEPT ![q].step = "releasing", ![q].result = why]
    /\ UNCHANGED <<supervised, row, cycles, latest, claimed, late, radar, moved, operator>>

\* _release_paid_research_lease, or its error when the row names another.
Release(q) ==
    /\ payer[q].step = "releasing" /\ Pay(q, "over")
    /\ IF row.lease = q THEN Write([row EXCEPT !.lease = Nobody, !.last = q], {})
                        ELSE UNCHANGED <<row, moved>>
    /\ UNCHANGED <<supervised, cycles, latest, spent, claimed, late, radar, operator>>

\* A process that holds no lease calls the model: a worker the scripts forbid.
SpendElsewhere(q) ==
    /\ payer[q].step = "idle" /\ Pay(q, "over")
    /\ spent' = spent \cup {q}
    /\ UNCHANGED <<supervised, row, cycles, latest, claimed, late, radar, moved, operator>>

\* A payer is killed: its lease stays.
KillPayer(q) ==
    /\ payer[q].step \in {"leased", "calling", "releasing"}
    /\ payer' = [payer EXCEPT ![q].step = "over", ![q].result = "unknown"]
    /\ UNCHANGED <<supervised, row, cycles, latest, spent, claimed, late, radar, moved,
                   operator>>

----------------------------------------------------------------------------
(* Time and the operator.                                                  *)

\* A cycle passes runtime_halt_seconds, a lease lease_expires_at.
Expire(p) ==
    /\ p \in {row.cycle, row.lease} \ (late \cup {Nobody})
    /\ late' = late \cup {p}
    /\ UNCHANGED <<supervised, row, cycles, latest, spent, claimed, radar, payer, moved,
                   operator>>

\* reset_hard_halt reads the row; what is in flight must be past its time ...
BeginReset ==
    /\ row.status = "hard_halted" /\ operator = NewRow
    /\ {row.cycle, row.lease} \subseteq late \cup {Nobody}
    /\ operator' = [row EXCEPT !.cycle = Nobody, !.lease = Nobody,
                               !.status = "soft_paused", !.streak = 0]
    /\ UNCHANGED <<supervised, row, cycles, latest, spent, claimed, late, radar, payer,
                   moved>>

\* ... and the copy is written back, in no transaction with the read.
EndReset ==
    /\ operator # NewRow /\ operator' = NewRow
    /\ Write(operator, {})
    /\ UNCHANGED <<supervised, cycles, latest, spent, claimed, late, radar, payer>>

----------------------------------------------------------------------------
\* A new campaign, or one whose last cycle was a healthy one of research.
CampaignInit ==
    /\ supervised \in BOOLEAN
    /\ \/ row = NewRow /\ latest = "none"
       \/ row = [NewRow EXCEPT !.phase = "research", !.marked = TRUE] /\ latest = "healthy"
    /\ cycles = [r \in Radars |-> "none"]
    /\ spent = {} /\ claimed = FALSE /\ late = {} /\ moved = {}
    /\ radar = [r \in Radars |-> [step |-> "idle", copy |-> NewRow, base |-> {}]]
    /\ payer = [q \in Payers |-> [step |-> "idle", result |-> "unknown", seen |-> {}]]
    /\ operator = NewRow

CampaignNext ==
    \/ \E r \in Radars :
         \/ Load(r) \/ Check(r) \/ PersistCopy(r) \/ ClaimCycle(r) \/ Record(r)
         \/ Fail(r) \/ RecordInflightFailure(r) \/ Abandon(r)
    \/ \E q \in Payers :
         \/ Start(q) \/ ClaimLease(q) \/ Deny(q) \/ OpenClaim(q) \/ CallModel(q)
         \/ Release(q) \/ KillPayer(q) \/ SpendElsewhere(q)
    \/ \E p \in Radars \cup Payers : Expire(p)
    \/ BeginReset
    \/ EndReset

CampaignSpec == CampaignInit /\ [][CampaignNext]_campvars

----------------------------------------------------------------------------
\* The row, the copies of it and the processes hold what they may.
CampaignTypeOK ==
    /\ supervised \in BOOLEAN /\ claimed \in BOOLEAN
    /\ row \in Row /\ operator \in Row
    /\ cycles \in [Radars -> Healths \cup {"none"}] /\ latest \in Healths \cup {"none"}
    /\ spent \subseteq Payers /\ late \subseteq Radars \cup Payers
    /\ moved \subseteq Radars
    /\ radar \in [Radars -> Radar] /\ payer \in [Payers -> Payer]

\* The row never names a cycle and a paid operation at once, in spite of the
\* copies that radars and the operator write back.
OneOperation == row.cycle = Nobody \/ row.lease = Nobody

\* Once there is a watermark, recording a cycle moves it over spending only
\* when the campaign is halted, or when the spending is the one call of the
\* operation released last and its result is known.
SpendingIsAnswered ==
    [][cycles' # cycles /\ row.marked /\ ~ (row'.markSpent \subseteq row.markSpent) =>
          \/ row'.status = "hard_halted"
          \/ /\ row'.markSpent \ row.markSpent = {row'.last}
             /\ payer[row'.last].result \in {"completed", "failed"}]_campvars

\* Under the cycle mutex, only an operator's reset ends a hard halt.
HardHaltStays ==
    [][supervised /\ row.status = "hard_halted" /\ row'.status # "hard_halted"
          => operator # NewRow /\ operator' = NewRow]_campvars

\* The result of a cycle is recorded once, though its own radar and the
\* supervisors of others may all try.
CyclesRecordedOnce ==
    [][\A t \in Radars : cycles[t] # "none" => cycles'[t] = cycles[t]]_campvars
=============================================================================
