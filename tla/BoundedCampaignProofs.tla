----------------------- MODULE BoundedCampaignProofs -----------------------
(***************************************************************************)
(* For any number of radars, payers and healthy cycles to resume after:    *)
(* the types, that the row never names a cycle and a paid operation at     *)
(* once, that a cycle is recorded once, that under the cycle mutex only an *)
(* operator ends a hard halt, and, mutex or not, that the watermark moves  *)
(* over no spending that the row cannot answer for.                        *)
(***************************************************************************)
EXTENDS BoundedCampaign, TLAPS

LEMMA NewRowIsARow == NewRow \in Row
  BY CampaignConstants DEF NewRow, Row

\* Each field a step sets keeps a row a row.
LEMMA Fields ==
  ASSUME NEW s \in Row
  PROVE  /\ \A v \in {"early", "research"} : [s EXCEPT !.phase = v] \in Row
         /\ \A v \in {"running", "soft_paused", "hard_halted"} : [s EXCEPT !.status = v] \in Row
         /\ \A v \in 0 .. ResumeAfter - 1 : [s EXCEPT !.streak = v] \in Row
         /\ \A v \in Radars \cup {Nobody} : [s EXCEPT !.cycle = v] \in Row
         /\ \A v \in Radars \cup {Nobody} : [s EXCEPT !.captured = v] \in Row
         /\ \A v \in Payers \cup {Nobody} : [s EXCEPT !.lease = v] \in Row
         /\ \A v \in Payers \cup {Nobody} : [s EXCEPT !.last = v] \in Row
         /\ \A v \in Payers \cup {Nobody} : [s EXCEPT !.markLast = v] \in Row
         /\ \A v \in SUBSET Payers : [s EXCEPT !.markSpent = v] \in Row
         /\ [s EXCEPT !.marked = TRUE] \in Row
  <1>1. \A v \in {"early", "research"} : [s EXCEPT !.phase = v] \in Row
    BY DEF Row
  <1>2. \A v \in {"running", "soft_paused", "hard_halted"} : [s EXCEPT !.status = v] \in Row
    BY DEF Row
  <1>3. \A v \in 0 .. ResumeAfter - 1 : [s EXCEPT !.streak = v] \in Row
    BY DEF Row
  <1>4. \A v \in Radars \cup {Nobody} : [s EXCEPT !.cycle = v] \in Row
    BY DEF Row
  <1>5. \A v \in Radars \cup {Nobody} : [s EXCEPT !.captured = v] \in Row
    BY DEF Row
  <1>6. \A v \in Payers \cup {Nobody} : [s EXCEPT !.lease = v] \in Row
    BY DEF Row
  <1>7. \A v \in Payers \cup {Nobody} : [s EXCEPT !.last = v] \in Row
    BY DEF Row
  <1>8. \A v \in Payers \cup {Nobody} : [s EXCEPT !.markLast = v] \in Row
    BY DEF Row
  <1>9. \A v \in SUBSET Payers : [s EXCEPT !.markSpent = v] \in Row
    BY DEF Row
  <1>10. [s EXCEPT !.marked = TRUE] \in Row
    BY DEF Row
  <1> QED
    BY <1>1, <1>2, <1>3, <1>4, <1>5, <1>6, <1>7, <1>8, <1>9, <1>10

LEMMA NoStreak == 0 \in 0 .. ResumeAfter - 1
  BY CampaignConstants

LEMMA HaltedIsARow == ASSUME NEW s \in Row PROVE Halted(s) \in Row
  <1>1. [s EXCEPT !.status = "hard_halted"] \in Row
    BY Fields
  <1> QED
    BY <1>1, Fields, NoStreak DEF Halted

\* The evaluation of a cycle counts the healthy probes below the limit.
LEMMA AfterIsARow ==
  ASSUME row \in Row, spent \subseteq Payers, NEW t \in Radars,
         NEW h \in AnyHealth, NEW phase \in {row.phase, "research"}
  PROVE  /\ After(t, h, phase) \in Row
         /\ After(t, h, phase).cycle = Nobody
         /\ row.status = "hard_halted" => After(t, h, phase).status = "hard_halted"
  <1> DEFINE status == IF row.status = "hard_halted" \/ h = "hard_halted" THEN "hard_halted"
                       ELSE IF h = "healthy" /\ (row.status = "running" \/ Resumes) THEN "running"
                       ELSE "soft_paused"
             streak == IF row.status = "hard_halted" THEN row.streak
                       ELSE IF status = "soft_paused" /\ h = "healthy" THEN row.streak + 1 ELSE 0
             next == IF row.status = "running" /\ status = "running" THEN phase ELSE row.phase
  <1>1. row.status \in {"running", "soft_paused", "hard_halted"} /\ row.streak \in 0 .. ResumeAfter - 1
        /\ row.phase \in {"early", "research"} /\ row.last \in Payers \cup {Nobody}
    BY DEF Row
  <1>2. status \in {"running", "soft_paused", "hard_halted"}
        /\ (row.status = "hard_halted" => status = "hard_halted")
    BY <1>1
  <1>3. status = "soft_paused" /\ h = "healthy" => row.status = "soft_paused" /\ ~Resumes
    BY <1>1
  <1>4. streak \in 0 .. ResumeAfter - 1
    <2>1. CASE status = "soft_paused" /\ h = "healthy"
      BY <1>1, <1>3, <2>1, CampaignConstants DEF Resumes
    <2>2. CASE ~(status = "soft_paused" /\ h = "healthy")
      <3> HIDE DEF status
      <3> QED
        BY <1>1, <2>2, CampaignConstants
    <2> QED
      BY <2>1, <2>2
  <1>5. next \in {"early", "research"}
    BY <1>1
  <1>6. After(t, h, phase) =
          [row EXCEPT !.status = status, !.streak = streak, !.phase = next,
                      !.cycle = Nobody, !.marked = TRUE, !.captured = t,
                      !.markSpent = spent, !.markLast = row.last]
    BY DEF After
  <1> HIDE DEF status, streak, next
  <1>7. [row EXCEPT !.status = status, !.streak = streak] \in Row
    <2>1. [row EXCEPT !.status = status] \in Row
      BY <1>2, Fields
    <2> QED
      BY <1>4, <2>1, Fields
  <1>8. [row EXCEPT !.status = status, !.streak = streak, !.phase = next,
                    !.cycle = Nobody] \in Row
    <2>1. [row EXCEPT !.status = status, !.streak = streak, !.phase = next] \in Row
      BY <1>5, <1>7, Fields
    <2> QED
      BY <2>1, Fields
  <1>9. [row EXCEPT !.status = status, !.streak = streak, !.phase = next,
                    !.cycle = Nobody, !.marked = TRUE, !.captured = t] \in Row
    <2>1. [row EXCEPT !.status = status, !.streak = streak, !.phase = next,
                      !.cycle = Nobody, !.marked = TRUE] \in Row
      BY <1>8, Fields
    <2> QED
      BY <2>1, Fields
  <1>10. After(t, h, phase) \in Row
    <2>1. [row EXCEPT !.status = status, !.streak = streak, !.phase = next,
                      !.cycle = Nobody, !.marked = TRUE, !.captured = t,
                      !.markSpent = spent] \in Row
      BY <1>9, Fields
    <2> DEFINE new == [row EXCEPT !.status = status, !.streak = streak, !.phase = next,
                                  !.cycle = Nobody, !.marked = TRUE, !.captured = t,
                                  !.markSpent = spent]
    <2>2. After(t, h, phase) = [new EXCEPT !.markLast = row.last]
      BY <1>6
    <2> HIDE DEF new
    <2>3. new \in Row
      BY <2>1 DEF new
    <2> QED
      BY <1>1, <2>2, <2>3, Fields
  <1>11. After(t, h, phase).cycle = Nobody /\ After(t, h, phase).status = status
    BY <1>6 DEF Row
  <1> QED
    BY <1>2, <1>10, <1>11

-----------------------------------------------------------------------------
(* The steps, by what they write.                                          *)

\* A step that writes the row: one that writes a radar's or the operator's copy
\* back, halts, claims, leases, releases, or records a cycle.
RowStep(new) ==
  \/ new = row
  \/ \E r \in Radars : At(r, "writing") /\ new = radar[r].copy
  \/ new = operator /\ operator # NewRow /\ operator' = NewRow
  \/ new = Halted(row)
  \/ \E r \in Radars : row.lease = Nobody /\ new = [row EXCEPT !.cycle = r]
  \/ new = [row EXCEPT !.cycle = Nobody]
  \/ \E q \in Payers : row.cycle = Nobody /\ new = [row EXCEPT !.lease = q]
  \/ \E q \in Payers : new = [row EXCEPT !.lease = Nobody, !.last = q]
  \/ \E t \in Radars, h \in AnyHealth, phase \in {row.phase, "research"} :
       new = After(t, h, phase)

LEMMA RecordTokenSteps ==
  ASSUME NEW t \in Radars, NEW healths \in SUBSET AnyHealth, RecordToken(t, healths)
  PROVE  RowStep(row')
  BY DEF RecordToken, RowStep, Write

LEMMA EveryStepIsARowStep ==
  ASSUME [CampaignNext]_campvars
  PROVE  RowStep(row')
  <1>1. CASE UNCHANGED row
    BY <1>1 DEF RowStep
  <1>2. ASSUME NEW r \in Radars, PersistCopy(r) \/ ClaimCycle(r) PROVE RowStep(row')
    BY <1>2 DEF PersistCopy, ClaimCycle, RowStep, Write
  <1>3. ASSUME NEW r \in Radars, Record(r) \/ RecordInflightFailure(r) PROVE RowStep(row')
    <2>1. FailedHealth \in SUBSET AnyHealth /\ AnyHealth \in SUBSET AnyHealth
      BY DEF FailedHealth, AnyHealth
    <2> QED
      BY <1>1, <1>3, <2>1, RecordTokenSteps DEF Record, RecordInflightFailure
  <1>4. ASSUME NEW q \in Payers, ClaimLease(q) \/ Release(q) PROVE RowStep(row')
    BY <1>4 DEF ClaimLease, Release, LeaseIsOpen, RowStep, Write
  <1>5. CASE EndReset
    BY <1>5 DEF EndReset, RowStep, Write
  <1> QED
    BY <1>1, <1>2, <1>3, <1>4, <1>5
       DEF CampaignNext, campvars, Load, Check, Fail, Abandon, Start, Deny, OpenClaim,
           CallModel, KillPayer, SpendElsewhere, Expire, BeginReset

\* A step that gives a radar a new copy: the row when it loads, and its own copy
\* with another status when it is checked.
CopyStep(r, new) ==
  \/ new \in {radar[r].copy, NewRow}
  \/ At(r, "idle") /\ MayStart /\ new = row
  \/ At(r, "loaded") /\ new = Halted(radar[r].copy)
  \/ At(r, "loaded") /\ new = [radar[r].copy EXCEPT !.status = "soft_paused", !.streak = 0]

Radared == radar \in [Radars -> [step : RadarSteps, copy : Row, base : SUBSET Payers]]

LEMMA DropTyped ==
  ASSUME Radared, NEW r \in Radars, NEW step \in RadarSteps, NEW base \in SUBSET Payers,
         Drop(r, step, base)
  PROVE  Radared'
  BY NewRowIsARow DEF Radared, Drop

LEMMA GotoTyped ==
  ASSUME Radared, NEW r \in Radars, NEW step \in RadarSteps, Goto(r, step)
  PROVE  Radared'
  BY DEF Radared, Goto

LEMMA RadarStaysTyped ==
  ASSUME Radared, row \in Row, spent \subseteq Payers, [CampaignNext]_campvars
  PROVE  Radared'
  <1>1. CASE UNCHANGED radar
    BY <1>1 DEF Radared
  <1>2. ASSUME NEW r \in Radars, Load(r) PROVE Radared'
    BY <1>2 DEF Load, Radared, RadarSteps
  <1>3. ASSUME NEW r \in Radars, Check(r) PROVE Radared'
    <2>1. radar[r].copy \in Row
      BY DEF Radared
    <2>2. Halted(radar[r].copy) \in Row
      BY <2>1, HaltedIsARow
    <2>3. [radar[r].copy EXCEPT !.status = "soft_paused", !.streak = 0] \in Row
      <3> DEFINE s == [radar[r].copy EXCEPT !.status = "soft_paused"]
      <3>1. s \in Row
        BY <2>1, Fields
      <3> HIDE DEF s
      <3>2. [s EXCEPT !.streak = 0] \in Row
        BY <3>1, Fields, NoStreak
      <3> QED
        BY <3>2 DEF s
    <2>4. \E step \in {"claiming", "writing"}, copy \in Row :
            radar' = [radar EXCEPT ![r] = [step |-> step, copy |-> copy, base |-> spent]]
      BY <1>3, <2>1, <2>2, <2>3 DEF Check
    <2> QED
      BY <2>4 DEF Radared, RadarSteps
  <1>4. ASSUME NEW r \in Radars, PersistCopy(r) PROVE Radared'
    BY <1>4, GotoTyped DEF PersistCopy, RadarSteps
  <1>5. ASSUME NEW r \in Radars, ClaimCycle(r) PROVE Radared'
    <2>1. radar[r].base \in SUBSET Payers
      BY DEF Radared
    <2> QED
      BY <1>5, <2>1, DropTyped DEF ClaimCycle, RadarSteps
  <1>6. ASSUME NEW r \in Radars, Fail(r) PROVE Radared'
    <2>1. radar[r].base \in SUBSET Payers
      BY DEF Radared
    <2> QED
      BY <1>6, <2>1, DropTyped DEF Fail, RadarSteps
  <1>7. ASSUME NEW r \in Radars, Record(r) \/ RecordInflightFailure(r) \/ Abandon(r)
        PROVE  Radared'
    BY <1>7, GotoTyped DEF Record, RecordInflightFailure, Abandon, RadarSteps
  <1> QED
    BY <1>1, <1>2, <1>3, <1>4, <1>5, <1>6, <1>7
       DEF CampaignNext, campvars, Start, ClaimLease, Deny, OpenClaim, CallModel, Release,
           KillPayer, SpendElsewhere, Expire, BeginReset, EndReset

LEMMA RowsStayTyped ==
  ASSUME Radared, row \in Row, operator \in Row, spent \subseteq Payers,
         [CampaignNext]_campvars
  PROVE  row' \in Row /\ operator' \in Row
  <1>1. row' \in Row
    <2>1. RowStep(row')
      BY EveryStepIsARowStep
    <2>2. \A r \in Radars : radar[r].copy \in Row
      BY DEF Radared
    <2>3. ASSUME NEW q \in Payers PROVE [row EXCEPT !.lease = Nobody, !.last = q] \in Row
      <3> DEFINE s == [row EXCEPT !.lease = Nobody]
      <3>1. s \in Row
        BY Fields
      <3> HIDE DEF s
      <3>2. [s EXCEPT !.last = q] \in Row
        BY <3>1, Fields
      <3> QED
        BY <3>2 DEF s
    <2>4. Halted(row) \in Row
      BY HaltedIsARow
    <2>5. \A r \in Radars \cup {Nobody} : [row EXCEPT !.cycle = r] \in Row
      BY Fields
    <2>6. \A q \in Payers : [row EXCEPT !.lease = q] \in Row
      BY Fields
    <2>7. \A t \in Radars, h \in AnyHealth, phase \in {row.phase, "research"} :
            After(t, h, phase) \in Row
      BY AfterIsARow
    <2> QED
      BY <2>1, <2>2, <2>3, <2>4, <2>5, <2>6, <2>7 DEF RowStep
  <1>2. operator' \in Row
    <2>1. CASE UNCHANGED operator
      BY <2>1
    <2>2. CASE BeginReset
      <3> DEFINE a == [row EXCEPT !.cycle = Nobody]
                 b == [a EXCEPT !.lease = Nobody]
                 c == [b EXCEPT !.status = "soft_paused"]
      <3>1. a \in Row
        BY Fields
      <3> HIDE DEF a
      <3>2. b \in Row
        BY <3>1, Fields
      <3> HIDE DEF b
      <3>3. c \in Row
        BY <3>2, Fields
      <3> HIDE DEF c
      <3>4. [c EXCEPT !.streak = 0] \in Row
        BY <3>3, Fields, NoStreak
      <3> QED
        BY <2>2, <3>4 DEF BeginReset, a, b, c
    <2>3. CASE EndReset
      BY <2>3, NewRowIsARow DEF EndReset
    <2> QED
      BY <2>1, <2>2, <2>3
         DEF CampaignNext, campvars, Load, Check, PersistCopy, ClaimCycle, Record, Fail,
             RecordInflightFailure, Abandon, Start, ClaimLease, Deny, OpenClaim, CallModel,
             Release, KillPayer, SpendElsewhere, Expire
  <1> QED
    BY <1>1, <1>2

LEMMA HealthIsAHealth ==
  ASSUME NEW h \in AnyHealth, NEW new
  PROVE  HealthStatus(h, new) \in Healths
  BY DEF HealthStatus, AnyHealth, Healths

LEMMA RecordsTyped ==
  ASSUME NEW t \in Radars, NEW healths \in SUBSET AnyHealth, RecordToken(t, healths),
         cycles \in [Radars -> Healths \cup {"none"}], latest \in Healths \cup {"none"},
         moved \subseteq Radars
  PROVE  /\ cycles' \in [Radars -> Healths \cup {"none"}]
         /\ latest' \in Healths \cup {"none"} /\ moved' \subseteq Radars
  <1>1. CASE UNCHANGED <<cycles, latest>> /\ UNCHANGED moved
    BY <1>1
  <1>2. ASSUME NEW new, Write(new, {}) PROVE moved' \subseteq Radars
    BY <1>2 DEF Write
  <1>3. CASE UNCHANGED <<cycles, latest>> /\ Write([row EXCEPT !.cycle = Nobody], {})
    BY <1>2, <1>3
  <1>4. ASSUME NEW h \in AnyHealth, NEW phase,
               Write(After(t, h, phase), {}),
               cycles' = [cycles EXCEPT ![t] = HealthStatus(h, After(t, h, phase))],
               latest' = HealthStatus(h, After(t, h, phase))
        PROVE  /\ cycles' \in [Radars -> Healths \cup {"none"}]
               /\ latest' \in Healths \cup {"none"} /\ moved' \subseteq Radars
    BY <1>2, <1>4, HealthIsAHealth
  <1> QED
    BY <1>1, <1>3, <1>4 DEF RecordToken

\* The tables, the files and the payers.
OthersTyped ==
  /\ supervised \in BOOLEAN /\ claimed \in BOOLEAN
  /\ cycles \in [Radars -> Healths \cup {"none"}] /\ latest \in Healths \cup {"none"}
  /\ spent \subseteq Payers /\ late \subseteq Radars \cup Payers
  /\ moved \subseteq Radars
  /\ payer \in [Payers -> Payer]

\* A payer may be given any step, result and set of cycles seen.
LEMMA PayersTyped ==
  ASSUME payer \in [Payers -> Payer], NEW q \in Payers, NEW step \in PayerSteps,
         NEW why \in Results, NEW seen \in SUBSET Radars
  PROVE  /\ [payer EXCEPT ![q].step = step] \in [Payers -> Payer]
         /\ [payer EXCEPT ![q].step = step, ![q].result = why] \in [Payers -> Payer]
         /\ [payer EXCEPT ![q].step = step, ![q].seen = seen] \in [Payers -> Payer]
  <1>1. /\ [payer[q] EXCEPT !.step = step] \in Payer
        /\ [payer[q] EXCEPT !.step = step, !.result = why] \in Payer
        /\ [payer[q] EXCEPT !.step = step, !.seen = seen] \in Payer
    BY DEF Payer
  <1>2. /\ [payer EXCEPT ![q].step = step] = [payer EXCEPT ![q] = [payer[q] EXCEPT !.step = step]]
        /\ [payer EXCEPT ![q].step = step, ![q].result = why]
             = [payer EXCEPT ![q] = [payer[q] EXCEPT !.step = step, !.result = why]]
        /\ [payer EXCEPT ![q].step = step, ![q].seen = seen]
             = [payer EXCEPT ![q] = [payer[q] EXCEPT !.step = step, !.seen = seen]]
    OBVIOUS
  <1> QED
    BY <1>1, <1>2

LEMMA OthersStayTyped ==
  ASSUME OthersTyped, row \in Row, [CampaignNext]_campvars
  PROVE  OthersTyped'
  <1> USE DEF OthersTyped
  <1>0. UNCHANGED supervised
    BY DEF CampaignNext, campvars, Load, Check, PersistCopy, ClaimCycle, Record, Fail,
           RecordInflightFailure, Abandon, Start, ClaimLease, Deny, OpenClaim, CallModel,
           Release, KillPayer, SpendElsewhere, Expire, BeginReset, EndReset
  <1>1. CASE UNCHANGED <<claimed, cycles, latest, spent, late, payer>> /\ moved' \subseteq Radars
    BY <1>0, <1>1
  <1>2. ASSUME NEW new, NEW writers, Write(new, writers) PROVE moved' \subseteq Radars
    BY <1>2 DEF Write
  <1>3. ASSUME NEW r \in Radars,
               Load(r) \/ Check(r) \/ PersistCopy(r) \/ ClaimCycle(r) \/ Fail(r) \/ Abandon(r)
        PROVE  OthersTyped'
    <2>1. moved' \subseteq Radars
      BY <1>2, <1>3 DEF Load, Check, PersistCopy, ClaimCycle, Fail, Abandon
    <2>2. UNCHANGED <<claimed, cycles, latest, spent, late, payer>>
      BY <1>3 DEF Load, Check, PersistCopy, ClaimCycle, Fail, Abandon
    <2> QED
      BY <1>1, <2>1, <2>2
  <1>4. ASSUME NEW r \in Radars, Record(r) \/ RecordInflightFailure(r)
        PROVE  OthersTyped'
    <2>1. FailedHealth \in SUBSET AnyHealth /\ AnyHealth \in SUBSET AnyHealth
      BY DEF FailedHealth, AnyHealth
    <2>2. UNCHANGED <<claimed, spent, late, payer>>
      BY <1>4 DEF Record, RecordInflightFailure
    <2>3. CASE UNCHANGED <<moved, cycles, latest>>
      BY <1>1, <2>2, <2>3
    <2>4. ASSUME NEW t \in Radars, NEW healths \in SUBSET AnyHealth, RecordToken(t, healths)
          PROVE  OthersTyped'
      <3>1. /\ cycles' \in [Radars -> Healths \cup {"none"}]
            /\ latest' \in Healths \cup {"none"} /\ moved' \subseteq Radars
        BY <2>4, RecordsTyped
      <3> QED
        BY <1>0, <2>2, <3>1
    <2> QED
      BY <1>4, <2>1, <2>3, <2>4 DEF Record, RecordInflightFailure
  <1>5. ASSUME NEW q \in Payers, NEW step \in PayerSteps, Pay(q, step)
        PROVE  payer' \in [Payers -> Payer]
    BY <1>5, PayersTyped, "unknown" \in Results DEF Pay, Results
  <1>6. ASSUME NEW q \in Payers,
               Start(q) \/ Deny(q) \/ OpenClaim(q) \/ CallModel(q) \/ SpendElsewhere(q)
                 \/ KillPayer(q)
        PROVE  OthersTyped'
    <2>1. payer' \in [Payers -> Payer]
      <3>1. CASE Start(q) \/ SpendElsewhere(q)
        BY <1>5, <3>1, {"starting", "over"} \subseteq PayerSteps
           DEF Start, SpendElsewhere, PayerSteps
      <3>2. CASE Deny(q)
        <4>1. PICK why \in Results :
                payer' = [payer EXCEPT ![q].step = "releasing", ![q].result = why]
          BY <3>2 DEF Deny, Results
        <4> QED
          BY <4>1, PayersTyped, "releasing" \in PayerSteps DEF PayerSteps
      <3>3. CASE OpenClaim(q)
        <4>1. {"releasing", "calling"} \subseteq PayerSteps /\ "gate" \in Results
          BY DEF PayerSteps, Results
        <4> QED
          BY <3>3, <4>1, PayersTyped DEF OpenClaim
      <3>4. CASE CallModel(q)
        <4>1. PICK why \in Results :
                payer' = [payer EXCEPT ![q].step = "releasing", ![q].result = why]
          BY <3>4 DEF CallModel, Results
        <4> QED
          BY <4>1, PayersTyped, "releasing" \in PayerSteps DEF PayerSteps
      <3>5. CASE KillPayer(q)
        <4>1. "over" \in PayerSteps /\ "unknown" \in Results
          BY DEF PayerSteps, Results
        <4>2. payer' = [payer EXCEPT ![q].step = "over", ![q].result = "unknown"]
          BY <3>5 DEF KillPayer
        <4> QED
          BY <4>1, <4>2, PayersTyped
      <3> QED
        BY <1>6, <3>1, <3>2, <3>3, <3>4, <3>5
    <2>2. /\ UNCHANGED <<cycles, latest, late, moved>> /\ claimed' \in BOOLEAN
          /\ spent' \subseteq Payers
      BY <1>6 DEF Start, Deny, OpenClaim, CallModel, SpendElsewhere, KillPayer
    <2> QED
      BY <1>0, <2>1, <2>2
  <1>7. ASSUME NEW q \in Payers, ClaimLease(q) \/ Release(q) PROVE OthersTyped'
    <2>1. payer' \in [Payers -> Payer]
      <3>1. CASE Pay(q, "over")
        BY <1>5, <3>1, "over" \in PayerSteps DEF PayerSteps
      <3>2. CASE payer' = [payer EXCEPT ![q].step = "leased",
                                        ![q].seen = {r \in Radars : cycles[r] # "none"}]
        <4>1. {r \in Radars : cycles[r] # "none"} \in SUBSET Radars
          OBVIOUS
        <4>2. "leased" \in PayerSteps /\ "unknown" \in Results
          BY DEF PayerSteps, Results
        <4> QED
          BY <3>2, <4>1, <4>2, PayersTyped
      <3> QED
        BY <1>7, <3>1, <3>2 DEF ClaimLease, Release
    <2>2. moved' \subseteq Radars /\ UNCHANGED <<cycles, latest, spent, claimed, late>>
      BY <1>2, <1>7 DEF ClaimLease, Release
    <2> QED
      BY <1>0, <2>1, <2>2
  <1>8. ASSUME NEW p \in Radars \cup Payers, Expire(p) PROVE OthersTyped'
    BY <1>0, <1>8 DEF Expire
  <1>9. CASE BeginReset \/ EndReset
    <2>1. moved' \subseteq Radars /\ UNCHANGED <<claimed, cycles, latest, spent, late, payer>>
      BY <1>2, <1>9 DEF BeginReset, EndReset
    <2> QED
      BY <1>1, <2>1
  <1> QED
    BY <1>1, <1>3, <1>4, <1>6, <1>7, <1>8, <1>9 DEF CampaignNext, campvars

Typed == Radared /\ row \in Row /\ operator \in Row /\ OthersTyped

LEMMA AlwaysTyped == CampaignSpec => []Typed
  <1>1. CampaignInit => Typed
    <2> SUFFICES ASSUME CampaignInit PROVE Typed
      OBVIOUS
    <2>1. row \in Row
      <3> DEFINE s == [NewRow EXCEPT !.phase = "research"]
      <3>1. s \in Row
        BY NewRowIsARow, Fields
      <3> HIDE DEF s
      <3>2. [s EXCEPT !.marked = TRUE] \in Row
        BY <3>1, Fields
      <3> QED
        BY <3>2, NewRowIsARow DEF CampaignInit, s
    <2>2. Radared /\ operator \in Row
      BY NewRowIsARow DEF CampaignInit, Radared, RadarSteps
    <2>3. OthersTyped
      BY DEF CampaignInit, OthersTyped, Payer, PayerSteps, Results, Healths
    <2> QED
      BY <2>1, <2>2, <2>3 DEF Typed
  <1>2. Typed /\ [CampaignNext]_campvars => Typed'
    <2> SUFFICES ASSUME Typed, [CampaignNext]_campvars PROVE Typed'
      OBVIOUS
    <2>1. Radared /\ row \in Row /\ operator \in Row /\ OthersTyped /\ spent \subseteq Payers
      BY DEF Typed, OthersTyped
    <2> QED
      BY <2>1, RadarStaysTyped, RowsStayTyped, OthersStayTyped DEF Typed
  <1> QED
    BY <1>1, <1>2, PTL DEF CampaignSpec

\* The row, every copy of it and every process stay in their ranges, so a paused
\* campaign never counts more healthy probes than it needs, for any number of
\* processes that write stale copies back.
THEOREM CampaignTypeCorrect == CampaignSpec => []CampaignTypeOK
  <1>1. Typed => CampaignTypeOK
    BY DEF Typed, Radared, OthersTyped, CampaignTypeOK, Radar
  <1> QED
    BY <1>1, AlwaysTyped, PTL

-----------------------------------------------------------------------------
\* A cycle's result, once it is there, is in nobody's way: the token is dropped.
THEOREM CyclesAreRecordedOnce == CampaignSpec => CyclesRecordedOnce
  <1>1. Typed /\ [CampaignNext]_campvars =>
          [\A t \in Radars : cycles[t] # "none" => cycles'[t] = cycles[t]]_campvars
    <2> SUFFICES ASSUME Typed, [CampaignNext]_campvars,
                        NEW t \in Radars, cycles[t] # "none"
                 PROVE  cycles'[t] = cycles[t]
      OBVIOUS
    <2>1. CASE UNCHANGED cycles
      BY <2>1
    <2>2. ASSUME NEW u \in Radars, NEW healths, RecordToken(u, healths)
          PROVE  cycles'[t] = cycles[t]
      <3>1. CASE cycles[u] # "none"
        BY <2>2, <3>1 DEF RecordToken
      <3>2. CASE cycles[u] = "none"
        BY <2>2, <3>2 DEF RecordToken, Typed, OthersTyped
      <3> QED
        BY <3>1, <3>2
    <2>3. ASSUME NEW r \in Radars, Record(r) \/ RecordInflightFailure(r)
          PROVE  cycles'[t] = cycles[t]
      BY <2>1, <2>2, <2>3 DEF Record, RecordInflightFailure
    <2> QED
      BY <2>1, <2>3
         DEF CampaignNext, campvars, Load, Check, PersistCopy, ClaimCycle, Fail, Abandon,
             Start, ClaimLease, Deny, OpenClaim, CallModel, Release, KillPayer,
             SpendElsewhere, Expire, BeginReset, EndReset
  <1> QED
    BY <1>1, AlwaysTyped, PTL DEF CampaignSpec, CyclesRecordedOnce

-----------------------------------------------------------------------------
\* A row that does not name a cycle and a paid operation at once.
Single(s) == s.cycle = Nobody \/ s.lease = Nobody

\* What is written back is single as well: a copy differs from the row it was
\* loaded from in its status only, and the operator's names nothing.
AllSingle == Single(row) /\ Single(operator) /\ \A r \in Radars : Single(radar[r].copy)

LEMMA SingleFields ==
  ASSUME NEW s \in Row, Single(s)
  PROVE  /\ Single(Halted(s))
         /\ Single([s EXCEPT !.status = "soft_paused", !.streak = 0])
         /\ \A r \in Radars : s.lease = Nobody => Single([s EXCEPT !.cycle = r])
         /\ \A q \in Payers : s.cycle = Nobody => Single([s EXCEPT !.lease = q])
         /\ Single([s EXCEPT !.cycle = Nobody])
         /\ \A q \in Payers : Single([s EXCEPT !.lease = Nobody, !.last = q])
         /\ Single([s EXCEPT !.cycle = Nobody, !.lease = Nobody,
                             !.status = "soft_paused", !.streak = 0])
  <1>1. Single(Halted(s)) /\ Single([s EXCEPT !.status = "soft_paused", !.streak = 0])
    BY DEF Row, Single, Halted
  <1>2. /\ \A r \in Radars : s.lease = Nobody => Single([s EXCEPT !.cycle = r])
        /\ \A q \in Payers : s.cycle = Nobody => Single([s EXCEPT !.lease = q])
        /\ Single([s EXCEPT !.cycle = Nobody])
    BY DEF Row, Single
  <1>3. /\ \A q \in Payers : Single([s EXCEPT !.lease = Nobody, !.last = q])
        /\ Single([s EXCEPT !.cycle = Nobody, !.lease = Nobody,
                            !.status = "soft_paused", !.streak = 0])
    BY DEF Row, Single
  <1> QED
    BY <1>1, <1>2, <1>3

\* A radar's copy after a step.
LEMMA EveryCopySteps ==
  ASSUME Radared, [CampaignNext]_campvars, NEW r \in Radars
  PROVE  CopyStep(r, radar'[r].copy)
  <1>1. CASE UNCHANGED radar
    BY <1>1 DEF CopyStep
  <1>2. ASSUME NEW s \in Radars, NEW step, Goto(s, step) PROVE radar'[r].copy = radar[r].copy
    BY <1>2 DEF Goto, Radared
  <1>3. ASSUME NEW s \in Radars, NEW step, NEW base, Drop(s, step, base)
        PROVE  radar'[r].copy \in {radar[r].copy, NewRow}
    BY <1>3 DEF Drop, Radared
  <1>4. ASSUME NEW s \in Radars, Load(s) PROVE CopyStep(r, radar'[r].copy)
    BY <1>4 DEF Load, CopyStep, Radared
  <1>5. ASSUME NEW s \in Radars, Check(s) PROVE CopyStep(r, radar'[r].copy)
    <2>1. \E step \in {"claiming", "writing"} :
            \E copy \in {radar[s].copy, Halted(radar[s].copy),
                         [radar[s].copy EXCEPT !.status = "soft_paused", !.streak = 0]} :
              radar' = [radar EXCEPT ![s] = [step |-> step, copy |-> copy, base |-> spent]]
      BY <1>5 DEF Check
    <2>2. At(s, "loaded")
      BY <1>5 DEF Check
    <2>3. CASE r = s
      <3>1. radar'[r].copy \in {radar[r].copy, Halted(radar[r].copy),
                         [radar[r].copy EXCEPT !.status = "soft_paused", !.streak = 0]}
        BY <2>1, <2>3 DEF Radared
      <3> QED
        BY <2>2, <2>3, <3>1 DEF CopyStep
    <2>4. CASE r # s
      <3>1. radar'[r] = radar[r]
        BY <2>1, <2>4 DEF Radared
      <3> QED
        BY <3>1 DEF CopyStep
    <2> QED
      BY <2>3, <2>4
  <1>6. ASSUME NEW s \in Radars,
               PersistCopy(s) \/ ClaimCycle(s) \/ Record(s) \/ Fail(s)
                 \/ RecordInflightFailure(s) \/ Abandon(s)
        PROVE  CopyStep(r, radar'[r].copy)
    BY <1>2, <1>3, <1>6
       DEF PersistCopy, ClaimCycle, Record, Fail, RecordInflightFailure, Abandon, CopyStep
  <1> QED
    BY <1>1, <1>4, <1>5, <1>6
       DEF CampaignNext, campvars, Start, ClaimLease, Deny, OpenClaim, CallModel, Release,
           KillPayer, SpendElsewhere, Expire, BeginReset, EndReset

LEMMA SingleStays ==
  ASSUME Typed, AllSingle, [CampaignNext]_campvars
  PROVE  AllSingle'
  <1>1. /\ Radared /\ row \in Row /\ operator \in Row /\ spent \subseteq Payers
        /\ \A r \in Radars : radar[r].copy \in Row
    BY DEF Typed, OthersTyped, Radared
  <1>2. Single(NewRow)
    BY DEF Single, NewRow
  <1>3. Single(row')
    <2>1. RowStep(row')
      BY EveryStepIsARowStep
    <2>2. \A t \in Radars, h \in AnyHealth, phase \in {row.phase, "research"} :
            Single(After(t, h, phase))
      BY <1>1, AfterIsARow DEF Single
    <2>3. /\ Single(Halted(row))
          /\ \A r \in Radars : row.lease = Nobody => Single([row EXCEPT !.cycle = r])
          /\ \A q \in Payers : row.cycle = Nobody => Single([row EXCEPT !.lease = q])
          /\ Single([row EXCEPT !.cycle = Nobody])
          /\ \A q \in Payers : Single([row EXCEPT !.lease = Nobody, !.last = q])
      BY <1>1, SingleFields DEF AllSingle
    <2> QED
      BY <2>1, <2>2, <2>3 DEF RowStep, AllSingle
  <1>4. Single(operator')
    <2>1. CASE UNCHANGED operator
      BY <2>1 DEF AllSingle
    <2>2. CASE BeginReset
      <3>1. Single([row EXCEPT !.cycle = Nobody, !.lease = Nobody,
                               !.status = "soft_paused", !.streak = 0])
        BY <1>1, SingleFields DEF AllSingle
      <3> QED
        BY <2>2, <3>1 DEF BeginReset
    <2>3. CASE EndReset
      BY <1>2, <2>3 DEF EndReset
    <2> QED
      BY <2>1, <2>2, <2>3
         DEF CampaignNext, campvars, Load, Check, PersistCopy, ClaimCycle, Record, Fail,
             RecordInflightFailure, Abandon, Start, ClaimLease, Deny, OpenClaim, CallModel,
             Release, KillPayer, SpendElsewhere, Expire
  <1>5. ASSUME NEW r \in Radars PROVE Single(radar'[r].copy)
    <2>1. CopyStep(r, radar'[r].copy)
      BY <1>1, EveryCopySteps
    <2>2. /\ Single(Halted(radar[r].copy))
          /\ Single([radar[r].copy EXCEPT !.status = "soft_paused", !.streak = 0])
      BY <1>1, SingleFields DEF AllSingle
    <2> QED
      BY <1>2, <2>1, <2>2 DEF CopyStep, AllSingle
  <1> QED
    BY <1>3, <1>4, <1>5 DEF AllSingle

\* The campaign's row never names a cycle and a paid operation at once, for any
\* number of radars and payers, with or without the mutex.
THEOREM OneOperationAtATime == CampaignSpec => []OneOperation
  <1>1. CampaignInit => AllSingle
    <2> SUFFICES ASSUME CampaignInit PROVE AllSingle
      OBVIOUS
    <2>1. Single(NewRow) /\ Single([NewRow EXCEPT !.phase = "research", !.marked = TRUE])
      BY DEF Single, NewRow
    <2> QED
      BY <2>1 DEF CampaignInit, AllSingle
  <1>2. Typed /\ AllSingle /\ [CampaignNext]_campvars => AllSingle'
    BY SingleStays
  <1>3. AllSingle => OneOperation
    BY DEF AllSingle, Single, OneOperation
  <1> QED
    BY <1>1, <1>2, <1>3, AlwaysTyped, PTL DEF CampaignSpec

-----------------------------------------------------------------------------
RadarLives(r) == radar[r].step \notin {"idle", "over"}
PayerLives(q) == payer[q].step \notin {"idle", "over"}

\* The mutex: one process at a time.
OneAlive ==
  /\ \A r, s \in Radars : RadarLives(r) /\ RadarLives(s) => r = s
  /\ \A r \in Radars, q \in Payers : ~(RadarLives(r) /\ PayerLives(q))

\* A radar that may still write its copy back does not have a copy from before
\* a halt, and neither has the operator a halted one.
HaltIsSeen ==
  /\ operator.status # "hard_halted"
  /\ \A r \in Radars :
       radar[r].step \in {"loaded", "writing"} /\ radar[r].copy.status # "hard_halted"
         => row.status # "hard_halted"

Guarded == supervised => OneAlive /\ HaltIsSeen

\* Only a start brings a process to life.
LEMMA Births ==
  ASSUME Typed, [CampaignNext]_campvars
  PROVE  \/ /\ \A r \in Radars : RadarLives(r)' => RadarLives(r)
            /\ \A q \in Payers : PayerLives(q)' => PayerLives(q)
         \/ \E r \in Radars : Load(r)
         \/ \E q \in Payers : Start(q)
  <1> USE DEF Typed, Radared, OthersTyped, RadarLives, PayerLives, At, Goto, Drop, Pay
  <1>1. CASE UNCHANGED <<radar, payer>>
    BY <1>1
  <1>2. ASSUME NEW r \in Radars,
               Check(r) \/ PersistCopy(r) \/ ClaimCycle(r) \/ Record(r) \/ Fail(r)
                 \/ RecordInflightFailure(r) \/ Abandon(r)
        PROVE  /\ \A s \in Radars : RadarLives(s)' => RadarLives(s)
               /\ \A q \in Payers : PayerLives(q)' => PayerLives(q)
    <2>1. UNCHANGED payer /\ RadarLives(r)
      BY <1>2 DEF Check, PersistCopy, ClaimCycle, Record, Fail, RecordInflightFailure, Abandon
    <2>2. \A s \in Radars \ {r} : radar'[s] = radar[s]
      BY <1>2 DEF Check, PersistCopy, ClaimCycle, Record, Fail, RecordInflightFailure, Abandon
    <2> QED
      BY <2>1, <2>2
  <1>3. ASSUME NEW q \in Payers,
               ClaimLease(q) \/ Deny(q) \/ OpenClaim(q) \/ CallModel(q) \/ Release(q)
                 \/ KillPayer(q)
        PROVE  /\ \A s \in Radars : RadarLives(s)' => RadarLives(s)
               /\ \A p \in Payers : PayerLives(p)' => PayerLives(p)
    <2>1. UNCHANGED radar /\ PayerLives(q)
      BY <1>3 DEF ClaimLease, Deny, OpenClaim, CallModel, Release, KillPayer
    <2>2. \A p \in Payers \ {q} : payer'[p] = payer[p]
      BY <1>3 DEF ClaimLease, Deny, OpenClaim, CallModel, Release, KillPayer
    <2> QED
      BY <2>1, <2>2
  <1>4. ASSUME NEW q \in Payers, SpendElsewhere(q)
        PROVE  /\ \A s \in Radars : RadarLives(s)' => RadarLives(s)
               /\ \A p \in Payers : PayerLives(p)' => PayerLives(p)
    BY <1>4 DEF SpendElsewhere, Payer
  <1> QED
    BY <1>1, <1>2, <1>3, <1>4 DEF CampaignNext, campvars, Expire, BeginReset, EndReset

LEMMA OneStaysAlive ==
  ASSUME Typed, supervised, OneAlive, [CampaignNext]_campvars
  PROVE  OneAlive'
  <1>1. CASE /\ \A r \in Radars : RadarLives(r)' => RadarLives(r)
             /\ \A q \in Payers : PayerLives(q)' => PayerLives(q)
    BY <1>1 DEF OneAlive
  <1>2. ASSUME NEW r \in Radars, Load(r) PROVE OneAlive'
    <2>1. /\ \A s \in Radars : ~RadarLives(s)
          /\ \A q \in Payers : ~PayerLives(q)
      BY <1>2 DEF Load, MayStart, Alive, RadarLives, PayerLives
    <2>2. UNCHANGED payer /\ \A s \in Radars \ {r} : radar'[s] = radar[s]
      BY <1>2 DEF Load, Typed, Radared
    <2> QED
      BY <2>1, <2>2 DEF OneAlive, RadarLives, PayerLives
  <1>3. ASSUME NEW q \in Payers, Start(q) PROVE OneAlive'
    <2>1. \A s \in Radars : ~RadarLives(s)
      BY <1>3 DEF Start, MayStart, Alive, RadarLives
    <2>2. UNCHANGED radar
      BY <1>3 DEF Start
    <2> QED
      BY <2>1, <2>2 DEF OneAlive, RadarLives
  <1> QED
    BY <1>1, <1>2, <1>3, Births

\* While a radar may still write its copy, nothing but it and the operator
\* touches the row.
LEMMA HaltStaysSeen ==
  ASSUME Typed, supervised, OneAlive, HaltIsSeen, [CampaignNext]_campvars
  PROVE  HaltIsSeen'
  <1>1. operator'.status # "hard_halted"
    <2>1. CASE UNCHANGED operator
      BY <2>1 DEF HaltIsSeen
    <2>2. CASE BeginReset
      BY <2>2 DEF BeginReset, Typed, Row
    <2>3. CASE EndReset
      BY <2>3 DEF EndReset, NewRow
    <2> QED
      BY <2>1, <2>2, <2>3
         DEF CampaignNext, campvars, Load, Check, PersistCopy, ClaimCycle, Record, Fail,
             RecordInflightFailure, Abandon, Start, ClaimLease, Deny, OpenClaim, CallModel,
             Release, KillPayer, SpendElsewhere, Expire
  <1> SUFFICES ASSUME NEW r \in Radars, radar'[r].step \in {"loaded", "writing"},
                      radar'[r].copy.status # "hard_halted"
               PROVE  row'.status # "hard_halted"
    BY <1>1 DEF HaltIsSeen
  <1> USE DEF RadarLives, PayerLives, At
  <1>2. CASE Load(r)
    BY <1>2 DEF Load, Typed, Radared
  <1>3. CASE Check(r)
    <2>1. /\ UNCHANGED row /\ radar[r].step = "loaded"
          /\ radar[r].copy.status = "hard_halted" => radar'[r].step = "claiming"
      BY <1>3 DEF Check, Typed, Radared
    <2> QED
      BY <2>1 DEF HaltIsSeen
  <1>4. CASE PersistCopy(r) \/ ClaimCycle(r) \/ Record(r) \/ Fail(r)
             \/ RecordInflightFailure(r) \/ Abandon(r)
    <2>1. \/ \E step \in {"claiming", "over", "failed"} : Goto(r, step)
          \/ \E step \in {"running", "failed"} : \E base : Drop(r, step, base)
      BY <1>4 DEF PersistCopy, ClaimCycle, Record, Fail, RecordInflightFailure, Abandon
    <2>2. radar'[r].step \in {"claiming", "over", "failed", "running"}
      BY <2>1 DEF Goto, Drop, Typed, Radared
    <2> QED
      BY <2>2
  <1>5. CASE UNCHANGED <<row, radar>>
    BY <1>5 DEF HaltIsSeen
  <1>6. CASE EndReset
    BY <1>6 DEF EndReset, Write, HaltIsSeen
  <1>7. ASSUME NEW s \in Radars, s # r,
               Load(s) \/ Check(s) \/ PersistCopy(s) \/ ClaimCycle(s) \/ Record(s) \/ Fail(s)
                 \/ RecordInflightFailure(s) \/ Abandon(s)
        PROVE  FALSE
    <2>1. radar'[r] = radar[r]
      BY <1>7 DEF Load, Check, PersistCopy, ClaimCycle, Record, Fail, RecordInflightFailure,
                  Abandon, Goto, Drop, Typed, Radared
    <2>2. RadarLives(r)
      BY <2>1
    <2>3. ~Load(s)
      BY <2>2 DEF Load, MayStart, Alive
    <2>4. RadarLives(s)
      BY <1>7, <2>3 DEF Check, PersistCopy, ClaimCycle, Record, Fail, RecordInflightFailure,
                        Abandon
    <2> QED
      BY <1>7, <2>2, <2>4 DEF OneAlive
  <1>8. ASSUME NEW q \in Payers,
               Start(q) \/ ClaimLease(q) \/ Deny(q) \/ OpenClaim(q) \/ CallModel(q)
                 \/ Release(q) \/ KillPayer(q)
        PROVE  FALSE
    <2>1. UNCHANGED radar
      BY <1>8 DEF Start, ClaimLease, Deny, OpenClaim, CallModel, Release, KillPayer
    <2>2. RadarLives(r)
      BY <2>1
    <2>3. ~Start(q)
      BY <2>2 DEF Start, MayStart, Alive
    <2>4. PayerLives(q)
      BY <1>8, <2>3 DEF ClaimLease, Deny, OpenClaim, CallModel, Release, KillPayer
    <2> QED
      BY <2>2, <2>4 DEF OneAlive
  <1> QED
    BY <1>2, <1>3, <1>4, <1>5, <1>6, <1>7, <1>8
       DEF CampaignNext, campvars, SpendElsewhere, Expire, BeginReset

\* Under the cycle mutex nothing but the operator's reset ends a hard halt, for
\* any number of radars and payers: no radar still has a copy from before it.
THEOREM HardHaltIsKept == CampaignSpec => HardHaltStays
  <1>1. CampaignInit => Guarded
    BY DEF CampaignInit, Guarded, OneAlive, HaltIsSeen, RadarLives, PayerLives, NewRow
  <1>2. Typed /\ Guarded /\ [CampaignNext]_campvars => Guarded'
    <2>1. [CampaignNext]_campvars => UNCHANGED supervised
      BY DEF CampaignNext, campvars, Load, Check, PersistCopy, ClaimCycle, Record, Fail,
             RecordInflightFailure, Abandon, Start, ClaimLease, Deny, OpenClaim, CallModel,
             Release, KillPayer, SpendElsewhere, Expire, BeginReset, EndReset
    <2> QED
      BY <2>1, OneStaysAlive, HaltStaysSeen DEF Guarded
  <1>3. Typed /\ Guarded /\ [CampaignNext]_campvars =>
          [supervised /\ row.status = "hard_halted" /\ row'.status # "hard_halted"
             => operator # NewRow /\ operator' = NewRow]_campvars
    <2> SUFFICES ASSUME Typed, Guarded, [CampaignNext]_campvars, supervised,
                        row.status = "hard_halted", row'.status # "hard_halted"
                 PROVE  operator # NewRow /\ operator' = NewRow
      OBVIOUS
    <2>1. RowStep(row')
      BY EveryStepIsARowStep
    <2>2. \A r \in Radars : At(r, "writing") => radar[r].copy.status = "hard_halted"
      BY DEF Guarded, HaltIsSeen, At
    <2>3. \A t \in Radars, h \in AnyHealth, phase \in {row.phase, "research"} :
            After(t, h, phase).status = "hard_halted"
      BY AfterIsARow DEF Typed, OthersTyped
    <2>4. /\ Halted(row).status = "hard_halted"
          /\ \A v : [row EXCEPT !.cycle = v].status = "hard_halted"
          /\ \A v : [row EXCEPT !.lease = v].status = "hard_halted"
          /\ \A v : [row EXCEPT !.lease = Nobody, !.last = v].status = "hard_halted"
      BY DEF Typed, Row, Halted
    <2>5. \A r \in Radars : ~ (At(r, "writing") /\ row' = radar[r].copy)
      BY <2>2
    <2>6. /\ row' # row /\ row' # Halted(row)
          /\ \A v : row' # [row EXCEPT !.cycle = v] /\ row' # [row EXCEPT !.lease = v]
          /\ \A v : row' # [row EXCEPT !.lease = Nobody, !.last = v]
      BY <2>4
    <2>7. \A t \in Radars, h \in AnyHealth, phase \in {row.phase, "research"} :
            row' # After(t, h, phase)
      BY <2>3
    <2> QED
      BY <2>1, <2>5, <2>6, <2>7 DEF RowStep
  <1> QED
    BY <1>1, <1>2, <1>3, AlwaysTyped, PTL DEF CampaignSpec, HardHaltStays

-----------------------------------------------------------------------------
(***************************************************************************)
(* The spending that a cycle's record moves the watermark over.            *)
(***************************************************************************)

\* A radar that has claimed its cycle keeps the baseline of its check.
HasClaimed == {"running", "failed", "over"}

\* The operation that a row names as released last is over.
LastIsOver(s, payers) == s.last # Nobody => payers[s.last].step = "over"

\* What was spent up to the baseline is in the watermark of the row, or is the
\* one call of the operation released last, whose result is known.
Answered(s, base, payers) ==
  s.status # "hard_halted" /\ s.marked =>
    \/ base \subseteq s.markSpent
    \/ base \ s.markSpent = {s.last} /\ payers[s.last].result \in {"completed", "failed"}

\* A row that names a cycle still to be recorded answers for its baseline.
Fits(s, payers, radars, results) ==
  /\ LastIsOver(s, payers)
  /\ \A t \in Radars : s.cycle = t /\ results[t] = "none" =>
       radars[t].step \in HasClaimed /\ Answered(s, radars[t].base, payers)

RowsFit ==
  /\ Fits(row, payer, radar, cycles) /\ Fits(operator, payer, radar, cycles)
  /\ \A r \in Radars : Fits(radar[r].copy, payer, radar, cycles)

\* A copy that passed the check answers for what had been spent by then ...
CopiesAnswer ==
  \A r \in Radars : radar[r].step \in {"writing", "claiming"} =>
    Answered(radar[r].copy, radar[r].base, payer)

\* ... and it is the row as long as nobody else has written that.
CopiesAreTheRow ==
  \A r \in Radars :
    radar[r].step \in {"loaded", "claiming"} /\ r \notin moved => row = radar[r].copy

Answering == AllSingle /\ RowsFit /\ CopiesAnswer /\ CopiesAreTheRow

\* A result, once recorded, stays.
LEMMA ResultsStay ==
  ASSUME Typed, [CampaignNext]_campvars, NEW t \in Radars, cycles'[t] = "none"
  PROVE  cycles[t] = "none"
  <1>1. CASE UNCHANGED cycles
    BY <1>1
  <1>2. ASSUME NEW u \in Radars, NEW healths, RecordToken(u, healths)
        PROVE  cycles[t] = "none"
    <2>1. CASE cycles[u] # "none"
      BY <1>2, <2>1 DEF RecordToken
    <2>2. CASE cycles[u] = "none"
      BY <1>2, <2>2 DEF RecordToken, Typed, OthersTyped
    <2> QED
      BY <2>1, <2>2
  <1>3. ASSUME NEW r \in Radars, Record(r) \/ RecordInflightFailure(r)
        PROVE  cycles[t] = "none"
    BY <1>1, <1>2, <1>3 DEF Record, RecordInflightFailure
  <1> QED
    BY <1>1, <1>3
       DEF CampaignNext, campvars, Load, Check, PersistCopy, ClaimCycle, Fail, Abandon,
           Start, ClaimLease, Deny, OpenClaim, CallModel, Release, KillPayer,
           SpendElsewhere, Expire, BeginReset, EndReset

\* A paid operation that is over has its result.
LEMMA OverIsOver ==
  ASSUME Typed, [CampaignNext]_campvars, NEW q \in Payers, payer[q].step = "over"
  PROVE  payer'[q] = payer[q]
  <1>1. ASSUME NEW p \in Payers,
               Start(p) \/ ClaimLease(p) \/ Deny(p) \/ OpenClaim(p) \/ CallModel(p)
                 \/ Release(p) \/ KillPayer(p) \/ SpendElsewhere(p)
        PROVE  payer'[q] = payer[q]
    <2>1. payer[p].step # "over" /\ p # q
      BY <1>1 DEF Start, ClaimLease, Deny, OpenClaim, CallModel, Release, KillPayer,
                  SpendElsewhere
    <2> QED
      BY <1>1, <2>1
         DEF Start, ClaimLease, Deny, OpenClaim, CallModel, Release, KillPayer,
             SpendElsewhere, Pay, Typed, OthersTyped
  <1>2. CASE UNCHANGED payer
    BY <1>2
  <1> QED
    BY <1>1, <1>2
       DEF CampaignNext, campvars, Load, Check, PersistCopy, ClaimCycle, Record, Fail,
           RecordInflightFailure, Abandon, Expire, BeginReset, EndReset

\* What each step of a radar does to where it is.
LEMMA RadarMoves ==
  ASSUME Typed, [CampaignNext]_campvars, NEW r \in Radars
  PROVE  \/ radar'[r] = radar[r]
         \/ Load(r) /\ radar'[r] = [radar[r] EXCEPT !.step = "loaded", !.copy = row]
         \/ Check(r)
         \/ PersistCopy(r) /\ radar'[r] = [radar[r] EXCEPT !.step = "claiming"]
         \/ ClaimCycle(r) /\ radar'[r].step = "running" /\ radar'[r].base = radar[r].base
         \/ radar[r].step = "claiming" /\ radar'[r].step = "failed"
         \/ radar[r].step \in {"loaded", "writing"} /\ radar'[r].step = "failed"
         \/ /\ radar[r].step \in HasClaimed /\ radar'[r].step \in HasClaimed
            /\ radar'[r].base = radar[r].base
  <1> USE DEF Typed, Radared, At, Goto, Drop, HasClaimed
  <1>1. CASE UNCHANGED radar
    BY <1>1
  <1>2. ASSUME NEW s \in Radars, s # r,
               Load(s) \/ Check(s) \/ PersistCopy(s) \/ ClaimCycle(s) \/ Record(s) \/ Fail(s)
                 \/ RecordInflightFailure(s) \/ Abandon(s)
        PROVE  radar'[r] = radar[r]
    BY <1>2 DEF Load, Check, PersistCopy, ClaimCycle, Record, Fail, RecordInflightFailure,
                Abandon
  <1>3. CASE Load(r)
    BY <1>3 DEF Load
  <1>4. CASE PersistCopy(r)
    BY <1>4 DEF PersistCopy
  <1>5. CASE ClaimCycle(r)
    BY <1>5 DEF ClaimCycle
  <1>6. CASE Record(r) \/ RecordInflightFailure(r) \/ Abandon(r)
    BY <1>6 DEF Record, RecordInflightFailure, Abandon
  <1>7. CASE Fail(r)
    BY <1>7 DEF Fail
  <1> QED
    BY <1>1, <1>2, <1>3, <1>4, <1>5, <1>6, <1>7
       DEF CampaignNext, campvars, Start, ClaimLease, Deny, OpenClaim, CallModel, Release,
           KillPayer, SpendElsewhere, Expire, BeginReset, EndReset

\* What a check leaves answers for what has been spent.
LEMMA ChecksAnswer ==
  ASSUME Typed, NEW r \in Radars, Check(r)
  PROVE  /\ radar[r].step = "loaded" /\ radar'[r].step \in {"writing", "claiming"}
         /\ radar'[r].step = "claiming" => radar'[r].copy = radar[r].copy
         /\ UNCHANGED <<row, moved, payer>>
         /\ Answered(radar'[r].copy, radar'[r].base, payer)
  <1> DEFINE s == radar[r].copy
             paused == [s EXCEPT !.status = "soft_paused", !.streak = 0]
  <1>1. s \in Row
    BY DEF Typed, Radared
  <1>2. PICK step \in {"writing", "claiming"}, copy \in {s, Halted(s), paused} :
          /\ radar' = [radar EXCEPT ![r] = [step |-> step, copy |-> copy, base |-> spent]]
          /\ \/ s.status = "hard_halted" /\ copy = s
             \/ copy = Halted(s) /\ step = "writing"
             \/ Explained(s) /\ copy = s
             \/ Pauses(s) /\ copy = paused /\ step = "writing"
    BY DEF Check
  <1>3. /\ radar'[r].step = step /\ radar'[r].copy = copy /\ radar'[r].base = spent
    BY <1>2 DEF Typed, Radared
  <1>4. ASSUME Explained(s), s.marked
        PROVE  \/ spent \subseteq s.markSpent
               \/ /\ spent \ s.markSpent = {s.last}
                  /\ payer[s.last].result \in {"completed", "failed"}
    BY <1>4 DEF Explained, Attributed, GateDenied, NewSpending
  <1>5. /\ Halted(s).status = "hard_halted"
        /\ paused.marked = s.marked /\ paused.markSpent = s.markSpent /\ paused.last = s.last
    BY <1>1 DEF Row, Halted
  <1>6. Answered(copy, spent, payer)
    BY <1>2, <1>4, <1>5 DEF Answered, Pauses
  <1>7. radar[r].step = "loaded" /\ UNCHANGED <<row, moved, payer>>
    BY DEF Check, At
  <1> QED
    BY <1>2, <1>3, <1>6, <1>7

\* What fits goes on to, whatever happens to others.
LEMMA FitsLater ==
  ASSUME Typed, [CampaignNext]_campvars, NEW s \in Row, Fits(s, payer, radar, cycles)
  PROVE  Fits(s, payer', radar', cycles')
  <1>1. s.last \in Payers \cup {Nobody} /\ s.cycle \in Radars \cup {Nobody}
    BY DEF Row
  <1>2. LastIsOver(s, payer')
    BY <1>1, OverIsOver DEF Fits, LastIsOver
  <1>3. ASSUME NEW t \in Radars, s.cycle = t, cycles'[t] = "none"
        PROVE  radar'[t].step \in HasClaimed /\ Answered(s, radar'[t].base, payer')
    <2>1. radar[t].step \in HasClaimed /\ Answered(s, radar[t].base, payer)
      BY <1>3, ResultsStay DEF Fits
    <2>2. radar'[t].step \in HasClaimed /\ radar'[t].base = radar[t].base
      BY <2>1, RadarMoves, ChecksAnswer
         DEF HasClaimed, Load, PersistCopy, ClaimCycle, At
    <2>3. radar[t].base \subseteq Payers
      BY DEF Typed, Radared
    <2>4. Answered(s, radar[t].base, payer')
      BY <1>1, <2>1, <2>3, OverIsOver, CampaignConstants DEF Answered, Fits, LastIsOver
    <2> QED
      BY <2>2, <2>4
  <1> QED
    BY <1>2, <1>3 DEF Fits

\* What a step writes, made of what fits.
LEMMA FitsRewritten ==
  ASSUME NEW s \in Row, NEW payers, NEW radars, NEW results,
         Fits(s, payers, radars, results)
  PROVE  /\ Fits(Halted(s), payers, radars, results)
         /\ s.status # "hard_halted" =>
              Fits([s EXCEPT !.status = "soft_paused", !.streak = 0], payers, radars, results)
         /\ \A new : new.cycle = Nobody /\ new.last = s.last =>
              Fits(new, payers, radars, results)
  <1>1. /\ Halted(s).status = "hard_halted" /\ Halted(s).last = s.last
        /\ Halted(s).cycle = s.cycle
    BY DEF Row, Halted
  <1>2. Fits(Halted(s), payers, radars, results)
    BY <1>1 DEF Fits, LastIsOver, Answered
  <1> DEFINE paused == [s EXCEPT !.status = "soft_paused", !.streak = 0]
  <1>3. /\ paused.last = s.last /\ paused.cycle = s.cycle /\ paused.marked = s.marked
        /\ paused.markSpent = s.markSpent
    BY DEF Row
  <1> HIDE DEF paused
  <1>4. s.status # "hard_halted" => Fits(paused, payers, radars, results)
    BY <1>3 DEF Fits, LastIsOver, Answered
  <1>5. \A new : new.cycle = Nobody /\ new.last = s.last => Fits(new, payers, radars, results)
    BY CampaignConstants DEF Fits, LastIsOver
  <1> QED
    BY <1>2, <1>4, <1>5 DEF paused

LEMMA NewRowFits ==
  ASSUME NEW payers, NEW radars, NEW results
  PROVE  Fits(NewRow, payers, radars, results)
  BY CampaignConstants DEF Fits, LastIsOver, NewRow

\* What the record of a cycle leaves.
LEMMA AfterRecord ==
  ASSUME row \in Row, NEW t \in Radars, NEW h \in AnyHealth, NEW phase
  PROVE  /\ After(t, h, phase).cycle = Nobody /\ After(t, h, phase).last = row.last
         /\ After(t, h, phase).markSpent = spent
         /\ row.status = "hard_halted" \/ h = "hard_halted" =>
              After(t, h, phase).status = "hard_halted"
  <1> DEFINE status == IF row.status = "hard_halted" \/ h = "hard_halted" THEN "hard_halted"
                       ELSE IF h = "healthy" /\ (row.status = "running" \/ Resumes) THEN "running"
                       ELSE "soft_paused"
             streak == IF row.status = "hard_halted" THEN row.streak
                       ELSE IF status = "soft_paused" /\ h = "healthy" THEN row.streak + 1 ELSE 0
             next == IF row.status = "running" /\ status = "running" THEN phase ELSE row.phase
  <1>1. After(t, h, phase) =
          [row EXCEPT !.status = status, !.streak = streak, !.phase = next,
                      !.cycle = Nobody, !.marked = TRUE, !.captured = t,
                      !.markSpent = spent, !.markLast = row.last]
    BY DEF After
  <1>2. row.status = "hard_halted" \/ h = "hard_halted" => status = "hard_halted"
    OBVIOUS
  <1> HIDE DEF status, streak, next
  <1> QED
    BY <1>1, <1>2 DEF Row

LEMMA RowStaysFit ==
  ASSUME Typed, Answering, [CampaignNext]_campvars
  PROVE  Fits(row', payer', radar', cycles')
  <1>1. /\ row \in Row /\ operator \in Row
        /\ \A r \in Radars : radar[r].copy \in Row
    BY DEF Typed, Radared
  <1>2. /\ Fits(row, payer', radar', cycles') /\ Fits(operator, payer', radar', cycles')
        /\ \A r \in Radars : Fits(radar[r].copy, payer', radar', cycles')
    BY <1>1, FitsLater DEF Answering, RowsFit
  <1>3. /\ Fits(Halted(row), payer', radar', cycles')
        /\ \A new : new.cycle = Nobody /\ new.last = row.last =>
             Fits(new, payer', radar', cycles')
    BY <1>1, <1>2, FitsRewritten
  <1>4. CASE UNCHANGED row
    BY <1>2, <1>4
  <1>5. ASSUME NEW r \in Radars, PersistCopy(r) PROVE row' = radar[r].copy
    BY <1>5 DEF PersistCopy, Write
  <1>6. ASSUME NEW r \in Radars, ClaimCycle(r) PROVE Fits(row', payer', radar', cycles')
    <2>1. CASE row' = Halted(row)
      BY <1>3, <2>1
    <2>2. CASE /\ row.cycle = Nobody /\ row.lease = Nobody /\ r \notin moved
               /\ row' = [row EXCEPT !.cycle = r] /\ Drop(r, "running", radar[r].base)
      <3>1. /\ row'.cycle = r /\ row'.last = row.last /\ row'.status = row.status
            /\ row'.marked = row.marked /\ row'.markSpent = row.markSpent
        BY <1>1, <2>2 DEF Row
      <3>2. radar'[r].step \in HasClaimed /\ radar'[r].base = radar[r].base /\ payer' = payer
        BY <1>6, <2>2 DEF Typed, Radared, Drop, HasClaimed, ClaimCycle
      <3>3. row = radar[r].copy /\ Answered(radar[r].copy, radar[r].base, payer)
        BY <1>6, <2>2 DEF Answering, CopiesAnswer, CopiesAreTheRow, ClaimCycle, At
      <3>4. Answered(row', radar'[r].base, payer') /\ LastIsOver(row', payer')
        BY <1>2, <3>1, <3>2, <3>3 DEF Answered, Fits, LastIsOver
      <3> QED
        BY <3>1, <3>2, <3>4 DEF Fits
    <2> QED
      BY <1>6, <2>1, <2>2 DEF ClaimCycle, Write
  <1>7. ASSUME NEW t \in Radars, NEW healths \in SUBSET AnyHealth, RecordToken(t, healths)
        PROVE  Fits(row', payer', radar', cycles')
    <2>1. \/ row' = row
          \/ row' = [row EXCEPT !.cycle = Nobody]
          \/ \E h \in AnyHealth : \E phase : row' = After(t, h, phase)
      BY <1>7 DEF RecordToken, Write
    <2>2. [row EXCEPT !.cycle = Nobody].cycle = Nobody
          /\ [row EXCEPT !.cycle = Nobody].last = row.last
      BY <1>1 DEF Row
    <2>3. \A h \in AnyHealth : \A phase :
            After(t, h, phase).cycle = Nobody /\ After(t, h, phase).last = row.last
      BY <1>1, AfterRecord
    <2> QED
      BY <1>2, <1>3, <2>1, <2>2, <2>3
  <1>8. ASSUME NEW r \in Radars, Record(r) \/ RecordInflightFailure(r)
        PROVE  Fits(row', payer', radar', cycles')
    <2>1. FailedHealth \in SUBSET AnyHealth /\ AnyHealth \in SUBSET AnyHealth
      BY DEF FailedHealth, AnyHealth
    <2> QED
      BY <1>4, <1>7, <1>8, <2>1 DEF Record, RecordInflightFailure
  <1>9. ASSUME NEW q \in Payers, ClaimLease(q) PROVE Fits(row', payer', radar', cycles')
    <2>1. CASE row.cycle = Nobody /\ row' = [row EXCEPT !.lease = q]
      <3>1. row'.cycle = Nobody /\ row'.last = row.last
        BY <1>1, <2>1 DEF Row
      <3> QED
        BY <1>3, <3>1
    <2> QED
      BY <1>3, <1>4, <1>9, <2>1 DEF ClaimLease, LeaseIsOpen, Write
  <1>10. ASSUME NEW q \in Payers, Release(q) PROVE Fits(row', payer', radar', cycles')
    <2>1. CASE row.lease = q /\ row' = [row EXCEPT !.lease = Nobody, !.last = q]
      <3>1. row.cycle = Nobody
        BY <2>1, CampaignConstants DEF Answering, AllSingle, Single
      <3>2. row'.cycle = Nobody /\ row'.last = q
        BY <1>1, <2>1, <3>1 DEF Row
      <3>3. payer'[q].step = "over"
        BY <1>10 DEF Release, Pay, Typed, OthersTyped
      <3> QED
        BY <3>2, <3>3, CampaignConstants DEF Fits, LastIsOver
    <2> QED
      BY <1>4, <1>10, <2>1 DEF Release, Write
  <1>11. CASE EndReset
    BY <1>2, <1>11 DEF EndReset, Write
  <1> QED
    BY <1>2, <1>4, <1>5, <1>6, <1>8, <1>9, <1>10, <1>11
       DEF CampaignNext, campvars, Load, Check, Fail, Abandon, Start, Deny, OpenClaim,
           CallModel, KillPayer, SpendElsewhere, Expire, BeginReset

\* Only its check changes a copy.
LEMMA CopyKept ==
  ASSUME Typed, [CampaignNext]_campvars, NEW r \in Radars, ~Check(r)
  PROVE  radar'[r].copy \in {radar[r].copy, row, NewRow}
  <1> USE DEF Typed, Radared, Goto, Drop
  <1>1. ASSUME NEW s \in Radars, Check(s) PROVE radar'[r].copy = radar[r].copy
    BY <1>1 DEF Check
  <1>2. ASSUME NEW s \in Radars,
               Load(s) \/ PersistCopy(s) \/ ClaimCycle(s) \/ Record(s) \/ Fail(s)
                 \/ RecordInflightFailure(s) \/ Abandon(s)
        PROVE  radar'[r].copy \in {radar[r].copy, row, NewRow}
    BY <1>2 DEF Load, PersistCopy, ClaimCycle, Record, Fail, RecordInflightFailure, Abandon
  <1>3. CASE UNCHANGED radar
    BY <1>3
  <1> QED
    BY <1>1, <1>2, <1>3
       DEF CampaignNext, campvars, Start, ClaimLease, Deny, OpenClaim, CallModel, Release,
           KillPayer, SpendElsewhere, Expire, BeginReset, EndReset

LEMMA CopiesStayFit ==
  ASSUME Typed, Answering, [CampaignNext]_campvars
  PROVE  /\ Fits(operator', payer', radar', cycles')
         /\ \A r \in Radars : Fits(radar'[r].copy, payer', radar', cycles')
  <1>1. /\ row \in Row /\ operator \in Row
        /\ \A r \in Radars : radar[r].copy \in Row
    BY DEF Typed, Radared
  <1>2. /\ Fits(row, payer', radar', cycles') /\ Fits(operator, payer', radar', cycles')
        /\ \A r \in Radars : Fits(radar[r].copy, payer', radar', cycles')
    BY <1>1, FitsLater DEF Answering, RowsFit
  <1>3. Fits(operator', payer', radar', cycles')
    <2>1. CASE UNCHANGED operator
      BY <1>2, <2>1
    <2>2. CASE BeginReset
      <3>1. operator'.cycle = Nobody /\ operator'.last = row.last
        BY <1>1, <2>2 DEF BeginReset, Row
      <3> QED
        BY <1>1, <1>2, <3>1, FitsRewritten
    <2>3. CASE EndReset
      BY <2>3, NewRowFits DEF EndReset
    <2> QED
      BY <2>1, <2>2, <2>3
         DEF CampaignNext, campvars, Load, Check, PersistCopy, ClaimCycle, Record, Fail,
             RecordInflightFailure, Abandon, Start, ClaimLease, Deny, OpenClaim, CallModel,
             Release, KillPayer, SpendElsewhere, Expire
  <1>4. ASSUME NEW r \in Radars PROVE Fits(radar'[r].copy, payer', radar', cycles')
    <2>1. /\ Fits(Halted(radar[r].copy), payer', radar', cycles')
          /\ radar[r].copy.status # "hard_halted" =>
               Fits([radar[r].copy EXCEPT !.status = "soft_paused", !.streak = 0],
                    payer', radar', cycles')
      BY <1>1, <1>2, FitsRewritten
    <2>2. CASE Check(r)
      <3>1. \/ radar'[r].copy \in {radar[r].copy, Halted(radar[r].copy)}
            \/ /\ radar[r].copy.status # "hard_halted"
               /\ radar'[r].copy =
                    [radar[r].copy EXCEPT !.status = "soft_paused", !.streak = 0]
        BY <2>2 DEF Check, Typed, Radared
      <3> QED
        BY <1>2, <2>1, <3>1
    <2>3. CASE radar'[r].copy \in {radar[r].copy, row, NewRow}
      BY <1>2, <2>3, NewRowFits
    <2>4. CASE ~Check(r)
      <3>1. radar'[r].copy \in {radar[r].copy, row, NewRow}
        BY <2>4, CopyKept
      <3> QED
        BY <2>3, <3>1
    <2> QED
      BY <2>2, <2>4
  <1> QED
    BY <1>3, <1>4

LEMMA CopiesStillAnswer ==
  ASSUME Typed, Answering, [CampaignNext]_campvars
  PROVE  CopiesAnswer'
  <1> SUFFICES ASSUME NEW r \in Radars, radar'[r].step \in {"writing", "claiming"}
               PROVE  Answered(radar'[r].copy, radar'[r].base, payer')
    BY DEF CopiesAnswer, Answered
  <1>1. CASE Check(r)
    BY <1>1, ChecksAnswer
  <1>2. CASE ~Check(r)
    <2>1. /\ radar[r].step \in {"writing", "claiming"}
          /\ radar'[r].copy = radar[r].copy /\ radar'[r].base = radar[r].base
      BY <1>2, RadarMoves DEF HasClaimed, PersistCopy, At, Typed, Radared
    <2>2. /\ Answered(radar[r].copy, radar[r].base, payer)
          /\ LastIsOver(radar[r].copy, payer)
      BY <2>1 DEF Answering, CopiesAnswer, RowsFit, Fits
    <2>3. radar[r].base \subseteq Payers
      BY DEF Typed, Radared
    <2>4. Answered(radar[r].copy, radar[r].base, payer')
      BY <2>2, <2>3, OverIsOver, CampaignConstants DEF Answered, LastIsOver
    <2> QED
      BY <2>1, <2>4
  <1> QED
    BY <1>1, <1>2

\* A writer of the row leaves nobody with a copy that would pass for it.
LEMMA WritersMove ==
  ASSUME Typed, [CampaignNext]_campvars, NEW r \in Radars,
         ~PersistCopy(r), radar[r].step \in {"loaded", "writing", "claiming"}
  PROVE  \/ row' = row /\ (r \notin moved' => r \notin moved \/ Fail(r) \/ Load(r))
         \/ r \in moved'
         \/ ClaimCycle(r)
  <1>1. ASSUME NEW s \in Radars, PersistCopy(s), s # r PROVE r \in moved'
    BY <1>1 DEF PersistCopy, Write
  <1>2. ASSUME NEW s \in Radars, ClaimCycle(s), s # r PROVE r \in moved'
    BY <1>2 DEF ClaimCycle, Write
  <1>3. ASSUME NEW new, Write(new, {}) PROVE r \in moved'
    BY <1>3 DEF Write
  <1>4. CASE UNCHANGED <<row, moved>>
    BY <1>4
  <1>5. ASSUME NEW s \in Radars, Record(s) \/ RecordInflightFailure(s)
        PROVE  UNCHANGED <<row, moved>> \/ r \in moved'
    BY <1>3, <1>5 DEF Record, RecordInflightFailure, RecordToken
  <1>6. ASSUME NEW q \in Payers, ClaimLease(q) \/ Release(q)
        PROVE  UNCHANGED <<row, moved>> \/ r \in moved'
    BY <1>3, <1>6 DEF ClaimLease, Release
  <1>7. CASE EndReset
    BY <1>3, <1>7 DEF EndReset
  <1>8. ASSUME NEW s \in Radars, Load(s) \/ Fail(s)
        PROVE  row' = row /\ (r \notin moved' => r \notin moved \/ Fail(r) \/ Load(r))
    BY <1>8 DEF Load, Fail
  <1> QED
    BY <1>1, <1>2, <1>4, <1>5, <1>6, <1>7, <1>8
       DEF CampaignNext, campvars, Check, Abandon, Start, Deny, OpenClaim, CallModel,
           KillPayer, SpendElsewhere, Expire, BeginReset

LEMMA CopiesStayTheRow ==
  ASSUME Typed, Answering, [CampaignNext]_campvars
  PROVE  CopiesAreTheRow'
  <1> SUFFICES ASSUME NEW r \in Radars, radar'[r].step \in {"loaded", "claiming"},
                      r \notin moved'
               PROVE  row' = radar'[r].copy
    BY DEF CopiesAreTheRow
  <1>1. CASE Load(r)
    BY <1>1 DEF Load, Typed, Radared
  <1>2. CASE Check(r)
    BY <1>2, ChecksAnswer DEF Answering, CopiesAreTheRow
  <1>3. CASE PersistCopy(r)
    BY <1>3, RadarMoves DEF PersistCopy, Write, Goto, Typed, Radared
  <1>4. CASE ~Load(r) /\ ~Check(r) /\ ~PersistCopy(r)
    <2>1. ~ClaimCycle(r)
      <3> SUFFICES ASSUME ClaimCycle(r) PROVE radar'[r].step \in {"running", "failed"}
        OBVIOUS
      <3> QED
        BY DEF ClaimCycle, Drop, Typed, Radared
    <2>2. ~Fail(r)
      <3> SUFFICES ASSUME Fail(r) PROVE radar'[r].step = "failed"
        OBVIOUS
      <3> QED
        BY DEF Fail, Drop, Typed, Radared
    <2>3. radar'[r] = radar[r]
      <3>1. radar'[r].step \notin HasClaimed
        BY DEF HasClaimed
      <3>2. radar'[r].step # "failed" /\ radar'[r].step # "running"
        OBVIOUS
      <3> QED
        BY <1>4, <2>1, <3>1, <3>2, RadarMoves
    <2>4. row' = row /\ r \notin moved
      BY <1>4, <2>1, <2>2, <2>3, WritersMove
    <2> QED
      BY <2>3, <2>4 DEF Answering, CopiesAreTheRow
  <1> QED
    BY <1>1, <1>2, <1>3, <1>4

LEMMA AlwaysAnswering == CampaignSpec => []Answering
  <1>1. CampaignInit => Answering
    <2> SUFFICES ASSUME CampaignInit PROVE Answering
      OBVIOUS
    <2>1. Single(NewRow) /\ Single([NewRow EXCEPT !.phase = "research", !.marked = TRUE])
      BY DEF Single, NewRow
    <2>2. AllSingle
      BY <2>1 DEF CampaignInit, AllSingle
    <2>3. Fits(row, payer, radar, cycles)
      <3> DEFINE Marked == [NewRow EXCEPT !.phase = "research", !.marked = TRUE]
      <3>1. NewRow.cycle = Nobody /\ NewRow.last = Nobody
        BY DEF NewRow
      <3>2. Marked.cycle = Nobody /\ Marked.last = Nobody
        BY DEF NewRow
      <3>3. row = NewRow \/ row = Marked
        BY DEF CampaignInit
      <3> QED
        BY <3>1, <3>2, <3>3, CampaignConstants DEF Fits, LastIsOver
    <2>4. RowsFit
      <3>1. operator = NewRow /\ \A r \in Radars : radar[r].copy = NewRow
        BY DEF CampaignInit
      <3> QED
        BY <2>3, <3>1, NewRowFits DEF RowsFit
    <2>5. CopiesAnswer /\ CopiesAreTheRow
      BY DEF CampaignInit, CopiesAnswer, CopiesAreTheRow
    <2> QED
      BY <2>2, <2>4, <2>5 DEF Answering
  <1>2. Typed /\ Answering /\ [CampaignNext]_campvars => Answering'
    <2> SUFFICES ASSUME Typed, Answering, [CampaignNext]_campvars PROVE Answering'
      OBVIOUS
    <2>1. AllSingle'
      BY SingleStays DEF Answering
    <2>2. RowsFit'
      BY RowStaysFit, CopiesStayFit DEF RowsFit
    <2> QED
      BY <2>1, <2>2, CopiesStillAnswer, CopiesStayTheRow DEF Answering
  <1> QED
    BY <1>1, <1>2, AlwaysTyped, PTL DEF CampaignSpec

\* What is recorded over spending is the cycle the row names, and its baseline
\* is all that has been spent.
LEMMA RecordsAnswer ==
  ASSUME Typed, Answering, [CampaignNext]_campvars, cycles' # cycles, row.marked,
         ~ (row'.markSpent \subseteq row.markSpent)
  PROVE  \/ row'.status = "hard_halted"
         \/ /\ row'.markSpent \ row.markSpent = {row'.last}
            /\ payer[row'.last].result \in {"completed", "failed"}
  <1>1. PICK t \in Radars, healths \in SUBSET AnyHealth : RecordToken(t, healths)
    <2>1. FailedHealth \in SUBSET AnyHealth /\ AnyHealth \in SUBSET AnyHealth
      BY DEF FailedHealth, AnyHealth
    <2>2. \E r \in Radars : Record(r) \/ RecordInflightFailure(r)
      BY DEF CampaignNext, campvars, Load, Check, PersistCopy, ClaimCycle, Fail, Abandon,
             Start, ClaimLease, Deny, OpenClaim, CallModel, Release, KillPayer,
             SpendElsewhere, Expire, BeginReset, EndReset
    <2> QED
      BY <2>1, <2>2 DEF Record, RecordInflightFailure
  <1>2. cycles[t] = "none" /\ row.cycle = t
    BY <1>1 DEF RecordToken
  <1>3. PICK h \in AnyHealth, phase \in {row.phase, "research"} :
          /\ spent # radar[t].base => h = "hard_halted"
          /\ row' = After(t, h, phase)
    BY <1>1, <1>2 DEF RecordToken, Write
  <1>4. /\ row'.last = row.last /\ row'.markSpent = spent
        /\ row.status = "hard_halted" \/ h = "hard_halted" => row'.status = "hard_halted"
    BY <1>3, AfterRecord DEF Typed
  <1>5. CASE row.status # "hard_halted" /\ spent = radar[t].base
    <2>1. Answered(row, spent, payer)
      BY <1>2, <1>5 DEF Answering, RowsFit, Fits
    <2> QED
      BY <1>4, <1>5, <2>1 DEF Answered
  <1> QED
    BY <1>3, <1>4, <1>5

\* Once there is a watermark, a cycle's record moves it over spending only when
\* the campaign is halted, or when the spending is the one call of the paid
\* operation released last and its result is known; for any number of radars
\* and payers, with or without the mutex, whatever stale copies are written back.
THEOREM SpendingIsAlwaysAnswered == CampaignSpec => SpendingIsAnswered
  <1> DEFINE A == cycles' # cycles /\ row.marked /\ ~ (row'.markSpent \subseteq row.markSpent) =>
                    \/ row'.status = "hard_halted"
                    \/ /\ row'.markSpent \ row.markSpent = {row'.last}
                       /\ payer[row'.last].result \in {"completed", "failed"}
  <1>1. Typed /\ Answering /\ [CampaignNext]_campvars => [A]_campvars
    BY RecordsAnswer
  <1> QED
    BY <1>1, AlwaysTyped, AlwaysAnswering, PTL DEF CampaignSpec, SpendingIsAnswered
=============================================================================
