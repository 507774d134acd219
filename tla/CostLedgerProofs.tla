-------------------------- MODULE CostLedgerProofs -------------------------
(***************************************************************************)
(* For any number of concurrent calls, agents and limits: the ledger's     *)
(* types, that a settled row stays, that every call that reached the       *)
(* provider stays counted, that autonomous calls are rationed, and that    *)
(* the call and the cost limits of every day and of every 24 hours hold.   *)
(***************************************************************************)
EXTENDS CostLedger, TLAPS, FiniteSetTheorems

LEMMA DayLemma ==
  ASSUME NEW t \in Nat, NEW u \in Nat, t <= u, NEW l \in Nat \ {0}
  PROVE  t \div l \in Nat /\ t \div l <= u \div l
  OBVIOUS

LEMMA DaysAreTyped ==
  ASSUME NEW t \in Times
  PROVE  DayOf(t) \in 0 .. DayOf(MaxTime)
  <1>1. t \in Nat /\ t <= MaxTime /\ MaxTime \in Nat /\ DayLength \in Nat \ {0}
    BY CostConstants DEF Times
  <1>2. DayOf(t) \in Nat /\ DayOf(t) <= DayOf(MaxTime) /\ DayOf(MaxTime) \in Nat
    BY <1>1, DayLemma DEF DayOf
  <1> QED
    BY <1>2

LEMMA StepRows == NoRow \in Row /\ \A t \in Times : Unpaid(t) \in Row
  <1>1. 0 \in Times /\ 0 \in Costs /\ {"none", "unpaid"} \subseteq Statuses
    BY CostConstants DEF Times, Costs, Statuses
  <1>2. NoRow \in Row
    BY <1>1 DEF NoRow, Row
  <1>3. ASSUME NEW t \in Times PROVE Unpaid(t) \in Row
    BY <1>1, <1>2 DEF Unpaid, Row
  <1> QED
    BY <1>2, <1>3

LEMMA ResultRows ==
  ASSUME NEW c \in Calls, calls \in [Calls -> Call]
  PROVE  Answer(c) \cup {ProviderError(c, e) : e \in BOOLEAN} \subseteq Row
  <1>1. calls[c].at \in Times /\ {"answered", "error"} \subseteq Statuses
    BY DEF Call, Statuses, Paid
  <1>2. Answer(c) \subseteq Row
    BY <1>1 DEF Answer, Row, Costs
  <1>3. \A e \in BOOLEAN : ProviderError(c, e) \in Row
    BY <1>1 DEF ProviderError, Row, Costs
  <1> QED
    BY <1>2, <1>3

LEMMA LedgerStaysTyped ==
  ASSUME LedgerTypeOK, [LedgerNext]_ledgervars
  PROVE  LedgerTypeOK'
  <1> USE DEF LedgerTypeOK
  <1>0. 0 \in Times
    BY CostConstants DEF Times
  <1>1. CASE UNCHANGED ledgervars
    BY <1>1 DEF ledgervars
  <1>2. CASE Tick
    BY <1>2, CostConstants DEF Tick, Times
  <1>3. CASE ReplayDeferredCostEvents
    <2>1. PICK lines \in SUBSET deferred : BringIn(lines)
      BY <1>3 DEF ReplayDeferredCostEvents
    <2>2. ASSUME NEW c \in Calls PROVE events'[c] \in Row
      <3>1. CASE \E l \in lines : l.event = c
        <4>1. (CHOOSE l \in lines : l.event = c) \in Line
          BY <3>1
        <4> QED
          BY <3>1, <4>1, <2>1 DEF BringIn, Line
      <3>2. CASE ~\E l \in lines : l.event = c
        BY <3>2, <2>1 DEF BringIn
      <3> QED
        BY <3>1, <3>2
    <2>3. events' \in [Calls -> Row]
      BY <2>1, <2>2 DEF BringIn
    <2> QED
      BY <1>3, <2>3 DEF ReplayDeferredCostEvents
  <1> DEFINE Refused(c, t) == [step |-> "logging", at |-> t, result |-> Unpaid(t)]
  <1>4. ASSUME NEW t \in Times, NEW c \in Calls PROVE Refused(c, t) \in Call
    BY <1>4, StepRows DEF Call, CallSteps
  <1>5. ASSUME NEW c \in Calls, Begin(c) PROVE LedgerTypeOK'
    <2>1. [Idle EXCEPT !.step = "checking", !.at = clock] \in Call
      BY StepRows DEF Idle, Call, CallSteps
    <2>2. calls' \in [Calls -> Call]
      BY <1>5, <1>4, <1>0, <2>1 DEF Begin, Refuse, RefuseAt
    <2> QED
      BY <1>5, <2>2 DEF Begin
  <1>6. ASSUME NEW c \in Calls, NEW step \in CallSteps, Goto(c, step)
        PROVE  calls' \in [Calls -> Call]
    BY <1>6 DEF Goto, Call
  <1>7. ASSUME NEW c \in Calls, CheckDeferred(c) PROVE LedgerTypeOK'
    <2>1. calls' \in [Calls -> Call]
      <3>1. CASE Goto(c, "reserving")
        BY <3>1, <1>6 DEF CallSteps
      <3>2. CASE Refuse(c)
        BY <3>2, <1>4, <1>0 DEF Refuse, RefuseAt
      <3> QED
        BY <1>7, <3>1, <3>2 DEF CheckDeferred
    <2> QED
      BY <1>7, <2>1 DEF CheckDeferred
  <1>8. ASSUME NEW c \in Calls, ReserveModelCall(c) PROVE LedgerTypeOK'
    <2>1. CASE Goto(c, "claiming")
               /\ events' = [events EXCEPT ![c] =
                    [status |-> "reserved", at |-> calls[c].at, cost |-> Reserve,
                     asEstimated |-> TRUE]]
      <3>1. calls' \in [Calls -> Call]
        BY <2>1, <1>6 DEF CallSteps
      <3>2. [status |-> "reserved", at |-> calls[c].at, cost |-> Reserve,
             asEstimated |-> TRUE] \in Row
        BY DEF Row, Statuses, Paid, Costs, Call
      <3> QED
        BY <1>8, <2>1, <3>1, <3>2 DEF ReserveModelCall
    <2>2. CASE Refuse(c) /\ UNCHANGED events
      BY <1>8, <2>2, <1>4, <1>0 DEF ReserveModelCall, Refuse, RefuseAt
    <2> QED
      BY <1>8, <2>1, <2>2 DEF ReserveModelCall
  <1>9. ASSUME NEW c \in Calls, ClaimAutonomousPaidAttempt(c) PROVE LedgerTypeOK'
    <2>1. DayOf(clock) \in 0 .. DayOf(MaxTime)
      BY DaysAreTyped
    <2>2. calls' \in [Calls -> Call]
      BY <1>9, <1>6 DEF ClaimAutonomousPaidAttempt, CallSteps
    <2> QED
      BY <1>9, <2>1, <2>2 DEF ClaimAutonomousPaidAttempt
  <1>10. ASSUME NEW c \in Calls, CancelModelReservation(c) PROVE LedgerTypeOK'
    <2>1. calls' \in [Calls -> Call]
      BY <1>10, <1>4 DEF CancelModelReservation, RefuseAt, Call
    <2>2. events' \in [Calls -> Row]
      BY <1>10 DEF CancelModelReservation, Row, Statuses, Costs
    <2> QED
      BY <1>10, <2>1, <2>2 DEF CancelModelReservation
  <1>11. ASSUME NEW c \in Calls, CallProvider(c) PROVE LedgerTypeOK'
    <2>1. PICK r \in Answer(c) \cup {ProviderError(c, e) : e \in BOOLEAN} :
            /\ calls' = [calls EXCEPT ![c].step = "logging", ![c].result = r]
            /\ made' = [made EXCEPT ![c] = [at |-> r.at, cost |-> r.cost]]
      BY <1>11 DEF CallProvider
    <2>2. r \in Row
      BY ResultRows
    <2>3. calls' \in [Calls -> Call]
      BY <2>1, <2>2 DEF Call, CallSteps
    <2>4. r.at \in Times /\ r.cost \in Costs
      BY <2>2 DEF Row
    <2>5. made' \in [Calls -> [at : Times \cup {-1}, cost : Costs]]
      BY <2>1, <2>4
    <2> QED
      BY <1>11, <2>3, <2>5 DEF CallProvider
  <1>12. ASSUME NEW c \in Calls, Log(c) PROVE LedgerTypeOK'
    <2>1. /\ calls[c].result \in Row
          /\ ProviderError(c, calls[c].result.asEstimated) \in Row
          /\ [event |-> c, row |-> calls[c].result] \in Line
      BY ResultRows DEF Call, Line, Row
    <2>5. Over \in Call
      BY StepRows, <1>0 DEF Over, Idle, Call, CallSteps
    <2> DEFINE failed == ProviderError(c, calls[c].result.asEstimated)
    <2> HIDE DEF failed
    <2>2. calls' = [calls EXCEPT ![c] = Over] \/ calls' = [calls EXCEPT ![c].result = failed]
      BY <1>12 DEF Log, failed
    <2>3. calls' \in [Calls -> Call]
      BY <2>1, <2>2, <2>5 DEF Call, failed
    <2>4. events' \in [Calls -> Row] /\ deferred' \subseteq Line
      BY <1>12, <2>1 DEF Log, Persist
    <2> QED
      BY <1>12, <2>3, <2>4 DEF Log
  <1>13. ASSUME NEW c \in Calls, CallDies(c) PROVE LedgerTypeOK'
    <2>1. Over \in Call
      BY StepRows, <1>0 DEF Over, Idle, Call, CallSteps
    <2> QED
      BY <1>13, <2>1 DEF CallDies
  <1> QED
    BY <1>1, <1>2, <1>3, <1>5, <1>7, <1>8, <1>9, <1>10, <1>11, <1>12, <1>13 DEF LedgerNext

\* The rows, the file and the locals of every call hold what their columns may.
THEOREM LedgerTypeCorrect == LedgerSpec => []LedgerTypeOK
  <1>1. LedgerInit => LedgerTypeOK
    <2> SUFFICES ASSUME LedgerInit PROVE LedgerTypeOK
      OBVIOUS
    <2>1. 0 \in Times /\ NoRow \in Row /\ Idle \in Call /\ 0 \in Costs
      BY StepRows, CostConstants DEF Times, Idle, Call, CallSteps, Costs
    <2>2. NotMade \in [at : Times \cup {-1}, cost : Costs]
      BY <2>1 DEF NotMade
    <2> QED
      BY <2>1, <2>2 DEF LedgerInit, LedgerTypeOK
  <1>2. LedgerTypeOK /\ [LedgerNext]_ledgervars => LedgerTypeOK'
    BY LedgerStaysTyped
  <1> QED
    BY <1>1, <1>2, PTL DEF LedgerSpec

-----------------------------------------------------------------------------
\* A result that belongs to c: unpaid unless the provider was reached, and then
\* at the time of the reservation, for what was charged or reserved.
Settles(c, r) ==
  IF made[c] = NotMade THEN r.status = "unpaid"
  ELSE r.status \in {"answered", "error"} /\ r.at = made[c].at
       /\ r.cost \in {made[c].cost, Reserve}

Reservation(c) ==
  [status |-> "reserved", at |-> calls[c].at, cost |-> Reserve, asEstimated |-> TRUE]

\* Where a call is says what the ledger and the file hold of it: nothing before
\* the reservation, the reservation until the provider has been asked, and
\* afterwards a row that counts; a line only once the call is over.
Counted(c) ==
  /\ made[c] # NotMade =>
       /\ events[c].status \in Paid /\ events[c].at = made[c].at
       /\ events[c].cost \in {made[c].cost, Reserve}
  /\ calls[c].step \in {"idle", "checking", "reserving"} =>
       made[c] = NotMade /\ events[c] = NoRow
  /\ calls[c].step \in {"claiming", "cancelling", "calling"} =>
       made[c] = NotMade /\ events[c] = Reservation(c)
  /\ calls[c].step = "logging" =>
       /\ Settles(c, calls[c].result)
       /\ made[c] # NotMade => calls[c].at = made[c].at
  /\ \A line \in deferred : line.event = c => calls[c].step = "over" /\ Settles(c, line.row)

AllCounted == \A c \in Calls : Counted(c)

\* What the replay leaves in a row: what was there, or a line that agrees with it.
LEMMA BroughtIn ==
  ASSUME LedgerTypeOK, ReplayDeferredCostEvents, NEW c \in Calls
  PROVE  \/ events'[c] = events[c]
         \/ \E line \in deferred : line.event = c /\ ~Conflicting(line) /\ events'[c] = line.row
  <1>1. PICK lines \in SUBSET deferred :
          (\A line \in lines : ~Conflicting(line)) /\ BringIn(lines)
    BY DEF ReplayDeferredCostEvents
  <1>2. CASE \E l \in lines : l.event = c
    <2> DEFINE line == CHOOSE l \in lines : l.event = c
    <2>1. line \in lines /\ line.event = c
      BY <1>2
    <2>2. events'[c] = line.row
      BY <1>1, <1>2 DEF BringIn
    <2> HIDE DEF line
    <2> QED
      BY <1>1, <2>1, <2>2
  <1>3. CASE ~\E l \in lines : l.event = c
    BY <1>1, <1>3 DEF BringIn
  <1> QED
    BY <1>2, <1>3

\* The step of one call does not disturb another.
LEMMA OthersStayCounted ==
  ASSUME NEW c \in Calls, Counted(c), calls'[c] = calls[c], events'[c] = events[c],
         made'[c] = made[c], \A line \in deferred' : line.event = c => line \in deferred
  PROVE  Counted(c)'
  BY DEF Counted, Settles, Reservation

LEMMA CountedStays ==
  ASSUME LedgerTypeOK, AllCounted, [LedgerNext]_ledgervars
  PROVE  AllCounted'
  <1> SUFFICES ASSUME NEW d \in Calls PROVE Counted(d)'
    BY DEF AllCounted
  <1>0. Counted(d)
    BY DEF AllCounted
  <1> USE DEF LedgerTypeOK
  <1>1. CASE UNCHANGED <<events, deferred, calls, made>>
    BY <1>0, <1>1, OthersStayCounted
  <1>2. CASE ReplayDeferredCostEvents
    <2>1. UNCHANGED <<calls, made, deferred>>
      BY <1>2 DEF ReplayDeferredCostEvents
    <2>2. CASE events'[d] = events[d]
      BY <1>0, <2>1, <2>2, OthersStayCounted
    <2>3. ASSUME NEW line \in deferred, line.event = d, events'[d] = line.row PROVE Counted(d)'
      <3>1. calls[d].step = "over" /\ Settles(d, line.row)
        BY <1>0, <2>3 DEF Counted
      <3> QED
        BY <1>0, <2>1, <2>3, <3>1 DEF Counted, Settles, Paid
    <2> QED
      BY <1>2, <2>2, <2>3, BroughtIn
  <1>3. ASSUME NEW c \in Calls, c # d,
               Begin(c) \/ CheckDeferred(c) \/ ReserveModelCall(c)
                 \/ ClaimAutonomousPaidAttempt(c) \/ CancelModelReservation(c)
                 \/ CallProvider(c) \/ Log(c) \/ CallDies(c)
        PROVE  Counted(d)'
    <2>1. calls'[d] = calls[d]
      BY <1>3 DEF Begin, CheckDeferred, ReserveModelCall, ClaimAutonomousPaidAttempt,
                  CancelModelReservation, CallProvider, Log, CallDies, Goto, Refuse, RefuseAt
    <2>2. events'[d] = events[d]
      BY <1>3 DEF Begin, CheckDeferred, ReserveModelCall, ClaimAutonomousPaidAttempt,
                  CancelModelReservation, CallProvider, Log, CallDies, Persist
    <2>3. made'[d] = made[d]
      BY <1>3 DEF Begin, CheckDeferred, ReserveModelCall, ClaimAutonomousPaidAttempt,
                  CancelModelReservation, CallProvider, Log, CallDies
    <2>4. \A line \in deferred' : line.event = d => line \in deferred
      BY <1>3 DEF Begin, CheckDeferred, ReserveModelCall, ClaimAutonomousPaidAttempt,
                  CancelModelReservation, CallProvider, Log, CallDies
    <2> QED
      BY <1>0, <2>1, <2>2, <2>3, <2>4, OthersStayCounted
  <1>4. \A t : Unpaid(t).status = "unpaid"
    BY DEF Unpaid, NoRow
  <1>5. CASE Begin(d)
    <2>1. calls[d].step = "idle" /\ UNCHANGED <<events, deferred, made>>
      BY <1>5 DEF Begin
    <2>2. CASE Refuse(d)
      BY <1>0, <1>4, <2>1, <2>2 DEF Counted, Settles, Refuse, RefuseAt
    <2>3. CASE calls' = [calls EXCEPT ![d] = [Idle EXCEPT !.step = "checking", !.at = clock]]
      BY <1>0, <2>1, <2>3 DEF Counted, Settles, Idle
    <2> QED
      BY <1>5, <2>2, <2>3 DEF Begin
  <1>6. CASE CheckDeferred(d)
    <2>1. calls[d].step = "checking" /\ UNCHANGED <<events, deferred, made>>
      BY <1>6 DEF CheckDeferred
    <2>2. CASE Refuse(d)
      BY <1>0, <1>4, <2>1, <2>2 DEF Counted, Settles, Refuse, RefuseAt
    <2>3. CASE Goto(d, "reserving")
      BY <1>0, <2>1, <2>3 DEF Counted, Settles, Goto, Call
    <2> QED
      BY <1>6, <2>2, <2>3 DEF CheckDeferred
  <1>7. CASE ReserveModelCall(d)
    <2>1. calls[d].step = "reserving" /\ UNCHANGED <<deferred, made>>
      BY <1>7 DEF ReserveModelCall
    <2>2. CASE Refuse(d) /\ UNCHANGED events
      BY <1>0, <1>4, <2>1, <2>2 DEF Counted, Settles, Refuse, RefuseAt
    <2>3. CASE Goto(d, "claiming") /\ events' = [events EXCEPT ![d] = Reservation(d)]
      <3>1. /\ calls'[d].step = "claiming" /\ calls'[d].at = calls[d].at
            /\ events'[d] = Reservation(d)
        BY <2>3 DEF Goto, Call
      <3> QED
        BY <1>0, <2>1, <3>1 DEF Counted, Settles, Reservation
    <2> QED
      BY <1>7, <2>2, <2>3 DEF ReserveModelCall, Reservation
  <1>8. CASE ClaimAutonomousPaidAttempt(d)
    <2>1. calls[d].step = "claiming" /\ UNCHANGED <<events, deferred, made>>
      BY <1>8 DEF ClaimAutonomousPaidAttempt
    <2>2. /\ calls'[d].step \in {"calling", "cancelling"} /\ calls'[d].at = calls[d].at
      BY <1>8 DEF ClaimAutonomousPaidAttempt, Goto, Call
    <2> QED
      BY <1>0, <2>1, <2>2 DEF Counted, Settles, Reservation
  <1>9. CASE CancelModelReservation(d)
    <2>1. calls[d].step = "cancelling" /\ UNCHANGED <<deferred, made>>
      BY <1>9 DEF CancelModelReservation
    <2>2. calls'[d].step = "logging" /\ calls'[d].result.status = "unpaid"
      BY <1>4, <1>9 DEF CancelModelReservation, RefuseAt
    <2> QED
      BY <1>0, <2>1, <2>2 DEF Counted, Settles
  <1>10. CASE CallProvider(d)
    <2>1. PICK r \in Answer(d) \cup {ProviderError(d, e) : e \in BOOLEAN} :
            /\ calls' = [calls EXCEPT ![d].step = "logging", ![d].result = r]
            /\ made' = [made EXCEPT ![d] = [at |-> r.at, cost |-> r.cost]]
      BY <1>10 DEF CallProvider
    <2>2. calls[d].step = "calling" /\ UNCHANGED <<deferred, events>>
      BY <1>10 DEF CallProvider
    <2>3. r.status \in {"answered", "error"} /\ r.at = calls[d].at
      BY DEF Answer, ProviderError
    <2>4. /\ calls'[d].step = "logging" /\ calls'[d].result = r /\ calls'[d].at = calls[d].at
          /\ made'[d] = [at |-> r.at, cost |-> r.cost]
      BY <2>1 DEF Call
    <2>5. events[d] = Reservation(d)
      BY <1>0, <2>2 DEF Counted
    <2>6. /\ events'[d].status \in Paid /\ events'[d].at = made'[d].at
          /\ events'[d].cost \in {made'[d].cost, Reserve}
      BY <2>2, <2>3, <2>4, <2>5 DEF Reservation, Paid
    <2>7. Settles(d, r)' /\ calls'[d].at = made'[d].at
      <3>1. calls[d].at # -1
        BY CostConstants DEF Call, Times
      <3>2. made'[d].at = r.at /\ made'[d].cost = r.cost /\ made'[d] # NotMade
        BY <2>3, <2>4, <3>1 DEF NotMade
      <3> QED
        BY <2>3, <2>4, <3>2 DEF Settles
    <2>8. \A line \in deferred' : line.event # d
      BY <1>0, <2>2 DEF Counted
    <2> QED
      BY <2>4, <2>6, <2>7, <2>8 DEF Counted, Settles
  <1>11. CASE Log(d)
    <2>0. calls[d].step = "logging" /\ UNCHANGED made
      BY <1>11 DEF Log
    <2>1. Settles(d, calls[d].result)
          /\ (made[d] # NotMade => calls[d].at = made[d].at /\ calls[d].result.status # "unpaid")
      BY <1>0, <2>0 DEF Counted, Settles
    <2>2. CASE Persist(d, calls[d].result) /\ calls' = [calls EXCEPT ![d] = Over]
               /\ UNCHANGED deferred
      <3>1. calls'[d].step = "over"
        BY <2>2 DEF Over
      <3>2. events'[d] \in {events[d], calls[d].result}
        BY <2>2 DEF Persist
      <3> QED
        BY <1>0, <2>0, <2>1, <2>2, <3>1, <3>2 DEF Counted, Settles, Paid
    <2>3. CASE deferred' = deferred \cup {[event |-> d, row |-> calls[d].result]}
               /\ calls' = [calls EXCEPT ![d] = Over] /\ UNCHANGED events
      <3>1. calls'[d].step = "over"
        BY <2>3 DEF Over
      <3> QED
        BY <1>0, <2>0, <2>1, <2>3, <3>1 DEF Counted, Settles
    <2>4. CASE calls[d].result.status = "answered"
               /\ calls' = [calls EXCEPT ![d].result =
                                ProviderError(d, calls[d].result.asEstimated)]
               /\ UNCHANGED <<events, deferred>>
      <3>1. made[d] # NotMade
        BY <2>1, <2>4 DEF Settles
      <3>2. /\ calls'[d].step = "logging" /\ calls'[d].at = calls[d].at
            /\ calls'[d].result = ProviderError(d, calls[d].result.asEstimated)
        BY <2>0, <2>4 DEF Call
      <3> QED
        BY <1>0, <2>0, <2>1, <2>4, <3>1, <3>2 DEF Counted, Settles, ProviderError
    <2> QED
      BY <1>11, <2>2, <2>3, <2>4 DEF Log
  <1>12. CASE CallDies(d)
    <2>1. calls'[d].step = "over" /\ UNCHANGED <<events, deferred, made>>
      BY <1>12 DEF CallDies, Over
    <2> QED
      BY <1>0, <2>1 DEF Counted, Settles
  <1> QED
    BY <1>1, <1>2, <1>3, <1>5, <1>6, <1>7, <1>8, <1>9, <1>10, <1>11, <1>12
       DEF LedgerNext, ledgervars, Tick

LEMMA CountedAtFirst == LedgerInit => AllCounted
  BY DEF LedgerInit, AllCounted, Counted, Idle, Settles

LEMMA AlwaysCounted == LedgerSpec => []AllCounted
  <1>1. LedgerTypeOK /\ AllCounted /\ [LedgerNext]_ledgervars => AllCounted'
    BY CountedStays
  <1> QED
    BY <1>1, CountedAtFirst, LedgerTypeCorrect, PTL DEF LedgerSpec

\* A call that reached the provider stays in the ledger as a paid one, at the
\* time of its reservation, for any number of calls, losses and replays.
THEOREM CallsStayCounted == LedgerSpec => []EveryCallIsCounted
  <1>1. AllCounted => EveryCallIsCounted
    BY DEF AllCounted, Counted, EveryCallIsCounted
  <1> QED
    BY <1>1, AlwaysCounted, PTL

-----------------------------------------------------------------------------
LEMMA SettledStays ==
  ASSUME LedgerTypeOK, AllCounted, [LedgerNext]_ledgervars,
         NEW d \in Calls, events[d].status \notin {"none", "reserved"}
  PROVE  events'[d] = events[d]
  <1>0. events = [c \in Calls |-> events[c]]
    BY DEF LedgerTypeOK
  <1>1. CASE ReplayDeferredCostEvents
    <2>1. ASSUME NEW line \in deferred, line.event = d, ~Conflicting(line)
          PROVE  line.row = events[d]
      BY <2>1 DEF Conflicting, Reconciled, ReservationMatches
    <2> QED
      BY <1>1, <2>1, BroughtIn
  <1>2. ASSUME NEW c \in Calls, ReserveModelCall(c) PROVE events'[d] = events[d]
    <2>1. events[c].status = "none"
      BY <1>2 DEF AllCounted, Counted, ReserveModelCall, NoRow
    <2> QED
      BY <1>0, <1>2, <2>1 DEF ReserveModelCall
  <1>3. ASSUME NEW c \in Calls, CancelModelReservation(c) PROVE events'[d] = events[d]
    <2>2. Counted(c) /\ calls[c].step = "cancelling"
      BY <1>3 DEF AllCounted, CancelModelReservation
    <2>1. events[c].status = "reserved"
      BY <2>2 DEF Counted, Reservation
    <2> QED
      BY <1>0, <1>3, <2>1 DEF CancelModelReservation
  <1>4. ASSUME NEW c \in Calls, Log(c) PROVE events'[d] = events[d]
    BY <1>0, <1>4 DEF Log, Persist
  <1> QED
    BY <1>1, <1>2, <1>3, <1>4
       DEF LedgerNext, ledgervars, Tick, Begin, CheckDeferred, ClaimAutonomousPaidAttempt,
           CallProvider, CallDies

\* A finalised event and a cancelled reservation are immutable: the row that a
\* cancellation finds is still the reservation, and a replay that conflicts with
\* any row brings in none.
THEOREM SettledRowsAreImmutable == LedgerSpec => SettledRowsStay
  <1>1. LedgerTypeOK /\ AllCounted /\ [LedgerNext]_ledgervars =>
          [\A c \in Calls : events[c].status \notin {"none", "reserved"}
             => events'[c] = events[c]]_ledgervars
    BY SettledStays
  <1> QED
    BY <1>1, LedgerTypeCorrect, AlwaysCounted, PTL DEF LedgerSpec, SettledRowsStay

-----------------------------------------------------------------------------
\* The provider is only asked with an attempt, and an attempt is only claimed
\* under the limit of its day.
Rationed ==
  /\ \A c \in Autonomous : made[c] # NotMade \/ calls[c].step = "calling"
       => attempts[c] # NoAttempt
  /\ \A d \in 0 .. DayOf(MaxTime) :
       Cardinality({c \in Autonomous : attempts[c] = d}) <= AttemptLimit

LEMMA AutonomousIsFinite == \A S \in SUBSET Calls : IsFiniteSet(S) /\ Cardinality(S) \in Nat
  BY CostConstants, FS_Subset, FS_CardinalityType

LEMMA RationedStays ==
  ASSUME LedgerTypeOK, Rationed, [LedgerNext]_ledgervars
  PROVE  Rationed'
  <1>0. Autonomous \subseteq Calls /\ AttemptLimit \in Nat
    BY CostConstants
  <1> USE DEF LedgerTypeOK
  <1>1. ASSUME NEW c \in Calls, ClaimAutonomousPaidAttempt(c), ~UNCHANGED attempts
        PROVE  Rationed'
    <2>1. /\ attempts' = [attempts EXCEPT ![c] = DayOf(clock)] /\ UNCHANGED made
          /\ Cardinality({x \in Calls : attempts[x] = DayOf(clock)}) < AttemptLimit
          /\ Goto(c, "calling")
      BY <1>1 DEF ClaimAutonomousPaidAttempt
    <2>2. DayOf(clock) \in 0 .. DayOf(MaxTime)
      BY DaysAreTyped
    <2>3. DayOf(clock) # NoAttempt
      BY <2>2 DEF NoAttempt
    <2>4. ASSUME NEW d \in 0 .. DayOf(MaxTime)
          PROVE  Cardinality({x \in Autonomous : attempts'[x] = d}) <= AttemptLimit
      <3> DEFINE Before == {x \in Autonomous : attempts[x] = d}
                 After == {x \in Autonomous : attempts'[x] = d}
                 Today == {x \in Calls : attempts[x] = DayOf(clock)}
      <3>1. Before \subseteq Calls /\ After \subseteq Calls /\ Today \subseteq Calls
        BY <1>0
      <3>2. CASE d # DayOf(clock)
        <4>1. After \subseteq Before
          BY <1>0, <2>1, <3>2
        <4>2. Cardinality(After) <= Cardinality(Before)
          BY <3>1, <4>1, AutonomousIsFinite, FS_Subset
        <4>3. Cardinality(Before) <= AttemptLimit
          BY DEF Rationed
        <4> HIDE DEF Before, After
        <4>4. Cardinality(After) <= AttemptLimit
          BY <1>0, <3>1, <4>2, <4>3, AutonomousIsFinite
        <4> QED
          BY <4>4 DEF After
      <3>3. CASE d = DayOf(clock)
        <4>1. After \subseteq Today \cup {c}
          BY <1>0, <2>1, <3>3
        <4>5. Cardinality(Today) < AttemptLimit
          BY <2>1
        <4> HIDE DEF Today, After
        <4>2. /\ Cardinality(After) <= Cardinality(Today \cup {c})
              /\ Cardinality(Today \cup {c}) \in {Cardinality(Today), Cardinality(Today) + 1}
          BY <3>1, <4>1, AutonomousIsFinite, FS_Subset, FS_AddElement
        <4>3. Cardinality(After) <= AttemptLimit
          BY <1>0, <3>1, <4>2, <4>5, AutonomousIsFinite
        <4> QED
          BY <4>3 DEF After
      <3> QED
        BY <3>2, <3>3
    <2>5. ASSUME NEW x \in Autonomous, made'[x] # NotMade \/ calls'[x].step = "calling"
          PROVE  attempts'[x] # NoAttempt
      <3>1. CASE x = c
        BY <1>0, <2>1, <2>3, <3>1
      <3>2. CASE x # c
        BY <1>0, <2>1, <2>5, <3>2 DEF Goto, Rationed
      <3> QED
        BY <3>1, <3>2
    <2> QED
      BY <2>4, <2>5 DEF Rationed
  <1>2. CASE UNCHANGED attempts
    <2>1. \A x \in Autonomous : made'[x] # NotMade \/ calls'[x].step = "calling"
            => attempts[x] # NoAttempt
      <3> SUFFICES ASSUME NEW x \in Autonomous, x \in Calls,
                          made'[x] # NotMade \/ calls'[x].step = "calling"
                   PROVE  attempts[x] # NoAttempt
        BY <1>0
      <3>0. made[x] # NotMade \/ calls[x].step = "calling" => attempts[x] # NoAttempt
        BY DEF Rationed
      <3>1. CASE UNCHANGED <<made, calls>>
        BY <3>0, <3>1
      <3>2. ASSUME NEW c \in Calls,
                   Begin(c) \/ CheckDeferred(c) \/ ReserveModelCall(c)
                     \/ CancelModelReservation(c) \/ CallDies(c)
            PROVE  attempts[x] # NoAttempt
        <4>1. UNCHANGED made
          BY <3>2 DEF Begin, CheckDeferred, ReserveModelCall, CancelModelReservation, CallDies
        <4>2. calls'[x] = calls[x] \/ calls'[x].step # "calling"
          <5>1. \/ \E step \in {"reserving", "claiming"} : Goto(c, step)
                \/ \E at : RefuseAt(c, at)
                \/ calls' = [calls EXCEPT ![c] = [Idle EXCEPT !.step = "checking", !.at = clock]]
                \/ calls' = [calls EXCEPT ![c] = Over]
            BY <3>2 DEF Begin, CheckDeferred, ReserveModelCall, CancelModelReservation, CallDies,
                        Refuse
          <5>2. CASE \E step \in {"reserving", "claiming"} : Goto(c, step)
            BY <5>2 DEF Goto, Call
          <5>3. CASE \E at : RefuseAt(c, at)
            BY <5>3 DEF RefuseAt
          <5>4. CASE calls' = [calls EXCEPT ![c] = Over]
            BY <5>4 DEF Over
          <5>5. CASE calls' = [calls EXCEPT ![c] = [Idle EXCEPT !.step = "checking", !.at = clock]]
            BY <5>5 DEF Idle
          <5> QED
            BY <5>1, <5>2, <5>3, <5>4, <5>5
        <4> QED
          BY <3>0, <4>1, <4>2
      <3>3. ASSUME NEW c \in Calls, CallProvider(c)
            PROVE  attempts[x] # NoAttempt
        BY <3>0, <3>3 DEF CallProvider
      <3>4. ASSUME NEW c \in Calls, Log(c)
            PROVE  attempts[x] # NoAttempt
        <4>1. UNCHANGED made
          BY <3>4 DEF Log
        <4>2. calls'[x].step \in {calls[x].step, "over"}
          <5> DEFINE failed == ProviderError(c, calls[c].result.asEstimated)
          <5> HIDE DEF failed
          <5>1. \/ calls' = [calls EXCEPT ![c] = Over]
                \/ calls' = [calls EXCEPT ![c].result = failed]
            BY <3>4 DEF Log, failed
          <5>2. Over.step = "over"
            BY DEF Over, Idle
          <5> QED
            BY <5>1, <5>2 DEF Call
        <4> QED
          BY <3>0, <4>1, <4>2
      <3>5. ASSUME NEW c \in Calls, ClaimAutonomousPaidAttempt(c)
            PROVE  attempts[x] # NoAttempt
        <4>1. DayOf(clock) \in Nat
          BY DaysAreTyped, CostConstants
        <4>2. CASE x # c
          BY <3>0, <3>5, <4>2 DEF ClaimAutonomousPaidAttempt, Goto
        <4>3. CASE x = c
          <5>1. CASE Goto(c, "cancelling")
            BY <3>0, <3>5, <4>3, <5>1 DEF ClaimAutonomousPaidAttempt, Goto, Call
          <5>2. CASE attempts' = [attempts EXCEPT ![c] = DayOf(clock)] /\ Goto(c, "calling")
            BY <1>2, <4>1, <4>3, <5>2 DEF NoAttempt
          <5> QED
            BY <3>5, <4>3, <5>1, <5>2 DEF ClaimAutonomousPaidAttempt
        <4> QED
          BY <4>2, <4>3
      <3> QED
        BY <3>1, <3>2, <3>3, <3>4, <3>5
           DEF LedgerNext, ledgervars, Tick, ReplayDeferredCostEvents
    <2> QED
      BY <1>2, <2>1 DEF Rationed
  <1>3. CASE UNCHANGED attempts \/ \E c \in Calls : ClaimAutonomousPaidAttempt(c)
    BY <1>1, <1>2, <1>3
  <1> QED
    BY <1>2, <1>3
       DEF LedgerNext, ledgervars, Tick, ReplayDeferredCostEvents, Begin, CheckDeferred,
           ReserveModelCall, CancelModelReservation, CallProvider, Log, CallDies

\* No autonomous call reaches the provider without an attempt, and the attempts
\* of a day stay within the limit, for any number of calls at once.
THEOREM AttemptsAreRationed == LedgerSpec => []AutonomousCallsAreRationed
  <1>1. LedgerInit => Rationed
    <2> SUFFICES ASSUME LedgerInit PROVE Rationed
      OBVIOUS
    <2>1. \A d \in 0 .. DayOf(MaxTime) : {c \in Autonomous : attempts[c] = d} = {}
      BY CostConstants DEF LedgerInit, NoAttempt
    <2>2. Cardinality({}) <= AttemptLimit
      BY FS_EmptySet, CostConstants
    <2> QED
      BY <2>1, <2>2, CostConstants DEF LedgerInit, Rationed, Idle
  <1>2. LedgerTypeOK /\ Rationed /\ [LedgerNext]_ledgervars => Rationed'
    BY RationedStays
  <1>3. Rationed => AutonomousCallsAreRationed
    BY DEF Rationed, AutonomousCallsAreRationed
  <1> QED
    BY <1>1, <1>2, <1>3, LedgerTypeCorrect, PTL DEF LedgerSpec

-----------------------------------------------------------------------------
\* What the limits see of the calls: the paid rows of S whose time is in T.
PaidIn(S, T) == {c \in S : events[c].status \in Paid /\ events[c].at \in T}

PaidWithinLimits ==
  \A scope \in Scopes, window \in Windows :
    \A S \in Groups(scope), T \in Spans(window) :
      Cardinality(PaidIn(S, T)) <= CallLimit[scope][window]

LEMMA GroupsAreCalls ==
  ASSUME NEW scope \in Scopes, NEW S \in Groups(scope)
  PROVE  S \subseteq Calls
  BY DEF Groups

LEMMA GroupOfCall ==
  ASSUME NEW scope \in Scopes, NEW S \in Groups(scope), NEW c \in S
  PROVE  S = InScope(c, scope)
  BY DEF Groups, InScope, Scopes

LEMMA DayIsUnique ==
  ASSUME NEW t \in Nat, NEW l \in Nat \ {0}, NEW d \in Nat, d * l <= t, t <= (d + 1) * l - 1
  PROVE  t \div l = d
  <1>1. t < (d + 1) * l
    OBVIOUS
  <1> QED
    BY <1>1

\* The rows of a span that a reservation of c at time now falls into are all
\* looked at by the check of that reservation, whatever their time.
LEMMA SpansAreSeen ==
  ASSUME LedgerTypeOK, NEW window \in Windows, NEW T \in Spans(window),
         NEW now \in Times, now \in T, NEW c \in Calls,
         events[c].status \in Paid, events[c].at \in T
  PROVE  c \in InWindow(window, now)
  <1>1. events[c].at \in Nat /\ now \in Nat /\ DayLength \in Nat \ {0}
    BY CostConstants DEF LedgerTypeOK, Row, Times
  <1>2. events[c].status # "none"
    BY DEF Paid
  <1>3. CASE window = "day"
    <2>1. PICK d \in 0 .. DayOf(MaxTime) : T = Day(d)
      BY <1>3 DEF Spans
    <2>4. DayOf(MaxTime) \in Nat
      BY DayLemma, CostConstants DEF DayOf
    <2>2. d \in Nat /\ d * DayLength <= now /\ now <= (d + 1) * DayLength - 1
          /\ d * DayLength <= events[c].at /\ events[c].at <= (d + 1) * DayLength - 1
      BY <1>1, <2>1, <2>4 DEF Day
    <2>3. DayOf(now) = d /\ DayOf(events[c].at) = d
      BY <1>1, <2>2, DayIsUnique DEF DayOf
    <2> QED
      BY <1>2, <1>3, <2>3 DEF InWindow
  <1>4. CASE window = "rolling"
    <2>1. PICK t \in Times : T = t .. t + DayLength
      BY <1>4 DEF Spans
    <2>2. events[c].at >= now - DayLength
      BY <1>1, <2>1, CostConstants DEF Times
    <2> QED
      BY <1>2, <1>4, <2>2 DEF InWindow
  <1> QED
    BY <1>3, <1>4 DEF Windows

\* A row only becomes a paid one by a reservation, and keeps its time.
LEMMA PaidByReservation ==
  ASSUME LedgerTypeOK, AllCounted, [LedgerNext]_ledgervars, NEW d \in Calls,
         events'[d].status \in Paid
  PROVE  \/ events[d].status \in Paid /\ events'[d].at = events[d].at
         \/ /\ ReserveModelCall(d) /\ Fits(d, calls[d].at)
            /\ events'[d].at = calls[d].at
            /\ \A x \in Calls \ {d} : events'[x] = events[x]
  <1>0. /\ \A c \in Calls : Counted(c)
        /\ events = [c \in Calls |-> events[c]]
    BY DEF AllCounted, LedgerTypeOK
  <1>1. CASE UNCHANGED events
    BY <1>1
  <1>2. CASE ReplayDeferredCostEvents
    <2>1. ASSUME NEW line \in deferred, line.event = d, events'[d] = line.row
          PROVE  events[d].status \in Paid /\ events'[d].at = events[d].at
      <3>1. Settles(d, line.row)
        BY <1>0, <2>1 DEF Counted
      <3>2. made[d] # NotMade /\ line.row.at = made[d].at
        BY <2>1, <3>1 DEF Settles, Paid
      <3> QED
        BY <1>0, <2>1, <3>2 DEF Counted
    <2> QED
      BY <1>2, <2>1, BroughtIn
  <1>3. ASSUME NEW c \in Calls, ReserveModelCall(c), ~UNCHANGED events
        PROVE  \/ events[d].status \in Paid /\ events'[d].at = events[d].at
               \/ /\ ReserveModelCall(d) /\ Fits(d, calls[d].at)
                  /\ events'[d].at = calls[d].at
                  /\ \A x \in Calls \ {d} : events'[x] = events[x]
    <2>1. /\ Fits(c, calls[c].at)
          /\ events' = [events EXCEPT ![c] =
                [status |-> "reserved", at |-> calls[c].at, cost |-> Reserve,
                 asEstimated |-> TRUE]]
      BY <1>3 DEF ReserveModelCall
    <2>2. CASE c = d
      BY <1>0, <1>3, <2>1, <2>2
    <2>3. CASE c # d
      BY <1>0, <2>1, <2>3
    <2> QED
      BY <2>2, <2>3
  <1>4. ASSUME NEW c \in Calls, CancelModelReservation(c), ~UNCHANGED events
        PROVE  events[d].status \in Paid /\ events'[d].at = events[d].at
    <2>1. events' = [events EXCEPT ![c].status = "cancelled", ![c].cost = 0]
      BY <1>4 DEF CancelModelReservation
    <2>2. events'[c].status = "cancelled"
      BY <2>1 DEF LedgerTypeOK, Row
    <2>3. c # d
      BY <2>2 DEF Paid
    <2> QED
      BY <1>0, <2>1, <2>3
  <1>5. ASSUME NEW c \in Calls, Log(c), ~UNCHANGED events
        PROVE  events[d].status \in Paid /\ events'[d].at = events[d].at
    <2>1. events' = [events EXCEPT ![c] = calls[c].result] /\ calls[c].step = "logging"
      BY <1>5 DEF Log, Persist
    <2>2. CASE c # d
      BY <1>0, <2>1, <2>2
    <2>3. CASE c = d
      <3>1. Settles(d, calls[d].result) /\ events'[d] = calls[d].result
        BY <1>0, <2>1, <2>3 DEF Counted
      <3>2. made[d] # NotMade /\ calls[d].result.at = made[d].at
        BY <3>1 DEF Settles, Paid
      <3> QED
        BY <1>0, <3>1, <3>2 DEF Counted
    <2> QED
      BY <2>2, <2>3
  <1> QED
    BY <1>1, <1>2, <1>3, <1>4, <1>5
       DEF LedgerNext, ledgervars, Tick, Begin, CheckDeferred, ClaimAutonomousPaidAttempt,
           CallProvider, CallDies

LEMMA LimitsStay ==
  ASSUME LedgerTypeOK, AllCounted, PaidWithinLimits, [LedgerNext]_ledgervars
  PROVE  PaidWithinLimits'
  <1> SUFFICES ASSUME NEW scope \in Scopes, NEW window \in Windows,
                      NEW S \in Groups(scope), NEW T \in Spans(window)
               PROVE  Cardinality(PaidIn(S, T)') <= CallLimit[scope][window]
    BY DEF PaidWithinLimits, Groups, Spans, Day, DayOf, Times, PaidIn
  <1> DEFINE Before == PaidIn(S, T)
             After == PaidIn(S, T)'
             limit == CallLimit[scope][window]
  <1>1. /\ S \subseteq Calls /\ Before \subseteq Calls /\ After \subseteq Calls
        /\ limit \in Nat
    BY GroupsAreCalls, CostConstants DEF PaidIn
  <1>2. /\ IsFiniteSet(Before) /\ Cardinality(Before) \in Nat
        /\ IsFiniteSet(After) /\ Cardinality(After) \in Nat
    BY <1>1, AutonomousIsFinite
  <1>3. Cardinality(Before) <= limit
    BY DEF PaidWithinLimits
  <1>4. CASE After \subseteq Before
    <2>1. Cardinality(After) <= Cardinality(Before)
      BY <1>2, <1>4, FS_Subset
    <2> HIDE DEF After, Before, limit
    <2>2. Cardinality(After) <= limit
      BY <1>1, <1>2, <1>3, <2>1
    <2> QED
      BY <2>2 DEF After, limit
  <1>5. ASSUME NEW c \in After, c \notin Before PROVE Cardinality(After) <= limit
    <2>1. /\ c \in S /\ c \in Calls /\ events'[c].status \in Paid /\ events'[c].at \in T
          /\ ~(events[c].status \in Paid /\ events'[c].at = events[c].at)
      BY <1>1, <1>5 DEF PaidIn
    <2>2. /\ Fits(c, calls[c].at) /\ events'[c].at = calls[c].at
          /\ \A x \in Calls \ {c} : events'[x] = events[x]
          /\ ReserveModelCall(c)
      BY <2>1, PaidByReservation
    <2>3. After \subseteq Before \cup {c}
      BY <1>1, <2>2 DEF PaidIn
    <2> DEFINE seen == InWindow(window, calls[c].at) \cap InScope(c, scope)
    <2>4. Before \subseteq Used(seen)
      <3>1. calls[c].at \in Times /\ calls[c].at \in T
        BY <2>1, <2>2 DEF LedgerTypeOK, Call
      <3>2. S = InScope(c, scope)
        BY <2>1, GroupOfCall
      <3>3. ASSUME NEW x \in Before PROVE x \in Used(seen)
        <4>1. x \in S /\ x \in Calls /\ events[x].status \in Paid /\ events[x].at \in T
          BY <1>1, <3>3 DEF PaidIn
        <4>2. x \in InWindow(window, calls[c].at)
          BY <3>1, <4>1, SpansAreSeen
        <4> QED
          BY <3>2, <4>1, <4>2 DEF Used
      <3> QED
        BY <3>3
    <2>5. Cardinality(Used(seen)) + 1 <= limit
      BY <2>2 DEF Fits
    <2>6. Used(seen) \subseteq Calls
      BY DEF Used, InWindow
    <2> HIDE DEF seen, Before, After, limit
    <2>7. Cardinality(Before) <= Cardinality(Used(seen)) /\ Cardinality(Used(seen)) \in Nat
      BY <2>4, <2>6, AutonomousIsFinite, FS_Subset
    <2>8. Cardinality(Before \cup {c}) \in {Cardinality(Before), Cardinality(Before) + 1}
          /\ IsFiniteSet(Before \cup {c})
      BY <1>2, FS_AddElement
    <2>9. Cardinality(After) <= Cardinality(Before \cup {c})
      BY <2>3, <2>8, FS_Subset
    <2> QED
      BY <1>1, <1>2, <2>5, <2>7, <2>8, <2>9
  <1> HIDE DEF After, Before
  <1>6. Cardinality(After) <= limit
    BY <1>4, <1>5 DEF After, limit
  <1> QED
    BY <1>6 DEF After

\* In no UTC day and in no 24 hours do more calls reach the provider than the
\* limits of everybody and of each agent allow, for any number of processes: a
\* call that is made keeps its paid row, and a row only becomes a paid one in the
\* transaction that has counted every paid row of its windows.
THEOREM CallLimitsAreKept == LedgerSpec => []CallLimitsHold
  <1>1. LedgerInit => PaidWithinLimits
    <2> SUFFICES ASSUME LedgerInit, NEW scope \in Scopes, NEW window \in Windows,
                        NEW S \in Groups(scope), NEW T \in Spans(window)
                 PROVE  Cardinality(PaidIn(S, T)) <= CallLimit[scope][window]
      BY DEF PaidWithinLimits
    <2>1. PaidIn(S, T) = {}
      BY GroupsAreCalls DEF LedgerInit, PaidIn, NoRow, Paid
    <2>2. CallLimit[scope][window] \in Nat
      BY CostConstants
    <2> QED
      BY <2>1, <2>2, FS_EmptySet
  <1>2. LedgerTypeOK /\ AllCounted /\ PaidWithinLimits /\ [LedgerNext]_ledgervars
          => PaidWithinLimits'
    BY LimitsStay
  <1>3. AllCounted /\ PaidWithinLimits => CallLimitsHold
    <2> SUFFICES ASSUME AllCounted, PaidWithinLimits,
                        NEW scope \in Scopes, NEW window \in Windows,
                        NEW S \in Groups(scope), NEW T \in Spans(window)
                 PROVE  Cardinality(MadeIn(S, T)) <= CallLimit[scope][window]
      BY DEF CallLimitsHold
    <2>1. MadeIn(S, T) \subseteq PaidIn(S, T) /\ PaidIn(S, T) \subseteq Calls
      BY GroupsAreCalls DEF MadeIn, PaidIn, AllCounted, Counted
    <2>2. Cardinality(MadeIn(S, T)) <= Cardinality(PaidIn(S, T))
          /\ Cardinality(MadeIn(S, T)) \in Nat /\ Cardinality(PaidIn(S, T)) \in Nat
      BY <2>1, AutonomousIsFinite, FS_Subset
    <2>3. Cardinality(PaidIn(S, T)) <= CallLimit[scope][window]
          /\ CallLimit[scope][window] \in Nat
      BY CostConstants DEF PaidWithinLimits
    <2> QED
      BY <2>2, <2>3
  <1> QED
    BY <1>1, <1>2, <1>3, LedgerTypeCorrect, AlwaysCounted, PTL DEF LedgerSpec

-----------------------------------------------------------------------------
(* Sums over finite sets.  The induction is on the subsets: of those that   *)
(* would refute a lemma, one is smallest.                                   *)

\* What a sum adds first.
First(s) == CHOOSE x \in s : TRUE

\* A function that sums cost over the subsets of S, as the library's folds do.
Sums(g, cost, S) ==
  g = [s \in SUBSET S |-> IF s = {} THEN 0 ELSE cost[First(s)] + g[s \ {First(s)}]]

LEMMA SumUnfolds ==
  ASSUME NEW cost, NEW S
  PROVE  SumFunctionOnSet(cost, S) = (CHOOSE g : Sums(g, cost, S))[S]
  BY DEF SumFunctionOnSet, FoldFunctionOnSet, MapThenFoldSet, First, Sums

\* Among the subsets of a finite set with some property one is smallest.
LEMMA SmallestSubset ==
  ASSUME NEW S, IsFiniteSet(S), NEW W \in SUBSET SUBSET S, W # {}
  PROVE  \E t \in W : \A u \in SUBSET t : u # t => u \notin W
  <1>1. FiniteSubsetsOf(S) = SUBSET S
    BY FS_FiniteSubsetsOfFinite
  <1>2. IsWellFoundedOn(StrictSubsetOrdering(S), SUBSET S)
    BY <1>1, FS_StrictSubsetOrderingWellFounded
  <1>3. PICK t \in W : \A u \in W : ~ (<<u, t>> \in StrictSubsetOrdering(S))
    BY <1>2, WFMin
  <1> QED
    BY <1>3 DEF StrictSubsetOrdering

LEMMA FirstIsIn == \A s : s # {} => First(s) \in s
  BY DEF First

\* Two such functions agree wherever both are defined.
LEMMA SumsAgree ==
  ASSUME NEW cost, NEW S, IsFiniteSet(S), NEW A \in SUBSET S, NEW B \in SUBSET S,
         NEW g, NEW h, Sums(g, cost, A), Sums(h, cost, B),
         NEW t \in SUBSET A, t \subseteq B
  PROVE  g[t] = h[t]
  <1> DEFINE W == {u \in SUBSET (A \cap B) : g[u] # h[u]}
  <1> SUFFICES ASSUME W # {} PROVE FALSE
    OBVIOUS
  <1>1. PICK u \in W : \A v \in SUBSET u : v # u => v \notin W
    <2>1. W \in SUBSET SUBSET S
      OBVIOUS
    <2> HIDE DEF W
    <2> QED
      BY <2>1, SmallestSubset
  <1>2. /\ g[u] = IF u = {} THEN 0 ELSE cost[First(u)] + g[u \ {First(u)}]
        /\ h[u] = IF u = {} THEN 0 ELSE cost[First(u)] + h[u \ {First(u)}]
    <2>1. u \in SUBSET A /\ u \in SUBSET B
      BY <1>1
    <2> QED
      BY <2>1 DEF Sums
  <1>3. u # {} => g[u \ {First(u)}] = h[u \ {First(u)}]
    BY <1>1, FirstIsIn
  <1> QED
    BY <1>1, <1>2, <1>3

\* There is one on every finite set.
LEMMA SumsExist ==
  ASSUME NEW S, IsFiniteSet(S), NEW cost
  PROVE  \E g : Sums(g, cost, S)
  <1> DEFINE W == {t \in SUBSET S : ~ \E g : Sums(g, cost, t)}
  <1> SUFFICES ASSUME W # {} PROVE FALSE
    OBVIOUS
  <1>1. PICK t \in W : \A v \in SUBSET t : v # t => v \notin W
    <2>1. W \in SUBSET SUBSET S
      OBVIOUS
    <2> HIDE DEF W
    <2> QED
      BY <2>1, SmallestSubset
  <1> DEFINE G(u) == CHOOSE g : Sums(g, cost, u)
             Value(u) == IF u = {} THEN 0
                         ELSE cost[First(u)] + G(u \ {First(u)})[u \ {First(u)}]
             g == [u \in SUBSET t |-> Value(u)]
  <1>2. ASSUME NEW u \in SUBSET t, u # t PROVE Sums(G(u), cost, u)
    <2>1. \E h : Sums(h, cost, u)
      BY <1>1, <1>2
    <2> QED
      BY <2>1
  <1>3. ASSUME NEW u \in SUBSET t, u # t PROVE G(u)[u] = Value(u)
    <2>1. Sums(G(u), cost, u)
      BY <1>2, <1>3
    <2>2. G(u)[u] = IF u = {} THEN 0 ELSE cost[First(u)] + G(u)[u \ {First(u)}]
      <3> HIDE DEF G
      <3> QED
        BY <2>1 DEF Sums
    <2>3. ASSUME u # {} PROVE G(u)[u \ {First(u)}] = G(u \ {First(u)})[u \ {First(u)}]
      <3> DEFINE v == u \ {First(u)}
      <3>1. v \in SUBSET t /\ v # t /\ v \in SUBSET u /\ u \in SUBSET S /\ v \in SUBSET S
        BY <2>3, FirstIsIn, <1>1
      <3>2. Sums(G(v), cost, v)
        BY <3>1, <1>2
      <3> HIDE DEF G, v
      <3>3. G(u)[v] = G(v)[v]
        BY <2>1, <3>1, <3>2, SumsAgree
      <3> QED
        BY <3>3 DEF v
    <2> QED
      BY <2>2, <2>3
  <1>4. Sums(g, cost, t)
    <2>1. ASSUME NEW u \in SUBSET t, u # {}
          PROVE  Value(u) = cost[First(u)] + g[u \ {First(u)}]
      <3>1. u \ {First(u)} \in SUBSET t /\ u \ {First(u)} # t
        BY <2>1, FirstIsIn
      <3>2. G(u \ {First(u)})[u \ {First(u)}] = Value(u \ {First(u)})
        BY <3>1, <1>3
      <3> HIDE DEF G
      <3> QED
        BY <2>1, <3>1, <3>2
    <2>2. \A u \in SUBSET t :
            g[u] = IF u = {} THEN 0 ELSE cost[First(u)] + g[u \ {First(u)}]
      <3>1. Value({}) = 0
        OBVIOUS
      <3>2. \A u \in SUBSET t : g[u] = Value(u)
        OBVIOUS
      <3> HIDE DEF g, Value
      <3> QED
        BY <2>1, <3>1, <3>2
    <2>3. g = [u \in SUBSET t |-> g[u]]
      OBVIOUS
    <2> HIDE DEF g
    <2> QED
      BY <2>2, <2>3 DEF Sums
  <1> QED
    BY <1>1, <1>4

\* The equations of the library's sum ...
LEMMA SumStep ==
  ASSUME NEW S, IsFiniteSet(S), NEW cost
  PROVE  SumFunctionOnSet(cost, S) =
           IF S = {} THEN 0
           ELSE cost[First(S)] + SumFunctionOnSet(cost, S \ {First(S)})
  <1> DEFINE G(u) == CHOOSE g : Sums(g, cost, u)
             v == S \ {First(S)}
  <1>1. IsFiniteSet(v)
    BY FS_Subset
  <1>2. Sums(G(S), cost, S) /\ Sums(G(v), cost, v)
    BY <1>1, SumsExist
  <1>3. SumFunctionOnSet(cost, S) = G(S)[S] /\ SumFunctionOnSet(cost, v) = G(v)[v]
    BY SumUnfolds
  <1>4. G(S)[v] = G(v)[v]
    <2>1. v \in SUBSET S /\ S \in SUBSET S /\ v \in SUBSET v
      OBVIOUS
    <2> HIDE DEF G, v
    <2> QED
      BY <1>2, <2>1, SumsAgree
  <1>5. G(S)[S] = IF S = {} THEN 0 ELSE cost[First(S)] + G(S)[v]
    <2> HIDE DEF G
    <2> QED
      BY <1>2 DEF Sums
  <1> HIDE DEF G
  <1> QED
    BY <1>3, <1>4, <1>5

\* ... in the order in which one wants to add.
LEMMA SumIsNatural ==
  ASSUME NEW S, IsFiniteSet(S), NEW cost \in [S -> Nat], NEW T \in SUBSET S
  PROVE  SumFunctionOnSet(cost, T) \in Nat
  <1> DEFINE W == {t \in SUBSET S : SumFunctionOnSet(cost, t) \notin Nat}
  <1> SUFFICES ASSUME W # {} PROVE FALSE
    OBVIOUS
  <1>1. PICK t \in W : \A v \in SUBSET t : v # t => v \notin W
    <2>1. W \in SUBSET SUBSET S
      OBVIOUS
    <2> HIDE DEF W
    <2> QED
      BY <2>1, SmallestSubset
  <1>2. IsFiniteSet(t)
    BY <1>1, FS_Subset
  <1>3. t # {} => SumFunctionOnSet(cost, t \ {First(t)}) \in Nat /\ cost[First(t)] \in Nat
    BY <1>1, FirstIsIn
  <1>4. SumFunctionOnSet(cost, t) \in Nat
    <2>1. CASE t = {}
      <3>1. SumFunctionOnSet(cost, t) = 0
        BY <1>2, <2>1, SumStep
      <3> QED
        BY <3>1
    <2>2. CASE t # {}
      <3>1. SumFunctionOnSet(cost, t) = cost[First(t)] + SumFunctionOnSet(cost, t \ {First(t)})
        BY <1>2, <2>2, SumStep
      <3> QED
        BY <1>3, <2>2, <3>1
    <2> QED
      BY <2>1, <2>2
  <1> QED
    BY <1>1, <1>4

LEMMA SumAdds ==
  ASSUME NEW S, IsFiniteSet(S), NEW cost \in [S -> Nat], NEW T \in SUBSET S, NEW x \in T
  PROVE  SumFunctionOnSet(cost, T) = SumFunctionOnSet(cost, T \ {x}) + cost[x]
  <1> DEFINE Adds(t) == \A y \in t : SumFunctionOnSet(cost, t) = SumFunctionOnSet(cost, t \ {y}) + cost[y]
             W == {t \in SUBSET S : ~Adds(t)}
  <1> SUFFICES ASSUME W # {} PROVE FALSE
    OBVIOUS
  <1>1. PICK t \in W : \A v \in SUBSET t : v # t => v \notin W
    <2>1. W \in SUBSET SUBSET S
      OBVIOUS
    <2> HIDE DEF W
    <2> QED
      BY <2>1, SmallestSubset
  <1>2. PICK y \in t : SumFunctionOnSet(cost, t) # SumFunctionOnSet(cost, t \ {y}) + cost[y]
    BY <1>1
  <1> DEFINE f == First(t)
  <1>3. f \in t /\ t \in SUBSET S /\ cost[f] \in Nat /\ cost[y] \in Nat
    BY <1>1, <1>2, FirstIsIn
  <1>4. SumFunctionOnSet(cost, t) = cost[f] + SumFunctionOnSet(cost, t \ {f})
    <2>1. IsFiniteSet(t)
      BY <1>3, FS_Subset
    <2> QED
      BY <1>2, <2>1, SumStep
  <1>5. f # y
    <2>1. SumFunctionOnSet(cost, t \ {f}) \in Nat
      BY <1>3, SumIsNatural
    <2> QED
      BY <1>2, <1>3, <1>4, <2>1
  <1> HIDE DEF f
  <1>6. Adds(t \ {f}) /\ Adds(t \ {y})
    BY <1>1, <1>2, <1>3
  <1> DEFINE r == (t \ {f}) \ {y}
  <1>7. SumFunctionOnSet(cost, t \ {f}) = SumFunctionOnSet(cost, r) + cost[y]
    BY <1>2, <1>5, <1>6
  <1>8. SumFunctionOnSet(cost, t \ {y}) = SumFunctionOnSet(cost, r) + cost[f]
    <2>1. (t \ {y}) \ {f} = r
      OBVIOUS
    <2> QED
      BY <1>3, <1>5, <1>6, <2>1
  <1>9. SumFunctionOnSet(cost, r) \in Nat
    BY <1>3, SumIsNatural
  <1> HIDE DEF r
  <1> QED
    BY <1>2, <1>3, <1>4, <1>7, <1>8, <1>9

\* More elements, each at no lower a cost, cost no less.
LEMMA SumGrows ==
  ASSUME NEW S, IsFiniteSet(S), NEW low \in [S -> Nat], NEW high \in [S -> Nat],
         NEW A \in SUBSET S, NEW B \in SUBSET S, A \subseteq B,
         \A x \in A : low[x] <= high[x]
  PROVE  SumFunctionOnSet(low, A) <= SumFunctionOnSet(high, B)
  <1> DEFINE W == {b \in SUBSET B : ~ SumFunctionOnSet(low, A \cap b) <= SumFunctionOnSet(high, b)}
  <1> SUFFICES ASSUME W # {} PROVE FALSE
    <2>1. A \cap B = A
      OBVIOUS
    <2> QED
      BY <2>1
  <1>1. PICK b \in W : \A v \in SUBSET b : v # b => v \notin W
    <2>1. W \in SUBSET SUBSET S
      OBVIOUS
    <2> HIDE DEF W
    <2> QED
      BY <2>1, SmallestSubset
  <1>2. b \in SUBSET S /\ A \cap b \in SUBSET S /\ IsFiniteSet(b)
    BY <1>1, FS_Subset
  <1>3. b # {}
    <2>1. SUFFICES ASSUME b = {} PROVE FALSE
      OBVIOUS
    <2>2. SumFunctionOnSet(low, {}) = 0 /\ SumFunctionOnSet(high, {}) = 0
      BY FS_EmptySet, SumStep
    <2>3. A \cap b = {}
      BY <2>1
    <2> QED
      BY <1>1, <2>1, <2>2, <2>3
  <1>4. PICK x \in b : TRUE
    BY <1>3
  <1> DEFINE r == b \ {x}
  <1>5. SumFunctionOnSet(low, A \cap r) <= SumFunctionOnSet(high, r)
    BY <1>1, <1>4
  <1>6. SumFunctionOnSet(high, b) = SumFunctionOnSet(high, r) + high[x]
    BY <1>2, <1>4, SumAdds
  <1>7. /\ SumFunctionOnSet(high, r) \in Nat /\ SumFunctionOnSet(low, A \cap r) \in Nat
        /\ high[x] \in Nat /\ low[x] \in Nat
    BY <1>2, <1>4, SumIsNatural
  <1>8. CASE x \in A
    <2>1. (A \cap b) \ {x} = A \cap r /\ x \in A \cap b
      BY <1>4, <1>8
    <2>2. SumFunctionOnSet(low, A \cap b) = SumFunctionOnSet(low, A \cap r) + low[x]
      BY <1>2, <2>1, SumAdds
    <2> HIDE DEF r
    <2>3. low[x] <= high[x]
      BY <1>8
    <2>4. SumFunctionOnSet(low, A \cap b) <= SumFunctionOnSet(high, b)
      BY <1>5, <1>6, <1>7, <2>2, <2>3
    <2> QED
      BY <1>1, <2>4
  <1>9. CASE x \notin A
    <2>1. A \cap b = A \cap r
      BY <1>9
    <2> HIDE DEF r
    <2>2. SumFunctionOnSet(low, A \cap b) = SumFunctionOnSet(low, A \cap r)
      BY <2>1
    <2>3. SumFunctionOnSet(low, A \cap r) <= SumFunctionOnSet(high, r) + high[x]
      BY <1>5, <1>7
    <2>4. SumFunctionOnSet(low, A \cap b) <= SumFunctionOnSet(high, b)
      BY <1>6, <2>2, <2>3
    <2> QED
      BY <1>1, <2>4
  <1> QED
    BY <1>8, <1>9
-----------------------------------------------------------------------------
\* What a row counts for in the cost limits, and a call that was made.
Charges == [c \in Calls |-> Least(events[c].cost, Reserve)]
MadeCosts == [c \in Calls |-> Least(made[c].cost, Reserve)]
RowCosts == [c \in Calls |-> events[c].cost]

CostsWithinLimits ==
  \A scope \in Scopes, window \in Windows :
    \A S \in Groups(scope), T \in Spans(window) :
      SumFunctionOnSet(Charges, PaidIn(S, T)) <= CostLimit[scope][window]

ReservationsAreWhole == \A c \in Calls : events[c].status = "reserved" => events[c].cost = Reserve

LEMMA CostsAreNumbers == Costs \subseteq Nat /\ Reserve \in Nat
  BY CostConstants DEF Costs

LEMMA CostsAreNatural ==
  ASSUME LedgerTypeOK
  PROVE  /\ Charges \in [Calls -> Nat] /\ MadeCosts \in [Calls -> Nat]
         /\ RowCosts \in [Calls -> Nat]
         /\ \A c \in Calls : Charges[c] <= RowCosts[c] /\ Charges[c] <= Reserve
  <1>1. Reserve \in Nat /\ Costs \subseteq Nat
    BY CostsAreNumbers
  <1>2. \A c \in Calls : events[c].cost \in Nat /\ made[c].cost \in Nat
    BY <1>1 DEF LedgerTypeOK, Row
  <1> QED
    BY <1>1, <1>2 DEF Charges, MadeCosts, RowCosts, Least

\* A reservation holds the whole of the reserved cost until it is settled.
LEMMA ReservationsStayWhole ==
  ASSUME LedgerTypeOK, AllCounted, ReservationsAreWhole, [LedgerNext]_ledgervars
  PROVE  ReservationsAreWhole'
  <1> SUFFICES ASSUME NEW d \in Calls, events'[d].status = "reserved"
               PROVE  events'[d].cost = Reserve
    BY DEF ReservationsAreWhole
  <1>0. /\ \A c \in Calls : Counted(c)
        /\ events = [c \in Calls |-> events[c]]
        /\ events[d].status = "reserved" => events[d].cost = Reserve
    BY DEF AllCounted, LedgerTypeOK, ReservationsAreWhole
  <1>1. CASE events'[d] = events[d]
    BY <1>0, <1>1
  <1>2. CASE ReplayDeferredCostEvents
    <2>1. ASSUME NEW line \in deferred, line.event = d, events'[d] = line.row PROVE FALSE
      BY <1>0, <2>1 DEF Counted, Settles
    <2> QED
      BY <1>1, <1>2, <2>1, BroughtIn
  <1>3. ASSUME NEW c \in Calls, ReserveModelCall(c) PROVE events'[d].cost = Reserve
    <2>1. CASE events' = events
      BY <1>1, <2>1
    <2>2. CASE events' = [events EXCEPT ![c] =
                [status |-> "reserved", at |-> calls[c].at, cost |-> Reserve,
                 asEstimated |-> TRUE]]
      BY <1>0, <2>2
    <2> QED
      BY <1>3, <2>1, <2>2 DEF ReserveModelCall
  <1>4. ASSUME NEW c \in Calls, CancelModelReservation(c) PROVE events'[d].cost = Reserve
    <2>1. CASE events' = events
      BY <1>1, <2>1
    <2>2. CASE events' = [events EXCEPT ![c].status = "cancelled", ![c].cost = 0]
      <3>1. events'[c].status = "cancelled"
        BY <2>2 DEF LedgerTypeOK, Row
      <3>2. c # d
        BY <3>1
      <3> QED
        BY <1>0, <2>2, <3>2
    <2> QED
      BY <1>4, <2>1, <2>2 DEF CancelModelReservation
  <1>5. ASSUME NEW c \in Calls, Log(c) PROVE events'[d].cost = Reserve
    <2>1. CASE events' = events
      BY <1>1, <2>1
    <2>2. CASE events' = [events EXCEPT ![c] = calls[c].result]
      <3>1. Settles(c, calls[c].result)
        BY <1>0, <1>5 DEF Counted, Log
      <3>2. c # d
        BY <1>0, <2>2, <3>1 DEF Settles
      <3> QED
        BY <1>0, <2>2, <3>2
    <2> QED
      BY <1>5, <2>1, <2>2 DEF Log, Persist
  <1> QED
    BY <1>1, <1>2, <1>3, <1>4, <1>5
       DEF LedgerNext, ledgervars, Tick, Begin, CheckDeferred, ClaimAutonomousPaidAttempt,
           CallProvider, CallDies

\* Settling a reservation charges no more than was reserved.
LEMMA ChargesFall ==
  ASSUME LedgerTypeOK, LedgerTypeOK', AllCounted, ReservationsAreWhole,
         [LedgerNext]_ledgervars, NEW d \in Calls, events[d].status \in Paid
  PROVE  Charges'[d] <= Charges[d]
  <1>1. CASE events[d].status = "reserved"
    <2>1. Charges[d] = Reserve
      BY <1>1, CostConstants DEF ReservationsAreWhole, Charges, Least
    <2>2. Charges'[d] <= Reserve
      <3>1. events'[d].cost \in Nat /\ Reserve \in Nat
        BY CostsAreNumbers DEF LedgerTypeOK, Row
      <3> QED
        BY <3>1 DEF Charges, Least
    <2> QED
      BY <2>1, <2>2
  <1>2. CASE events[d].status # "reserved"
    <2>1. events'[d] = events[d]
      BY <1>2, SettledStays DEF Paid
    <2>2. Charges'[d] = Charges[d]
      BY <2>1 DEF Charges
    <2>3. Charges[d] \in Nat
      BY CostsAreNatural
    <2> QED
      BY <2>2, <2>3
  <1> QED
    BY <1>1, <1>2

\* What a reservation adds, and what has been charged before, is within the limit
\* that the reservation has looked at.
LEMMA CostsStay ==
  ASSUME LedgerTypeOK, LedgerTypeOK', AllCounted, ReservationsAreWhole,
         CostsWithinLimits, [LedgerNext]_ledgervars
  PROVE  CostsWithinLimits'
  <1> SUFFICES ASSUME NEW scope \in Scopes, NEW window \in Windows,
                      NEW S \in Groups(scope), NEW T \in Spans(window)
               PROVE  SumFunctionOnSet(Charges', PaidIn(S, T)') <= CostLimit[scope][window]
    BY DEF CostsWithinLimits, Groups, Spans, Day, DayOf, Times, PaidIn, Charges
  <1> DEFINE Before == PaidIn(S, T)
             After == PaidIn(S, T)'
             charges == Charges
             charges_ == Charges'
             limit == CostLimit[scope][window]
  <1>1. /\ S \subseteq Calls /\ Before \in SUBSET Calls /\ After \in SUBSET Calls
        /\ limit \in Nat /\ IsFiniteSet(Calls) /\ Reserve \in Nat
    BY GroupsAreCalls, CostConstants DEF PaidIn
  <1>2. charges \in [Calls -> Nat] /\ RowCosts \in [Calls -> Nat]
        /\ \A x \in Calls : charges[x] <= RowCosts[x]
    BY CostsAreNatural
  <1>3. charges_ \in [Calls -> Nat] /\ \A x \in Calls : charges_[x] <= Reserve
    <2>1. \A x \in Calls : events'[x].cost \in Nat
      BY CostsAreNumbers DEF LedgerTypeOK, Row
    <2> QED
      BY <1>1, <2>1 DEF Charges, Least
  <1>4. \A x \in Before : charges_[x] <= charges[x]
    BY <1>1, ChargesFall DEF PaidIn
  <1>5. SumFunctionOnSet(charges, Before) <= limit
    BY DEF CostsWithinLimits
  <1>6. CASE After \subseteq Before
    <2> HIDE DEF After, Before, charges, charges_, limit
    <2>1. \A x \in After : charges_[x] <= charges[x]
      BY <1>4, <1>6
    <2>2. SumFunctionOnSet(charges_, After) <= SumFunctionOnSet(charges, Before)
      BY <1>1, <1>2, <1>3, <1>6, <2>1, SumGrows
    <2>3. /\ SumFunctionOnSet(charges_, After) \in Nat
          /\ SumFunctionOnSet(charges, Before) \in Nat
      BY <1>1, <1>2, <1>3, SumIsNatural
    <2>4. limit \in Nat
      BY <1>1
    <2>5. SumFunctionOnSet(charges_, After) <= limit
      BY <1>5, <2>2, <2>3, <2>4
    <2> QED
      BY <2>5 DEF charges_, After, limit
  <1>7. ASSUME NEW c \in After, c \notin Before
        PROVE  SumFunctionOnSet(charges_, After) <= limit
    <2>1. /\ c \in S /\ c \in Calls /\ events'[c].status \in Paid /\ events'[c].at \in T
          /\ ~(events[c].status \in Paid /\ events'[c].at = events[c].at)
      BY <1>1, <1>7 DEF PaidIn
    <2>2. /\ Fits(c, calls[c].at) /\ events'[c].at = calls[c].at
          /\ \A x \in Calls \ {c} : events'[x] = events[x]
      BY <2>1, PaidByReservation
    <2>3. After \subseteq Before \cup {c}
      BY <1>1, <2>2 DEF PaidIn
    <2> DEFINE seen == InWindow(window, calls[c].at) \cap InScope(c, scope)
               both == Before \cup {c}
    <2>4. Before \subseteq seen /\ seen \in SUBSET Calls
      <3>1. calls[c].at \in Times /\ calls[c].at \in T
        BY <2>1, <2>2 DEF LedgerTypeOK, Call
      <3>2. S = InScope(c, scope)
        BY <2>1, GroupOfCall
      <3>3. ASSUME NEW x \in Before PROVE x \in seen
        <4>1. x \in S /\ x \in Calls /\ events[x].status \in Paid /\ events[x].at \in T
          BY <1>1, <3>3 DEF PaidIn
        <4>2. x \in InWindow(window, calls[c].at)
          BY <3>1, <4>1, SpansAreSeen
        <4> QED
          BY <3>2, <4>1, <4>2
      <3> QED
        BY <3>3 DEF InWindow
    <2>5. SumFunctionOnSet(RowCosts, seen) + Reserve <= limit
      BY <2>2 DEF Fits, Spent, RowCosts
    <2> HIDE DEF After, Before, charges, charges_, limit, seen
    <2>6. both \in SUBSET Calls /\ both \ {c} = Before /\ c \in both
      BY <1>1, <1>7, <2>1
    <2>7. SumFunctionOnSet(charges_, After) <= SumFunctionOnSet(charges_, both)
      <3>1. \A x \in After : charges_[x] <= charges_[x]
        BY <1>1, <1>3
      <3> HIDE DEF both
      <3> QED
        BY <1>1, <1>3, <2>3, <2>6, <3>1, SumGrows DEF both
    <2>8. SumFunctionOnSet(charges_, both) = SumFunctionOnSet(charges_, Before) + charges_[c]
      BY <1>1, <1>3, <2>6, SumAdds
    <2>9. SumFunctionOnSet(charges_, Before) <= SumFunctionOnSet(RowCosts, seen)
      <3>1. \A x \in Before : charges_[x] <= RowCosts[x]
        <4> SUFFICES ASSUME NEW x \in Before PROVE charges_[x] <= RowCosts[x]
          OBVIOUS
        <4>1. x \in Calls /\ charges_[x] \in Nat /\ charges[x] \in Nat /\ RowCosts[x] \in Nat
          BY <1>1, <1>2, <1>3
        <4> QED
          BY <1>2, <1>4, <4>1
      <3> QED
        BY <1>1, <1>2, <1>3, <2>4, <3>1, SumGrows
    <2>10. /\ SumFunctionOnSet(charges_, After) \in Nat
           /\ SumFunctionOnSet(charges_, both) \in Nat
           /\ SumFunctionOnSet(charges_, Before) \in Nat
           /\ SumFunctionOnSet(RowCosts, seen) \in Nat
      BY <1>1, <1>2, <1>3, <2>4, <2>6, SumIsNatural
    <2>11. charges_[c] \in Nat /\ charges_[c] <= Reserve
      BY <1>3, <2>1
    <2> QED
      BY <1>1, <2>5, <2>7, <2>8, <2>9, <2>10, <2>11
  <1>8. SumFunctionOnSet(charges_, After) <= limit
    <2> HIDE DEF After, Before, charges_, limit
    <2> QED
      BY <1>6, <1>7 DEF After, charges_, limit
  <1> QED
    BY <1>8 DEF After, charges_, limit

LEMMA CostsAtFirst == LedgerInit => CostsWithinLimits /\ ReservationsAreWhole
  <1> SUFFICES ASSUME LedgerInit PROVE CostsWithinLimits /\ ReservationsAreWhole
    OBVIOUS
  <1>1. ASSUME NEW scope \in Scopes, NEW window \in Windows,
               NEW S \in Groups(scope), NEW T \in Spans(window)
        PROVE  SumFunctionOnSet(Charges, PaidIn(S, T)) <= CostLimit[scope][window]
    <2>1. PaidIn(S, T) = {}
      BY GroupsAreCalls DEF LedgerInit, PaidIn, NoRow, Paid
    <2>2. CostLimit[scope][window] \in Nat
      BY CostConstants
    <2>3. SumFunctionOnSet(Charges, {}) = 0
      BY FS_EmptySet, SumStep
    <2> QED
      BY <2>1, <2>2, <2>3
  <1>2. ReservationsAreWhole
    BY DEF LedgerInit, ReservationsAreWhole, NoRow
  <1> QED
    BY <1>1, <1>2 DEF CostsWithinLimits

\* In no UTC day and in no 24 hours do the calls that reach the provider cost
\* more than the limits of everybody and of each agent allow, each call taken up
\* to what was reserved for it: for any number of processes, limits and costs.
THEOREM CostLimitsAreKept == LedgerSpec => []CostLimitsHold
  <1>1. LedgerTypeOK /\ LedgerTypeOK' /\ AllCounted /\ ReservationsAreWhole
          /\ CostsWithinLimits /\ [LedgerNext]_ledgervars
          => CostsWithinLimits' /\ ReservationsAreWhole'
    BY CostsStay, ReservationsStayWhole
  <1>2. LedgerTypeOK /\ AllCounted /\ CostsWithinLimits => CostLimitsHold
    <2> SUFFICES ASSUME LedgerTypeOK, AllCounted, CostsWithinLimits,
                        NEW scope \in Scopes, NEW window \in Windows,
                        NEW S \in Groups(scope), NEW T \in Spans(window)
                 PROVE  SumFunctionOnSet(MadeCosts, MadeIn(S, T)) <= CostLimit[scope][window]
      BY DEF CostLimitsHold, MadeCosts
    <2> DEFINE made_ == MadeIn(S, T)
               paid == PaidIn(S, T)
               limit == CostLimit[scope][window]
    <2>1. made_ \subseteq paid /\ paid \in SUBSET Calls /\ made_ \in SUBSET Calls
      BY GroupsAreCalls DEF MadeIn, PaidIn, AllCounted, Counted
    <2>2. MadeCosts \in [Calls -> Nat] /\ Charges \in [Calls -> Nat] /\ IsFiniteSet(Calls)
      BY CostsAreNatural, CostConstants
    <2>3. \A c \in made_ : MadeCosts[c] <= Charges[c]
      <3> SUFFICES ASSUME NEW c \in made_ PROVE MadeCosts[c] <= Charges[c]
        OBVIOUS
      <3>1. c \in Calls /\ events[c].cost \in {made[c].cost, Reserve}
        BY <2>1 DEF MadeIn, AllCounted, Counted
      <3>2. made[c].cost \in Nat /\ Reserve \in Nat
        BY <3>1, CostsAreNumbers DEF LedgerTypeOK
      <3> QED
        BY <3>1, <3>2 DEF MadeCosts, Charges, Least
    <2>4. SumFunctionOnSet(Charges, paid) <= limit /\ limit \in Nat
      BY CostConstants DEF CostsWithinLimits
    <2> HIDE DEF made_, paid, limit
    <2>5. SumFunctionOnSet(MadeCosts, made_) <= SumFunctionOnSet(Charges, paid)
      BY <2>1, <2>2, <2>3, SumGrows
    <2>6. SumFunctionOnSet(MadeCosts, made_) \in Nat /\ SumFunctionOnSet(Charges, paid) \in Nat
      BY <2>1, <2>2, SumIsNatural
    <2> QED
      BY <2>4, <2>5, <2>6 DEF made_, limit
  <1> QED
    BY <1>1, <1>2, CostsAtFirst, LedgerTypeCorrect, AlwaysCounted, PTL DEF LedgerSpec
=============================================================================
