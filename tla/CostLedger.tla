----------------------------- MODULE CostLedger ----------------------------
(***************************************************************************)
(* How cost_router.complete keeps paid model calls inside their call and   *)
(* cost limits.  Any number of processes call it at once.  A call is       *)
(* reserved in llm_cost_events at its greatest possible cost, in one       *)
(* transaction with the check of two windows (the UTC day and the last 24  *)
(* hours) for everybody and for its agent; it then claims an attempt in    *)
(* the guard's own database, asks the provider, and settles its row.  A    *)
(* result that cannot be written goes to an append-only file, which a      *)
(* replay brings into the table later.                                     *)
(***************************************************************************)
EXTENDS Integers, FiniteSets, Functions

CONSTANTS
    Calls,          \* runs of complete(), each with its own event_id
    Agents, AgentOf,
    Autonomous,     \* the calls made inside an autonomous scope
    DayLength,      \* clock ticks in 24 hours
    MaxTime,        \* bound on the clock
    Reserve,        \* the cost reserved for a call
    Actual,         \* what calls may turn out to cost
    CallLimit, CostLimit,   \* by scope and window
    AttemptLimit            \* autonomous_daily_paid_attempt_limit

Scopes == {"global", "agent"}
Windows == {"day", "rolling"}

ASSUME CostConstants ==
    /\ IsFiniteSet(Calls) /\ AgentOf \in [Calls -> Agents] /\ Autonomous \subseteq Calls
    /\ DayLength \in Nat \ {0} /\ MaxTime \in Nat
    /\ Reserve \in Nat \ {0} /\ Actual \subseteq Nat
    /\ CallLimit \in [Scopes -> [Windows -> Nat]]
    /\ CostLimit \in [Scopes -> [Windows -> Nat]]
    /\ AttemptLimit \in Nat

VARIABLES
    clock,
    events,     \* llm_cost_events: one row for each event_id
    attempts,   \* autonomous_paid_attempts: the UTC day of each call's attempt
    deferred,   \* the lines of the deferred cost log
    calls,      \* where each call is in complete()
    made        \* history: the calls that reached the provider, and their cost

ledgervars == <<clock, events, attempts, deferred, calls, made>>

Times == 0 .. MaxTime
DayOf(t) == t \div DayLength
Costs == Actual \cup {0, Reserve}

\* What _paid_attempt_sql counts: reservations, answers and provider errors.
Paid == {"reserved", "answered", "error"}
Statuses == Paid \cup {"none", "cancelled", "unpaid"}

\* asEstimated: the row's prompt_tokens are those of the reservation.
Row == [status: Statuses, at: Times, cost: Costs, asEstimated: BOOLEAN]
NoRow == [status |-> "none", at |-> 0, cost |-> 0, asEstimated |-> TRUE]

Line == [event: Calls, row: Row]
NoAttempt == -1

CallSteps == {"idle", "checking", "reserving", "claiming", "cancelling",
           "calling", "logging", "over"}
Call == [step: CallSteps, at: Times, result: Row]
Idle == [step |-> "idle", at |-> 0, result |-> NoRow]
Over == [Idle EXCEPT !.step = "over"]
NotMade == [at |-> -1, cost |-> 0]

----------------------------------------------------------------------------
(* The windows of _window_usage.                                           *)

InScope(c, scope) ==
    IF scope = "global" THEN Calls ELSE {d \in Calls : AgentOf[d] = AgentOf[c]}

\* A mutant: reservations that have no result yet are not counted.
InWindowSettled(window, now) ==
    {d \in Calls : /\ events[d].status \in Paid \ {"reserved"}
                   /\ IF window = "day" THEN DayOf(events[d].at) = DayOf(now)
                                        ELSE events[d].at >= now - DayLength}

InWindow(window, now) ==
    {d \in Calls : /\ events[d].status # "none"
                   /\ IF window = "day" THEN DayOf(events[d].at) = DayOf(now)
                                        ELSE events[d].at >= now - DayLength}

Used(S) == {d \in S : events[d].status \in Paid}
Spent(S) == SumFunctionOnSet([d \in Calls |-> events[d].cost], S)

\* A mutant: the reservation is added to the count only.
FitsByCallsOnly(c, now) ==
    \A scope \in Scopes, window \in Windows :
        LET rows == InWindow(window, now) \cap InScope(c, scope)
        IN  /\ Cardinality(Used(rows)) + 1 <= CallLimit[scope][window]
            /\ Spent(rows) <= CostLimit[scope][window]

\* _budget_reason finds no reason to refuse.
Fits(c, now) ==
    \A scope \in Scopes, window \in Windows :
        LET rows == InWindow(window, now) \cap InScope(c, scope)
        IN  /\ Cardinality(Used(rows)) + 1 <= CallLimit[scope][window]
            /\ Spent(rows) + Reserve <= CostLimit[scope][window]

----------------------------------------------------------------------------
(* complete(): each step is a read, a transaction or the provider's turn.  *)

\* A mutant: the result has no time.
UnpaidTimeless(at) == [NoRow EXCEPT !.status = "unpaid", !.at = -1]

Unpaid(at) == [NoRow EXCEPT !.status = "unpaid", !.at = at]

\* The fallback response of a call that is not allowed.
RefuseAt(c, at) ==
    calls' = [calls EXCEPT ![c] = [step |-> "logging", at |-> at, result |-> Unpaid(at)]]

\* Nothing looks at the time of an unpaid row, so it is left out.
Refuse(c) == RefuseAt(c, 0)

Goto(c, step) == calls' = [calls EXCEPT ![c].step = step]

\* Credentials, the environment, the provider or an open quota circuit may
\* refuse; if none does, now is read.
Begin(c) ==
    /\ calls[c].step = "idle"
    /\ \/ calls' = [calls EXCEPT ![c] = [Idle EXCEPT !.step = "checking", !.at = clock]]
       \/ Refuse(c)
    /\ UNCHANGED <<clock, events, attempts, deferred, made>>

Reconciled(line) == events[line.event] = line.row

\* deferred_cost_reconciliation_status, before the transaction.
CheckDeferred(c) ==
    /\ calls[c].step = "checking"
    /\ IF \A line \in deferred : Reconciled(line) THEN Goto(c, "reserving") ELSE Refuse(c)
    /\ UNCHANGED <<clock, events, attempts, deferred, made>>

\* The transaction of _reserve_model_call, or its failure.
ReserveModelCall(c) ==
    /\ calls[c].step = "reserving"
    /\ \/ /\ Fits(c, calls[c].at)
          /\ events' = [events EXCEPT ![c] =
                [status |-> "reserved", at |-> calls[c].at, cost |-> Reserve,
                 asEstimated |-> TRUE]]
          /\ Goto(c, "claiming")
       \/ Refuse(c) /\ UNCHANGED events
    /\ UNCHANGED <<clock, attempts, deferred, made>>

\* A mutant: a guard that cannot be read allows the call.
ClaimFailingOpen(c) ==
    /\ calls[c].step = "claiming"
    /\ \/ Goto(c, "calling") /\ UNCHANGED attempts
       \/ /\ Cardinality({d \in Calls : attempts[d] = DayOf(clock)}) < AttemptLimit
          /\ attempts' = [attempts EXCEPT ![c] = DayOf(clock)]
          /\ Goto(c, "calling")
    /\ UNCHANGED <<clock, events, deferred, made>>

\* claim_autonomous_paid_attempt; a guard that cannot be read refuses.
ClaimAutonomousPaidAttempt(c) ==
    /\ calls[c].step = "claiming"
    /\ \/ c \notin Autonomous /\ Goto(c, "calling") /\ UNCHANGED attempts
       \/ /\ c \in Autonomous
          /\ Cardinality({d \in Calls : attempts[d] = DayOf(clock)}) < AttemptLimit
          /\ attempts' = [attempts EXCEPT ![c] = DayOf(clock)]
          /\ Goto(c, "calling")
       \/ c \in Autonomous /\ Goto(c, "cancelling") /\ UNCHANGED attempts
    /\ UNCHANGED <<clock, events, deferred, made>>

\* _cancel_model_reservation swallows its own failure.
CancelModelReservation(c) ==
    /\ calls[c].step = "cancelling"
    /\ \/ events' = [events EXCEPT ![c].status = "cancelled", ![c].cost = 0]
       \/ UNCHANGED events
    /\ RefuseAt(c, calls[c].at)
    /\ UNCHANGED <<clock, attempts, deferred, made>>

\* The provider answers, at a cost that may exceed the reserved one, or fails.
Answer(c) ==
    {[status |-> "answered", at |-> calls[c].at, cost |-> n, asEstimated |-> e] :
        n \in Actual, e \in BOOLEAN}

\* A mutant: a provider error costs nothing.
ProviderErrorRefunded(c, estimated) ==
    [status |-> "unpaid", at |-> calls[c].at, cost |-> 0, asEstimated |-> estimated]

\* What is logged for an exception, at the provider or after its answer.
ProviderError(c, estimated) ==
    [status |-> "error", at |-> calls[c].at, cost |-> Reserve, asEstimated |-> estimated]

CallProvider(c) ==
    /\ calls[c].step = "calling"
    /\ \E r \in Answer(c) \cup {ProviderError(c, e) : e \in BOOLEAN} :
          /\ calls' = [calls EXCEPT ![c].step = "logging", ![c].result = r]
          /\ made' = [made EXCEPT ![c] = [at |-> r.at, cost |-> r.cost]]
    /\ UNCHANGED <<clock, events, attempts, deferred>>

\* _persist_cost_result: finalise a reservation, leave a settled row, or insert.
Persist(c, r) ==
    events' = IF events[c].status \in {"reserved", "none"}
              THEN [events EXCEPT ![c] = r] ELSE events

\* _log: written, put off because the database is locked, or raised.
Log(c) ==
    /\ calls[c].step = "logging"
    /\ \/ /\ Persist(c, calls[c].result)
          /\ calls' = [calls EXCEPT ![c] = Over]
          /\ UNCHANGED deferred
       \/ /\ deferred' = deferred \cup {[event |-> c, row |-> calls[c].result]}
          /\ calls' = [calls EXCEPT ![c] = Over]
          /\ UNCHANGED events
       \/ /\ calls[c].result.status = "answered"
          /\ calls' = [calls EXCEPT ![c].result =
                           ProviderError(c, calls[c].result.asEstimated)]
          /\ UNCHANGED <<events, deferred>>
    /\ UNCHANGED <<clock, attempts, made>>

\* The process dies, or an exception leaves complete().
CallDies(c) ==
    /\ calls[c].step \notin {"idle", "over"}
    /\ calls' = [calls EXCEPT ![c] = Over]
    /\ UNCHANGED <<clock, events, attempts, deferred, made>>
----------------------------------------------------------------------------
(* replay_deferred_cost_events: reads the file, then one transaction.      *)

ReservationMatches(line) ==
    LET row == events[line.event]
    IN  row.status = "reserved" /\ row.at = line.row.at
        /\ row.asEstimated = line.row.asEstimated

Conflicting(line) ==
    /\ events[line.event].status # "none"
    /\ ~Reconciled(line) /\ ~ReservationMatches(line)

BringIn(lines) ==
    events' = [c \in Calls |-> IF \E l \in lines : l.event = c
                               THEN (CHOOSE l \in lines : l.event = c).row
                               ELSE events[c]]

\* A mutant: a line that conflicts is brought in like the others.
ReplayForcing ==
    /\ \E lines \in SUBSET deferred : BringIn(lines)
    /\ UNCHANGED <<clock, attempts, deferred, calls, made>>

\* The lines were read from the file before, so some of today's may be missing.
\* One conflict, or any failure, and nothing is brought in.
ReplayDeferredCostEvents ==
    /\ \E lines \in SUBSET deferred :
          /\ \A line \in lines : ~Conflicting(line)
          /\ BringIn(lines)
    /\ UNCHANGED <<clock, attempts, deferred, calls, made>>
----------------------------------------------------------------------------
Tick ==
    /\ clock < MaxTime /\ clock' = clock + 1
    /\ UNCHANGED <<events, attempts, deferred, calls, made>>

LedgerInit ==
    /\ clock = 0
    /\ events = [c \in Calls |-> NoRow]
    /\ attempts = [c \in Calls |-> NoAttempt]
    /\ deferred = {}
    /\ calls = [c \in Calls |-> Idle]
    /\ made = [c \in Calls |-> NotMade]

LedgerNext ==
    \/ Tick
    \/ ReplayDeferredCostEvents
    \/ \E c \in Calls :
          \/ Begin(c) \/ CheckDeferred(c) \/ ReserveModelCall(c)
          \/ ClaimAutonomousPaidAttempt(c) \/ CancelModelReservation(c)
          \/ CallProvider(c) \/ Log(c) \/ CallDies(c)

LedgerSpec == LedgerInit /\ [][LedgerNext]_ledgervars
----------------------------------------------------------------------------
\* The columns, the file and the calls' locals hold values of their types.
LedgerTypeOK ==
    /\ clock \in Times
    /\ events \in [Calls -> Row]
    /\ attempts \in [Calls -> {NoAttempt} \cup 0 .. DayOf(MaxTime)]
    /\ deferred \subseteq Line
    /\ calls \in [Calls -> Call]
    /\ made \in [Calls -> [at: Times \cup {-1}, cost: Costs]]

MadeIn(S, T) == {c \in S : made[c] # NotMade /\ made[c].at \in T}

Day(d) == d * DayLength .. (d + 1) * DayLength - 1

\* The windows that a limit is about: every UTC day, every 24 hours.
Spans(window) ==
    IF window = "day" THEN {Day(d) : d \in 0 .. DayOf(MaxTime)}
                      ELSE {t .. t + DayLength : t \in Times}

Groups(scope) ==
    IF scope = "global" THEN {Calls}
                        ELSE {{c \in Calls : AgentOf[c] = a} : a \in Agents}

\* Of the calls reserved in any UTC day or any 24 hours, no more reach the
\* provider than the limits of everybody and of each agent allow, however many
\* processes reserve, crash, cancel, put off and replay: _reserve_model_call
\* reads the time before its transaction, in which it may find rows reserved
\* later.
CallLimitsHold ==
    \A scope \in Scopes, window \in Windows :
        \A S \in Groups(scope), T \in Spans(window) :
            Cardinality(MadeIn(S, T)) <= CallLimit[scope][window]

Least(a, b) == IF a <= b THEN a ELSE b

\* The same of what the calls cost, up to what was reserved for each: a provider
\* that counts more tokens than were estimated can only exceed the limit by the
\* excess of calls already under way.
CostLimitsHold ==
    \A scope \in Scopes, window \in Windows :
        \A S \in Groups(scope), T \in Spans(window) :
            SumFunctionOnSet([c \in Calls |-> Least(made[c].cost, Reserve)], MadeIn(S, T))
                <= CostLimit[scope][window]

\* A call that reached the provider is in the ledger as a paid one for ever, at
\* the time of its reservation, and at what it cost or what was reserved for it:
\* whatever is cancelled, logged, lost or replayed.  The reserved cost stands if
\* the process died, if the result is not written yet or cannot be replayed, and
\* if an exception followed the answer.
EveryCallIsCounted ==
    \A c \in Calls : made[c] # NotMade =>
        /\ events[c].status \in Paid
        /\ events[c].at = made[c].at
        /\ events[c].cost \in {made[c].cost, Reserve}

\* Autonomous calls stay within the guard's limit for the UTC day, and none
\* reaches the provider without an attempt: the guard has its own database, so
\* its claim and the reservation are not one transaction.
AutonomousCallsAreRationed ==
    /\ \A c \in Autonomous : made[c] # NotMade => attempts[c] # NoAttempt
    /\ \A d \in 0 .. DayOf(MaxTime) :
          Cardinality({c \in Autonomous : attempts[c] = d}) <= AttemptLimit

\* "An already-finalized event or an explicitly cancelled reservation is
\* immutable.  This makes retries and deferred replays idempotent."
SettledRowsStay ==
    [][\A c \in Calls :
          events[c].status \notin {"none", "reserved"} => events'[c] = events[c]]_ledgervars
=============================================================================
