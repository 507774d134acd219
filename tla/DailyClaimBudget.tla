------------------------- MODULE DailyClaimBudget --------------------------
(***************************************************************************)
(* How _run_one_worker_task keeps daily_task_claim_limit: it counts the    *)
(* day's claims and then claims, two steps under one lease.                *)
(***************************************************************************)
EXTENDS ResourceLease

CONSTANTS DailyLimit    \* daily_task_claim_limit

ASSUME DailyLimitIsNat == DailyLimit \in Nat

VARIABLES
    claimsToday,    \* 'claimed' events of codex_coordination_events today
    step            \* where each worker is between acquire and release

budgetvars == <<leasevars, claimsToday, step>>

Steps == {"outside", "counting", "claiming", "leaving"}

EnterBudget(h) ==
    /\ step[h] = "outside"
    /\ AcquireResourceLease(h)
    /\ step' = [step EXCEPT ![h] = "counting"]
    /\ UNCHANGED claimsToday

\* A mutant: one claim too many.
CountOneMore(h) ==
    /\ step[h] = "counting"
    /\ step' = [step EXCEPT ![h] = IF claimsToday > DailyLimit THEN "leaving"
                                                              ELSE "claiming"]
    /\ UNCHANGED <<leasevars, claimsToday>>

CountClaims(h) ==
    /\ step[h] = "counting"
    /\ step' = [step EXCEPT ![h] = IF claimsToday >= DailyLimit THEN "leaving"
                                                               ELSE "claiming"]
    /\ UNCHANGED <<leasevars, claimsToday>>

\* claim_task finds a task, or none, or raises.
ClaimUnderBudget(h) ==
    /\ step[h] = "claiming"
    /\ claimsToday' \in {claimsToday, claimsToday + 1}
    /\ step' = [step EXCEPT ![h] = "leaving"]
    /\ UNCHANGED leasevars

\* The finally clause.
LeaveBudget(h) ==
    /\ step[h] = "leaving"
    /\ ReleaseResourceLease(h) \/ ReleaseFails(h)
    /\ step' = [step EXCEPT ![h] = "outside"]
    /\ UNCHANGED claimsToday

WorkersDie(p) ==
    /\ Die(p)
    /\ step' = [h \in Holders |-> IF pidOf[h] = p THEN "outside" ELSE step[h]]
    /\ UNCHANGED claimsToday

NewDay ==
    /\ claimsToday # 0 /\ claimsToday' = 0
    /\ UNCHANGED <<leasevars, step>>

BudgetInit ==
    /\ LeaseInit
    /\ claimsToday = 0
    /\ step = [h \in Holders |-> "outside"]

BudgetNext ==
    \/ NewDay
    \/ LeaseExpires /\ UNCHANGED <<claimsToday, step>>
    \/ \E p \in Pids :
          \/ WorkersDie(p)
          \/ \E h \in Holders : Start(h, p) /\ UNCHANGED <<claimsToday, step>>
    \/ \E h \in Holders :
          \/ EnterBudget(h) \/ CountClaims(h) \/ ClaimUnderBudget(h) \/ LeaveBudget(h)
          \/ RenewResourceLease(h) /\ UNCHANGED <<claimsToday, step>>

BudgetSpec == BudgetInit /\ [][BudgetNext]_budgetvars
----------------------------------------------------------------------------
\* "limited to ... ten claims per UTC day": concurrent workers that count and
\* then claim never exceed the limit together.
ClaimsWithinDailyLimit == claimsToday <= DailyLimit
=============================================================================
