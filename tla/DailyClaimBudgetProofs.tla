----------------------- MODULE DailyClaimBudgetProofs -----------------------
(***************************************************************************)
(* For every set of threads and processes and every limit: the lease lets  *)
(* one thread inside at a time, and the claims of a day stay within the    *)
(* limit.                                                                  *)
(***************************************************************************)
EXTENDS DailyClaimBudget, TLAPS

----------------------------------------------------------------------------
(* The lease.                                                              *)

\* Whoever is inside is named by the row, and runs in the process it names.
InsideHoldsLease ==
    \A h \in Holders : inside[h] # 0 =>
        /\ lease.owner = h /\ lease.token = inside[h]
        /\ lease.pid = pidOf[h] /\ pidOf[h] # NoPid

\* A row that names an owner names the owner's token.
OwnersHaveTokens == lease.owner # Nobody => lease.token # 0

LInv == LeaseTypeOK /\ InsideHoldsLease /\ OwnersHaveTokens

\* A free row is a row, and whoever is named by a row does not find it free.
LEMMA NoLeaseFacts ==
    /\ NoLease \in Lease /\ 0 \in Tokens
    /\ NoLease.owner = Nobody /\ Nobody \notin Holders
BY LeaseConstants DEF NoLease, Lease, Tokens

\* An empty table satisfies the invariant of the lease.
LEMMA LeaseInitEstablishes == ASSUME LeaseInit PROVE LInv
BY NoLeaseFacts DEF LeaseInit, LInv, LeaseTypeOK, InsideHoldsLease, OwnersHaveTokens

\* Threads start outside, and leave with their process.
LEMMA StartKeepsLease ==
    ASSUME LInv, NEW h \in Holders, NEW p \in Pids, Start(h, p) PROVE LInv'
BY DEF LInv, LeaseTypeOK, InsideHoldsLease, OwnersHaveTokens, Start

\* What dies was inside no longer, and its row stays as it is.
LEMMA DieKeepsLease == ASSUME LInv, NEW p \in Pids, Die(p) PROVE LInv'
BY NoLeaseFacts DEF LInv, LeaseTypeOK, InsideHoldsLease, OwnersHaveTokens, Die

\* An expired row still names its owner.
LEMMA ExpiryKeepsLease == ASSUME LInv, LeaseExpires PROVE LInv'
<1>1. lease \in Lease
  BY DEF LInv, LeaseTypeOK
<1>2. /\ lease' \in Lease /\ lease'.owner = lease.owner
      /\ lease'.pid = lease.pid /\ lease'.token = lease.token
  BY <1>1 DEF LeaseExpires, Lease
<1>3. QED
  BY <1>2 DEF LInv, LeaseTypeOK, InsideHoldsLease, OwnersHaveTokens, LeaseExpires

\* A renewed row names the same owner, process and token.
LEMMA RenewKeepsLease ==
    ASSUME LInv, NEW h \in Holders, RenewResourceLease(h) PROVE LInv'
<1>1. lease \in Lease
  BY DEF LInv, LeaseTypeOK
<1>2. /\ lease' \in Lease /\ lease'.owner = lease.owner
      /\ lease'.pid = lease.pid /\ lease'.token = lease.token
  BY <1>1 DEF RenewResourceLease, Lease
<1>3. QED
  BY <1>2 DEF LInv, LeaseTypeOK, InsideHoldsLease, OwnersHaveTokens, RenewResourceLease

\* Only the thread inside can leave, and the row it leaves is its own.
LEMMA ReleaseKeepsLease ==
    ASSUME LInv, NEW h \in Holders, ReleaseResourceLease(h) \/ ReleaseFails(h)
    PROVE  LInv'
<1>1. /\ inside[h] # 0 /\ inside' = [inside EXCEPT ![h] = 0]
      /\ lease' \in {lease, NoLease} /\ UNCHANGED <<pidOf, minted>>
  BY DEF ReleaseResourceLease, ReleaseFails
<1>2. \A g \in Holders : inside'[g] # 0 => g # h /\ inside[g] # 0
  BY <1>1 DEF LInv, LeaseTypeOK
<1>3. \A g \in Holders : inside'[g] = 0
  BY <1>1, <1>2 DEF LInv, InsideHoldsLease
<1>4. LeaseTypeOK'
  BY <1>1, NoLeaseFacts DEF LInv, LeaseTypeOK
<1>5. InsideHoldsLease' /\ OwnersHaveTokens'
  BY <1>1, <1>3, NoLeaseFacts DEF LInv, InsideHoldsLease, OwnersHaveTokens
<1>6. QED
  BY <1>4, <1>5 DEF LInv

\* A lease that can be taken has nobody inside: a live owner that has not
\* come back is outside, and a dead one has no thread.
LEMMA TakenLeaseIsVacant ==
    ASSUME LInv, NEW h \in Holders, inside[h] = 0, CanTake(h)
    PROVE  \A g \in Holders : inside[g] = 0
<1> SUFFICES ASSUME NEW g \in Holders, inside[g] # 0 PROVE FALSE
  OBVIOUS
<1>1. lease.owner = g /\ lease.pid = pidOf[g] /\ pidOf[g] # NoPid
  BY DEF LInv, InsideHoldsLease
<1>2. lease.pid \in Live /\ lease # NoLease /\ lease.owner # h
  BY <1>1, NoLeaseFacts DEF Live
<1>3. QED
  BY <1>2 DEF CanTake

\* A thread enters when nobody is inside.
LEMMA AcquireKeepsLease ==
    ASSUME LInv, NEW h \in Holders, AcquireResourceLease(h)
    PROVE  /\ LInv' /\ inside'[h] # 0
           /\ \A g \in Holders : inside[g] = 0
<1> DEFINE token == IF lease.owner = h THEN lease.token ELSE minted + 1
<1>1. /\ pidOf[h] # NoPid /\ inside[h] = 0 /\ CanTake(h) /\ pidOf' = pidOf
      /\ minted' = (IF lease.owner = h THEN minted ELSE minted + 1)
      /\ minted' <= MaxTokens
      /\ lease' = [owner |-> h, pid |-> pidOf[h], token |-> token,
                   expired |-> FALSE]
      /\ inside' = [inside EXCEPT ![h] = token]
  BY DEF AcquireResourceLease
<1>2. lease \in Lease /\ minted \in 0 .. MaxTokens /\ lease.token \in 0 .. MaxTokens
  BY DEF LInv, LeaseTypeOK, Lease, Tokens
<1>3. token \in Tokens /\ token # 0 /\ minted' \in Tokens
  <2>1. h # Nobody /\ MaxTokens \in Nat
    BY LeaseConstants
  <2>2. CASE lease.owner = h
    BY <1>1, <1>2, <2>1, <2>2 DEF LInv, OwnersHaveTokens, Tokens
  <2>3. CASE lease.owner # h
    BY <1>1, <1>2, <2>1, <2>3 DEF Tokens
  <2>4. QED
    BY <2>2, <2>3
<1> HIDE DEF token
<1>4. \A g \in Holders : inside[g] = 0
  BY <1>1, TakenLeaseIsVacant
<1>5. inside'[h] = token /\ \A g \in Holders : g # h => inside'[g] = 0
  BY <1>1, <1>4 DEF LInv, LeaseTypeOK
<1>6. pidOf[h] \in Pids
  BY <1>1 DEF LInv, LeaseTypeOK
<1>7. LeaseTypeOK'
  BY <1>1, <1>3, <1>6 DEF LInv, LeaseTypeOK, Lease
<1>8. InsideHoldsLease' /\ OwnersHaveTokens'
  BY <1>1, <1>3, <1>5 DEF InsideHoldsLease, OwnersHaveTokens
<1>9. QED
  BY <1>3, <1>4, <1>5, <1>7, <1>8 DEF LInv

\* Every step of the lease keeps its invariant.
LEMMA LeaseNextKeeps == ASSUME LInv, [LeaseNext]_leasevars PROVE LInv'
<1>1. CASE LeaseNext
  BY <1>1, StartKeepsLease, DieKeepsLease, ExpiryKeepsLease, RenewKeepsLease,
     ReleaseKeepsLease, AcquireKeepsLease DEF LeaseNext
<1>2. CASE UNCHANGED leasevars
  BY <1>2 DEF leasevars, LInv, LeaseTypeOK, InsideHoldsLease, OwnersHaveTokens
<1>3. QED
  BY <1>1, <1>2

\* One owner means one thread inside.
LEMMA OneOwnerOneInside == ASSUME LInv PROVE AtMostOneInside
BY DEF LInv, InsideHoldsLease, AtMostOneInside

\* Two threads are never inside a lease at once, whatever expires, dies and
\* comes back: Git operations on main do not overlap.
THEOREM MutualExclusion == LeaseSpec => []AtMostOneInside
<1>1. LeaseInit => LInv
  BY LeaseInitEstablishes
<1>2. LInv /\ [LeaseNext]_leasevars => LInv'
  BY LeaseNextKeeps
<1>3. LInv => AtMostOneInside
  BY OneOwnerOneInside
<1>4. QED
  BY <1>1, <1>2, <1>3, PTL DEF LeaseSpec

----------------------------------------------------------------------------
(* The budget.                                                             *)

\* A worker that has counted and may claim holds the lease, and the count it
\* acts on has not gone up since.
BInv ==
    /\ LInv
    /\ step \in [Holders -> Steps]
    /\ claimsToday \in Nat /\ claimsToday <= DailyLimit
    /\ \A h \in Holders : step[h] # "outside" => inside[h] # 0
    /\ \A h \in Holders : step[h] = "claiming" => claimsToday < DailyLimit

\* A day begins without claims and without workers.
LEMMA BudgetInitEstablishes == ASSUME BudgetInit PROVE BInv
BY LeaseInitEstablishes, DailyLimitIsNat DEF BudgetInit, BInv, Steps

\* Entering and counting make no claim.
LEMMA EnterKeepsBudget ==
    ASSUME BInv, NEW h \in Holders, EnterBudget(h) PROVE BInv'
<1>1. LInv' /\ inside'[h] # 0 /\ \A g \in Holders : inside[g] = 0
  BY AcquireKeepsLease DEF BInv, EnterBudget
<1>2. /\ step' = [step EXCEPT ![h] = "counting"] /\ claimsToday' = claimsToday
      /\ \A g \in Holders : step[g] = "outside"
  BY <1>1 DEF BInv, EnterBudget
<1>3. QED
  BY <1>1, <1>2 DEF BInv, Steps

\* The count is compared while the limit is the only bound.
LEMMA CountKeepsBudget ==
    ASSUME BInv, NEW h \in Holders, CountClaims(h) PROVE BInv'
<1>1. LInv' /\ UNCHANGED <<lease, pidOf, inside, minted>>
  BY DEF BInv, CountClaims, leasevars, LInv, LeaseTypeOK, InsideHoldsLease,
         OwnersHaveTokens
<1>2. /\ step[h] = "counting" /\ claimsToday' = claimsToday
      /\ step' = [step EXCEPT ![h] = IF claimsToday >= DailyLimit
                                     THEN "leaving" ELSE "claiming"]
  BY DEF CountClaims
<1>3. step' \in [Holders -> Steps]
  BY <1>2 DEF BInv, Steps
<1>4. \A g \in Holders : step'[g] = "claiming" => claimsToday < DailyLimit
  BY <1>2, DailyLimitIsNat DEF BInv
<1>5. QED
  BY <1>1, <1>2, <1>3, <1>4 DEF BInv

\* The one worker inside is the only one that can be about to claim.
LEMMA ClaimKeepsBudget ==
    ASSUME BInv, NEW h \in Holders, ClaimUnderBudget(h) PROVE BInv'
<1>1. LInv' /\ UNCHANGED <<lease, pidOf, inside, minted>>
  BY DEF BInv, ClaimUnderBudget, leasevars, LInv, LeaseTypeOK, InsideHoldsLease,
         OwnersHaveTokens
<1>2. /\ step[h] = "claiming" /\ step' = [step EXCEPT ![h] = "leaving"]
      /\ claimsToday' \in {claimsToday, claimsToday + 1}
  BY DEF ClaimUnderBudget
<1>3. \A g \in Holders : g # h => step[g] # "claiming"
  BY <1>2, OneOwnerOneInside DEF BInv, AtMostOneInside
<1>4. \A g \in Holders : step'[g] # "claiming"
  BY <1>2, <1>3 DEF BInv
<1>5. claimsToday' \in Nat /\ claimsToday' <= DailyLimit
  BY <1>2, DailyLimitIsNat DEF BInv
<1>6. step' \in [Holders -> Steps] /\ \A g \in Holders :
         step'[g] # "outside" => inside'[g] # 0
  BY <1>1, <1>2 DEF BInv, Steps
<1>7. QED
  BY <1>1, <1>4, <1>5, <1>6 DEF BInv

\* A worker that leaves, or dies, is outside with its step.
LEMMA LeaveKeepsBudget ==
    ASSUME BInv, NEW h \in Holders, LeaveBudget(h) PROVE BInv'
<1>1. LInv'
  BY ReleaseKeepsLease DEF BInv, LeaveBudget
<1>2. /\ step' = [step EXCEPT ![h] = "outside"] /\ claimsToday' = claimsToday
      /\ inside' = [inside EXCEPT ![h] = 0]
  BY DEF LeaveBudget, ReleaseResourceLease, ReleaseFails
<1>3. QED
  BY <1>1, <1>2 DEF BInv, Steps, LInv, LeaseTypeOK

\* A worker that dies leaves its step behind with the lease's inside.
LEMMA WorkersDieKeepsBudget ==
    ASSUME BInv, NEW p \in Pids, WorkersDie(p) PROVE BInv'
<1>1. LInv'
  BY DieKeepsLease DEF BInv, WorkersDie
<1>2. /\ step' = [h \in Holders |-> IF pidOf[h] = p THEN "outside" ELSE step[h]]
      /\ inside' = [h \in Holders |-> IF pidOf[h] = p THEN 0 ELSE inside[h]]
      /\ claimsToday' = claimsToday
  BY DEF WorkersDie, Die
<1>3. QED
  BY <1>1, <1>2 DEF BInv, Steps

\* Steps of the lease alone put nobody in or out, and midnight only lowers
\* the count.
LEMMA OtherKeepsBudget ==
    ASSUME BInv, LInv', inside' = inside, step' = step,
           claimsToday' = claimsToday \/ claimsToday' = 0
    PROVE  BInv'
<1>1. claimsToday \in Nat /\ claimsToday <= DailyLimit /\ DailyLimit \in Nat
  BY DailyLimitIsNat DEF BInv
<1>2. claimsToday' \in Nat /\ claimsToday' <= claimsToday
  BY <1>1
<1>3. \A h \in Holders : step'[h] = "claiming" => claimsToday' < DailyLimit
  BY <1>1, <1>2 DEF BInv
<1>4. QED
  BY <1>1, <1>2, <1>3 DEF BInv

\* Every step keeps the budget's invariant.
LEMMA BudgetNextKeeps == ASSUME BInv, [BudgetNext]_budgetvars PROVE BInv'
<1>1. CASE NewDay \/ UNCHANGED budgetvars
  <2>1. LInv' /\ inside' = inside /\ step' = step
    BY <1>1 DEF BInv, LInv, LeaseTypeOK, InsideHoldsLease, OwnersHaveTokens,
                NewDay, budgetvars, leasevars
  <2>2. claimsToday' = claimsToday \/ claimsToday' = 0
    BY <1>1 DEF NewDay, budgetvars
  <2>3. QED
    BY <2>1, <2>2, OtherKeepsBudget
<1>2. CASE LeaseExpires /\ UNCHANGED <<claimsToday, step>>
  <2>1. LInv' /\ inside' = inside
    BY <1>2, ExpiryKeepsLease DEF BInv, LeaseExpires
  <2>2. QED
    BY <1>2, <2>1, OtherKeepsBudget
<1>3. ASSUME NEW h \in Holders, NEW p \in Pids, Start(h, p),
             UNCHANGED <<claimsToday, step>>
      PROVE  BInv'
  <2>1. LInv' /\ inside' = inside
    BY <1>3, StartKeepsLease DEF BInv, Start
  <2>2. QED
    BY <1>3, <2>1, OtherKeepsBudget
<1>4. ASSUME NEW h \in Holders, RenewResourceLease(h),
             UNCHANGED <<claimsToday, step>>
      PROVE  BInv'
  <2>1. LInv' /\ inside' = inside
    BY <1>4, RenewKeepsLease DEF BInv, RenewResourceLease
  <2>2. QED
    BY <1>4, <2>1, OtherKeepsBudget
<1>5. QED
  BY <1>1, <1>2, <1>3, <1>4, EnterKeepsBudget, CountKeepsBudget,
     ClaimKeepsBudget, LeaveKeepsBudget, WorkersDieKeepsBudget DEF BudgetNext

\* Workers that count the day's claims and then claim, two steps under one
\* lease, never exceed the daily limit together.
THEOREM DailyLimitHolds == BudgetSpec => []ClaimsWithinDailyLimit
<1>1. BudgetInit => BInv
  BY BudgetInitEstablishes
<1>2. BInv /\ [BudgetNext]_budgetvars => BInv'
  BY BudgetNextKeeps
<1>3. BInv => ClaimsWithinDailyLimit
  BY DEF BInv, ClaimsWithinDailyLimit
<1>4. QED
  BY <1>1, <1>2, <1>3, PTL DEF BudgetSpec

\* Under the budget's own steps, too, one worker is inside at a time.
THEOREM BudgetMutualExclusion == BudgetSpec => []AtMostOneInside
<1>1. BudgetInit => BInv
  BY BudgetInitEstablishes
<1>2. BInv /\ [BudgetNext]_budgetvars => BInv'
  BY BudgetNextKeeps
<1>3. BInv => AtMostOneInside
  BY OneOwnerOneInside DEF BInv
<1>4. QED
  BY <1>1, <1>2, <1>3, PTL DEF BudgetSpec

\* The lease's row and the threads' tokens keep their types.
THEOREM LeaseTypeCorrect == BudgetSpec => []LeaseTypeOK
<1>1. BudgetInit => BInv
  BY BudgetInitEstablishes
<1>2. BInv /\ [BudgetNext]_budgetvars => BInv'
  BY BudgetNextKeeps
<1>3. BInv => LeaseTypeOK
  BY DEF BInv, LInv
<1>4. QED
  BY <1>1, <1>2, <1>3, PTL DEF BudgetSpec
=============================================================================
