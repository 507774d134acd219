------------------------ MODULE MCDailyClaimBudget -------------------------
(* DailyClaimBudget with three workers in up to two processes.             *)
EXTENDS DailyClaimBudget, TLC

CONSTANTS h1, h2, h3, p1, p2

Symmetry == Permutations({h1, h2, h3}) \cup Permutations({p1, p2})
=============================================================================
