------------------------- MODULE MCCodexWorkerPool -------------------------
(* CodexWorkerPool on a small instance: one proposal, or two that differ   *)
(* in their work, and the threads of one process after another.            *)
EXTENDS CodexWorkerPool, TLC

CONSTANTS a, b, w1, w2, v1, v2, p1, p2, f1, f2

OneFpOf     == a :> f1
OneLaneOf   == a :> "general"
OnePriority == a :> 1

TwoFpOf     == a :> f1 @@ b :> f2
TwoLaneOf   == a :> "general" @@ b :> "general"
TwoPriority == a :> 1 @@ b :> 1
=============================================================================
