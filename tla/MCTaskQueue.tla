---------------------------- MODULE MCTaskQueue ----------------------------
(* TaskQueue on a small instance: two tasks for one piece of work and a    *)
(* third that is enqueued before its identity is known, or three tasks for *)
(* one; two workers that may share a process or run in two.                *)
EXTENDS TaskQueue, TLC

CONSTANTS a, b, c, w1, w2, p1, p2, f1, f2

MCFpOf     == a :> f1 @@ b :> f1 @@ c :> f2
MCLaneOf   == a :> "strategy" @@ b :> "adapter" @@ c :> "general"
MCPriority == a :> 1 @@ b :> 2 @@ c :> 1

TripleFpOf == a :> f1 @@ b :> f1 @@ c :> f1

Symmetry == Permutations({w1, w2}) \cup Permutations({p1, p2})
=============================================================================
