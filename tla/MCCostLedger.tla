--------------------------- MODULE MCCostLedger ----------------------------
(* Three concurrent model calls, two of one agent in an autonomous scope and *)
(* one of another agent outside it.  The limits are such that each of them   *)
(* is the one that refuses in some state: a third call, a second one of the  *)
(* agent on one day, a second one after a call that cost more than reserved. *)
EXTENDS CostLedger, TLC

CONSTANTS c1, c2, c3, a1, a2

MCAgentOf == (c1 :> a1) @@ (c2 :> a1) @@ (c3 :> a2)
MCCallLimit ==
    [global |-> [day |-> 2, rolling |-> 2], agent |-> [day |-> 1, rolling |-> 2]]
MCCostLimit ==
    [global |-> [day |-> 3, rolling |-> 4], agent |-> [day |-> 2, rolling |-> 3]]

Symmetry == Permutations({c1, c2})
=============================================================================
