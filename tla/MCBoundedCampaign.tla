-------------------------- MODULE MCBoundedCampaign -------------------------
(* Two radars and two model callers, with and without the cycle mutex.       *)
EXTENDS BoundedCampaign, TLC

CONSTANTS r1, r2, q1, q2

Symmetry == Permutations({r1, r2}) \cup Permutations({q1, q2})
=============================================================================
