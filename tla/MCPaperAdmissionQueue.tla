----------------------- MODULE MCPaperAdmissionQueue -----------------------
(* PaperAdmissionQueue on a small instance: two queue rows and two passes. *)
(* The two keys are revisions of one Strategy Lab strategy, in one market  *)
(* and of one lineage.                                                     *)
EXTENDS PaperAdmissionQueue, TLC

CONSTANTS e1, e2, k1, k2, r1, r2, market, root

MCMarket  == [k \in Keys |-> market]
MCLineage == [k \in Keys |-> root]

Symmetry == Permutations({e1, e2}) \cup Permutations({k1, k2}) \cup Permutations({r1, r2})
=============================================================================
