------------------------------ MODULE OneTrial ------------------------------
(***************************************************************************)
(* What the worker pool promises of each proposal, and nothing about how:  *)
(* its code is tried in main once, the verdict on it is final, what is     *)
(* recorded never runs ahead of the verdict, and a recorded failure is not *)
(* taken back.  CodexWorkerPool implements it as long as nothing is killed *)
(* and nothing fails.                                                      *)
(***************************************************************************)
CONSTANT Proposals

VARIABLES
    code,    \* what has become of the proposal's code
    record   \* what is recorded of it

Moves(p, from, to) ==
    /\ code[p] = from
    /\ code' = [code EXCEPT ![p] = to]
    /\ UNCHANGED record

Try(p)      == Moves(p, "untried", "on trial")
Keep(p)     == Moves(p, "on trial", "kept")
Withdraw(p) == Moves(p, "on trial", "withdrawn")

\* The record may say less than the verdict, and never more.
Record(p, entry) ==
    /\ record[p] # "failed"
    /\ entry = "promoted" => code[p] = "kept"
    /\ entry = "failed" => code[p] = "withdrawn"
    /\ record' = [record EXCEPT ![p] = entry]
    /\ UNCHANGED code

Init == /\ code = [p \in Proposals |-> "untried"]
        /\ record = [p \in Proposals |-> "open"]

Next == \E p \in Proposals :
            \/ Try(p) \/ Keep(p) \/ Withdraw(p)
            \/ \E entry \in {"open", "promoted", "failed"} : Record(p, entry)

Spec == Init /\ [][Next]_<<code, record>>
=============================================================================
