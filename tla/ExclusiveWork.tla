--------------------------- MODULE ExclusiveWork ---------------------------
(***************************************************************************)
(* What the task queue promises its workers, and nothing about how: two    *)
(* workers are never on the same piece of work, and only a worker itself,  *)
(* or the death of its process, ends its work.  TaskQueue implements it.   *)
(***************************************************************************)
CONSTANTS Tasks, Workers, NoTask,
          WorkOf    \* the piece of work behind each task

VARIABLE doing      \* the task each worker is on

Begin(w, t) ==
    /\ doing[w] = NoTask
    /\ \A x \in Workers : doing[x] # NoTask => WorkOf[doing[x]] # WorkOf[t]
    /\ doing' = [doing EXCEPT ![w] = t]

\* Several workers stop at once when the process they share dies.
Stop(S) == doing' = [w \in Workers |-> IF w \in S THEN NoTask ELSE doing[w]]

Init == doing = [w \in Workers |-> NoTask]

Next == \/ \E w \in Workers, t \in Tasks : Begin(w, t)
        \/ \E S \in SUBSET Workers : Stop(S)

Spec == Init /\ [][Next]_doing
=============================================================================
