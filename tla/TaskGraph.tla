------------------------------ MODULE TaskGraph ------------------------------
(***************************************************************************)
(* What the dispatcher of Engine/cs_new_dispatch.c promises to the engine: *)
(* the tasks of a control period form a graph; a task is performed once,   *)
(* after the tasks it depends on, and a new graph is set up only when      *)
(* every task of the last one has been performed.                          *)
(***************************************************************************)
EXTENDS Integers

CONSTANT MaxActive     \* bound: tasks of a control period

Task == 0..(MaxActive - 1)

VARIABLES n, dep, state

vars == <<n, dep, state>>

Init == n = 0 /\ dep = [i \in Task |-> {}] /\ state = [i \in Task |-> "done"]

\* A control period begins with a new or with the same graph.
NewCycle ==
    /\ \A i \in Task : state[i] = "done"
    /\ n' \in 1..MaxActive
    /\ dep' \in [Task -> SUBSET Task]
    /\ \A j \in Task : \A i \in dep'[j] : i < j /\ j < n'
    /\ state' = [i \in Task |-> IF i < n' THEN "todo" ELSE "done"]

Start(j) ==
    /\ state[j] = "todo"
    /\ \A i \in dep[j] : state[i] = "done"
    /\ state' = [state EXCEPT ![j] = "running"]
    /\ UNCHANGED <<n, dep>>

Finish(j) ==
    /\ state[j] = "running"
    /\ state' = [state EXCEPT ![j] = "done"]
    /\ UNCHANGED <<n, dep>>

Next == NewCycle \/ \E j \in Task : Start(j) \/ Finish(j)

Spec == Init /\ [][Next]_vars

=============================================================================
