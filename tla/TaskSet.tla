------------------------------ MODULE TaskSet ------------------------------
(***************************************************************************)
(* What multitasking promises, without table, stacks or interrupts: a set  *)
(* of live tasks, at most one of them on the CPU, and every live task gets *)
(* the CPU again and again.                                                *)
(***************************************************************************)
CONSTANTS Task, None

VARIABLES
  alive,   \* the tasks that exist
  on       \* the task that has the CPU, or None

vars == <<alive, on>>

Init == alive \in SUBSET Task /\ on = None

Spawn(p)    == /\ p \notin alive
               /\ alive' = alive \cup {p}
               /\ UNCHANGED on

\* Another task ends p.
Kill(p)     == /\ p \in alive \ {on}
               /\ alive' = alive \ {p}
               /\ UNCHANGED on

\* The task on the CPU ends itself.
Exit        == /\ on # None
               /\ alive' = alive \ {on}
               /\ on' = None

Preempt     == /\ on # None
               /\ on' = None
               /\ UNCHANGED alive

Dispatch(p) == /\ on = None
               /\ p \in alive
               /\ on' = p
               /\ UNCHANGED alive

Next == \/ Exit
        \/ Preempt
        \/ \E p \in Task : Spawn(p) \/ Kill(p) \/ Dispatch(p)

Spec == Init /\ [][Next]_vars

FairSpec == Spec /\ \A p \in Task : SF_vars(Dispatch(p))
=============================================================================
