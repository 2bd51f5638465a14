------------------------------ MODULE MCMtask ------------------------------
(***************************************************************************)
(* Instances of Mtask for TLC: small process tables booted as Main() does, *)
(* the console in slot 1, then the ring 3 task, then a task that loops.    *)
(***************************************************************************)
EXTENDS Mtask

MCBoot == <<"task_console", "task_ring3", "task_a">>

\* Two boot tasks only, which leaves two slots of the table free.
MCBootSmall == <<"task_console", "task_ring3">>

\* Slot p starts on block p + 1, the order of the kvmalloc() calls.
MCBootStack      == [p \in 0 .. 3 |-> p + 1]
MCBootStackSmall == [p \in 0 .. 2 |-> p + 1]
=============================================================================
