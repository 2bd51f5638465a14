---------------------------- MODULE Mtask_proofs ----------------------------
(***************************************************************************)
(* Proofs about Mtask, for every table size, boot configuration and        *)
(* number of spawned processes.                                            *)
(***************************************************************************)
EXTENDS Mtask, TLAPS

\* Facts about the constants, in the form the steps below use.
LEMMA Constants ==
  /\ Pid \subseteq Nat /\ Sched \in Pid /\ Console \in Pid /\ Sched # Console
  /\ NoProc \notin Pid
  /\ PROCESS_COUNT - 1 \in Pid \ {Sched, Console}
  /\ Esp0 \in Place /\ Stack \subseteq Place
  /\ \A i \in Pid : (i + 1) % PROCESS_COUNT \in Pid
BY TableAssumption DEF Pid, Sched, Console, NoProc, Place

\* A context switch keeps the types of the three variables it assigns.
LEMMA SwitchType ==
  ASSUME TypeOK, NEW old \in Pid \cup {NoProc}, NEW s \in Place, NEW new \in Pid,
         context_switch(old, s, new)
  PROVE  /\ context' \in [Pid -> Place]
         /\ frame' \in [Place -> Pid \cup {NoProc}]
         /\ onCpu' \in Pid \cup {NoProc}
<1> DEFINE saved == [frame EXCEPT ![s] = old]
<1>1. saved \in [Place -> Pid \cup {NoProc}]
  BY DEF TypeOK
<1>2. context' = [context EXCEPT ![old] = s] /\ context[new] \in Place
  BY DEF TypeOK, context_switch
<1>3. context' \in [Pid -> Place]
  BY <1>2 DEF TypeOK
<1>4. \/ frame' = [saved EXCEPT ![context[new]] = NoProc] /\ onCpu' = new
      \/ frame' = saved /\ onCpu' = NoProc
  BY DEF context_switch
<1> QED
  BY <1>1, <1>3, <1>4

\* Registers are pushed on a place the model knows.
LEMMA KernelStackPlace == TypeOK => \A p \in Pid : KernelStack(p) \in Place
BY Constants DEF TypeOK, KernelStack

(***************************************************************************)
(* Every variable of the model keeps its type.                             *)
(***************************************************************************)
LEMMA InitType == Init => TypeOK
<1> SUFFICES ASSUME Init PROVE TypeOK
  OBVIOUS
<1>1. stack \in [Pid -> Place] /\ live \subseteq Stack
  BY Constants, StackAssumption DEF Init, Place
<1>2. entry \in [Pid -> Entry]
  BY Constants, TableAssumption DEF Init, Entry
<1>3. frame \in [Place -> Pid \cup {NoProc}]
  BY TableAssumption DEF Init
<1>4. spawned \in 0 .. MaxSpawn /\ scan \in Pid
  BY CommandAssumption, Constants DEF Init, Sched
<1> QED
  BY <1>1, <1>2, <1>3, <1>4, Constants DEF Init, TypeOK, Status

LEMMA NextType == TypeOK /\ [Next]_vars => TypeOK'
<1> SUFFICES ASSUME TypeOK, [Next]_vars PROVE TypeOK'
  OBVIOUS
<1> USE Constants
<1>1. CASE SchedSkip
  BY <1>1 DEF TypeOK, SchedSkip, table, NextSlot
<1>2. CASE SchedDispatch
  <2>1. stack[Sched] \in Place /\ scan \in Pid
    BY DEF TypeOK
  <2>2. context_switch(Sched, stack[Sched], scan)
    BY <1>2 DEF SchedDispatch, NextSlot
  <2> QED
    BY <1>2, <2>1, <2>2, SwitchType DEF TypeOK, SchedDispatch, Status, NextSlot
<1>3. CASE Tick
  <2>1. KernelStack(onCpu) \in Place /\ curproc \in Pid \cup {NoProc}
    BY <1>3, KernelStackPlace DEF TypeOK, Tick
  <2>2. context_switch(curproc, KernelStack(onCpu), Sched)
    BY <1>3 DEF Tick
  <2> QED
    BY <1>3, <2>1, <2>2, SwitchType DEF TypeOK, Tick, Status
<1>4. ASSUME NEW p \in Pid, proc_alloc(p) PROVE TypeOK'
  <2>1. spawned' \in 0 .. MaxSpawn
    BY <1>4, CommandAssumption DEF TypeOK, proc_alloc, Free
  <2>2. status' \in [Pid -> Status]
    BY <1>4 DEF TypeOK, proc_alloc, Status, Free
  <2> QED
    BY <1>4, <2>1, <2>2 DEF TypeOK, proc_alloc, Free
<1>5. ASSUME NEW f \in SpawnEntry, NEW s \in Stack \ live, ktask_init(f, s)
      PROVE TypeOK'
  <2>1. f \in Entry
    BY CommandAssumption DEF Entry
  <2> QED
    BY <1>5, <2>1 DEF TypeOK, ktask_init, Status, Place
<1>6. ASSUME NEW p \in Pid, KillOther(p) PROVE TypeOK'
  BY <1>6 DEF TypeOK, KillOther, Status, Ended, Freed
<1>7. ASSUME NEW f \in BOOLEAN, ktask_exit(f) PROVE TypeOK'
  BY <1>7 DEF TypeOK, ktask_exit, Status, Ended, Freed
<1>8. ASSUME NEW p \in Pid, ExitSwitch(p) PROVE TypeOK'
  <2>1. KernelStack(p) \in Place /\ curproc \in Pid \cup {NoProc}
    BY KernelStackPlace DEF TypeOK
  <2>2. context_switch(curproc, KernelStack(p), Sched)
    BY <1>8 DEF ExitSwitch
  <2> QED
    BY <1>8, <2>1, <2>2, SwitchType DEF TypeOK, ExitSwitch
<1>9. CASE UNCHANGED vars
  BY <1>9 DEF TypeOK, vars, table
<1>10. Killable \subseteq Pid /\ intr \in BOOLEAN
  BY CommandAssumption DEF TypeOK
<1> QED
  BY <1>1, <1>2, <1>3, <1>4, <1>5, <1>6, <1>7, <1>8, <1>9, <1>10
  DEF Next, SchedStep, ExitStep, KillSelf, TaskExit

(***************************************************************************)
(* The process table, the stacks and the scheduler's state keep their      *)
(* types in every behaviour of the kernel.                                 *)
(***************************************************************************)
THEOREM TypeCorrect == Spec => []TypeOK
BY InitType, NextType, PTL DEF Spec

-----------------------------------------------------------------------------
\* From here on the exit window is closed to ticks (WindowClosed).

\* Processes that own a stack save their contexts in different places.
LEMMA PlacesApart ==
  ASSUME TypeOK, StackOwned, ContextPlaced,
         NEW p \in HasStack, NEW q \in HasStack, p # q
  PROVE  /\ stack[p] # stack[q]
         /\ stack[p] # KernelStack(q)
         /\ KernelStack(p) # KernelStack(q)
BY StackAssumption DEF TypeOK, StackOwned, ContextPlaced, HasStack, KernelStack

LEMMA InitInv == Init => IInv
<1> SUFFICES ASSUME Init PROVE IInv
  OBVIOUS
<1> USE Constants
<1>1. BootPid \subseteq Pid \ {Sched} /\ Console \in BootPid
  BY TableAssumption
<1>2. DOMAIN BootStack = BootPid \cup {Sched}
  BY StackAssumption
<1>3. HasStack = BootPid \cup {Sched}
  BY <1>1 DEF Init, HasStack
<1>4. \A p \in BootPid : frame[BootStack[p]] = p
  <2>1. \A p \in BootPid : BootStack[p] \in Place
    BY StackAssumption DEF Place
  <2> QED
    BY <2>1, StackAssumption DEF Init
<1>5. ContextIntact
  BY <1>1, <1>2, <1>4 DEF Init, ContextIntact
<1>6. StackOwned
  BY <1>1, <1>2, <1>3, StackAssumption DEF Init, StackOwned
<1>7. OneRunning
  BY DEF Init, OneRunning
<1>8. SchedSlot
  BY <1>1 DEF Init, SchedSlot
<1>9. ContextPlaced
  BY <1>1, <1>3, OneRing3Assumption DEF Init, ContextPlaced
<1>10. Executing
  BY DEF Init, Executing, Active
<1>11. TargetApart
  BY <1>1, TableAssumption DEF Init, TargetApart
<1>12. FlagOff
  BY <1>1 DEF Init, FlagOff, NoSelfExit
<1> QED
  BY <1>5, <1>6, <1>7, <1>8, <1>9, <1>10, <1>11, <1>12 DEF IInv

\* The scheduler's steps.
LEMMA SchedInv ==
  ASSUME TypeOK, IInv, SchedStep
  PROVE  IInv'
<1> USE Constants DEF IInv
<1>1. CASE SchedSkip
  BY <1>1 DEF SchedSkip, table, ContextIntact, StackOwned, OneRunning, HasStack,
     SchedSlot, ContextPlaced, KernelStack, Executing, Active, TargetApart, FlagOff,
     InExitWindow, NextSlot
<1>2. CASE SchedDispatch
  <2>1. /\ onCpu = Sched /\ scan \in Pid /\ status[scan] = "RUNNABLE"
        /\ scan # Sched /\ scan # NoProc
    BY <1>2 DEF SchedDispatch, Eligible, TypeOK, SchedSlot, NextSlot
  <2>2. Sched \in HasStack /\ scan \in HasStack
    BY <2>1 DEF HasStack, SchedSlot
  <2>3. /\ \A p \in Pid \ {scan} : status[p] = "RUNNABLE" => context[p] # context[scan]
        /\ \A p \in Pid : status[p] = "RUNNABLE" => context[p] # stack[Sched]
    <3>1. \A p \in Pid : status[p] = "RUNNABLE" => p \in HasStack /\ p # Sched
      BY DEF HasStack, SchedSlot
    <3> QED
      BY <3>1, <2>1, <2>2, PlacesApart DEF ContextPlaced, ContextIntact
  <2>4. stack[Sched] \in Place /\ context[scan] \in Place /\ context[Sched] = stack[Sched]
    BY <2>1 DEF TypeOK, SchedSlot
  <2>5. /\ context' = context
        /\ onCpu' = scan
        /\ frame' = [frame EXCEPT ![stack[Sched]] = Sched, ![context[scan]] = NoProc]
    <3>1. [frame EXCEPT ![stack[Sched]] = Sched][context[scan]] = scan
      BY <2>1, <2>3, <2>4 DEF TypeOK, ContextIntact
    <3> QED
      BY <1>2, <2>4, <3>1 DEF SchedDispatch, context_switch, TypeOK, NextSlot
  <2>6. /\ status' = [status EXCEPT ![scan] = "RUNNING"]
        /\ curproc' = scan
        /\ UNCHANGED <<stack, entry, pc, target, live>>
    BY <1>2 DEF SchedDispatch, NextSlot
  <2>7. HasStack' = HasStack
    BY <2>1, <2>6 DEF HasStack, TypeOK
  <2>8. ContextIntact'
    BY <2>1, <2>3, <2>4, <2>5, <2>6 DEF ContextIntact, TypeOK
  <2>9. StackOwned'
    BY <2>6, <2>7 DEF StackOwned
  <2>10. OneRunning'
    BY <2>1, <2>5, <2>6 DEF OneRunning, SchedSlot, TypeOK
  <2>11. SchedSlot'
    BY <2>1, <2>5, <2>6 DEF SchedSlot, TypeOK
  <2>12. ContextPlaced'
    BY <2>5, <2>6, <2>7 DEF ContextPlaced, KernelStack
  <2>13. Executing'
    BY <2>1, <2>5, <2>6 DEF Executing, Active, TypeOK
  <2>14. TargetApart'
    BY <2>6 DEF TargetApart
  <2>15. FlagOff'
    BY <2>1, <2>5, <2>6 DEF FlagOff, InExitWindow, Executing, Active
  <2> QED
    BY <2>8, <2>9, <2>10, <2>11, <2>12, <2>13, <2>14, <2>15
<1> QED
  BY <1>1, <1>2 DEF SchedStep

\* Both ways back to the scheduler, from process p whose registers go to
\* place s: the scheduler's context is intact, so the switch reaches it.
LEMMA ToSched ==
  ASSUME TypeOK, IInv, NEW p \in Pid \ {Sched}, NEW s \in Place, onCpu = p,
         s # stack[Sched], context_switch(p, s, Sched)
  PROVE  /\ context' = [context EXCEPT ![p] = s]
         /\ onCpu' = Sched
         /\ frame' = [frame EXCEPT ![s] = p, ![stack[Sched]] = NoProc]
<1> USE Constants DEF IInv
<1>1. context[Sched] = stack[Sched] /\ stack[Sched] \in Place
  BY DEF SchedSlot, TypeOK
<1>2. [frame EXCEPT ![s] = p][context[Sched]] = Sched
  BY <1>1 DEF ContextIntact, TypeOK
<1> QED
  BY <1>1, <1>2 DEF context_switch

\* A tick strikes a task that is not ending.
LEMMA TickOutside ==
  ASSUME TypeOK, IInv, Tick, WindowClosed
  PROVE  /\ onCpu \in Pid \ {Sched} /\ onCpu # NoProc
         /\ pc[onCpu] # "exit" /\ onCpu = curproc /\ status[onCpu] = "RUNNING"
<1>1. ~InExitWindow
  BY DEF Tick, WindowClosed, IInv, FlagOff
<1> QED
  BY <1>1, Constants DEF Tick, InExitWindow, IInv, Executing, OneRunning

LEMMA TickInv ==
  ASSUME TypeOK, IInv, Tick, WindowClosed
  PROVE  IInv'
<1> USE Constants DEF IInv
<1> DEFINE p == onCpu
           s == KernelStack(p)
<1>1. /\ p \in Pid \ {Sched} /\ p # NoProc
      /\ pc[p] # "exit" /\ p = curproc /\ status[p] = "RUNNING"
  BY TickOutside
<1>2. /\ status' = [status EXCEPT ![p] = "RUNNABLE"]
      /\ UNCHANGED <<stack, entry, curproc, pc, target, live>>
  BY <1>1 DEF Tick
<1>3. Sched \in HasStack /\ p \in HasStack /\ HasStack' = HasStack
  BY <1>1, <1>2 DEF HasStack, SchedSlot, TypeOK
<1>4. s \in Place /\ s # stack[Sched]
  BY <1>1, <1>3, KernelStackPlace, PlacesApart
<1>5. /\ context' = [context EXCEPT ![p] = s]
      /\ onCpu' = Sched
      /\ frame' = [frame EXCEPT ![s] = p, ![stack[Sched]] = NoProc]
  BY <1>1, <1>4, ToSched DEF Tick
<1>6. \A q \in Pid \ {p} : status[q] = "RUNNABLE" =>
        context[q] # s /\ context[q] # stack[Sched]
  <2>1. \A q \in Pid : status[q] = "RUNNABLE" => q \in HasStack /\ q # Sched
    BY DEF HasStack, SchedSlot
  <2> QED
    BY <2>1, <1>3, PlacesApart DEF ContextPlaced
<1>7. ContextIntact'
  <2>1. frame'[s] = p
    BY <1>4, <1>5 DEF TypeOK
  <2>2. \A q \in Pid \ {p} : status[q] = "RUNNABLE" => frame'[context[q]] = q
    BY <1>5, <1>6 DEF ContextIntact, TypeOK
  <2> QED
    BY <1>1, <1>2, <1>5, <2>1, <2>2 DEF ContextIntact, TypeOK
<1>8. StackOwned'
  BY <1>2, <1>3 DEF StackOwned
<1>9. OneRunning'
  BY <1>1, <1>2, <1>5 DEF OneRunning, TypeOK
<1>10. SchedSlot'
  BY <1>1, <1>2, <1>5 DEF SchedSlot, TypeOK
<1>11. ContextPlaced'
  BY <1>1, <1>2, <1>3, <1>5 DEF ContextPlaced, KernelStack, TypeOK, HasStack
<1>12. Executing'
  BY <1>1, <1>2, <1>5 DEF Executing, Active, TypeOK
<1>13. TargetApart'
  BY <1>2 DEF TargetApart
<1>14. FlagOff'
  BY <1>2 DEF FlagOff, Tick
<1> QED
  BY <1>7, <1>8, <1>9, <1>10, <1>11, <1>12, <1>13, <1>14

LEMMA ExitSwitchInv ==
  ASSUME TypeOK, IInv, NEW p \in Pid, ExitSwitch(p)
  PROVE  IInv'
<1> USE Constants DEF IInv
<1> DEFINE s == stack[p]
<1>1. /\ onCpu = p /\ pc[p] = "exit" /\ p # NoProc
      /\ UNCHANGED <<status, stack, entry, curproc, pc, target, live>>
  BY DEF ExitSwitch
<1>2. p # Sched
  BY <1>1 DEF SchedSlot
<1>3. p = curproc /\ status[p] = "NOALLOC" /\ KernelStack(p) = s /\ s \in Stack \ live
  BY <1>1, <1>2 DEF OneRunning, Executing, KernelStack
<1>4. s \in Place /\ \A q \in HasStack : s # stack[q]
  BY <1>3 DEF StackOwned
<1>5. Sched \in HasStack /\ HasStack' = HasStack
  BY <1>1 DEF HasStack, SchedSlot
<1>6. /\ context' = [context EXCEPT ![p] = s]
      /\ onCpu' = Sched
      /\ frame' = [frame EXCEPT ![s] = p, ![stack[Sched]] = NoProc]
  BY <1>1, <1>2, <1>3, <1>4, <1>5, ToSched DEF ExitSwitch
<1>7. \A q \in Pid : status[q] = "RUNNABLE" =>
        q # p /\ context[q] # s /\ context[q] # stack[Sched]
  <2>1. \A q \in Pid : status[q] = "RUNNABLE" => q \in HasStack /\ q # Sched /\ q # p
    BY <1>3 DEF HasStack, SchedSlot
  <2>2. s # Esp0
    BY <1>3, StackAssumption
  <2> QED
    BY <2>1, <2>2, <1>4, <1>5, PlacesApart DEF ContextPlaced, KernelStack
<1>8. ContextIntact'
  BY <1>1, <1>6, <1>7 DEF ContextIntact, TypeOK
<1>9. StackOwned'
  BY <1>1, <1>5 DEF StackOwned
<1>10. OneRunning'
  BY <1>1, <1>3, <1>6 DEF OneRunning, TypeOK
<1>11. SchedSlot'
  BY <1>1, <1>2, <1>6 DEF SchedSlot, TypeOK
<1>12. ContextPlaced'
  <2>1. p \notin HasStack
    BY <1>3 DEF HasStack
  <2> QED
    BY <2>1, <1>1, <1>5, <1>6 DEF ContextPlaced, KernelStack, TypeOK, HasStack
<1>13. Executing'
  BY <1>1, <1>6 DEF Executing, Active
<1>14. TargetApart'
  BY <1>1 DEF TargetApart
<1>15. FlagOff'
  BY <1>1 DEF FlagOff, InExitWindow, ExitSwitch
<1> QED
  BY <1>8, <1>9, <1>10, <1>11, <1>12, <1>13, <1>14, <1>15

\* What the console's commands leave alone.
LEMMA ConsoleInv ==
  ASSUME TypeOK, IInv, onCpu \in Pid \ {Sched}
  PROVE  /\ onCpu = curproc /\ onCpu # NoProc
         /\ pc[onCpu] = "exit" \/ status[onCpu] = "RUNNING"
BY Constants DEF IInv, OneRunning, Executing

LEMMA AllocInv ==
  ASSUME TypeOK, IInv, NEW p \in Pid, proc_alloc(p)
  PROVE  IInv'
<1> USE Constants DEF IInv
<1>1. onCpu = Console /\ pc[Console] = "run" /\ status[Console] = "RUNNING"
  BY DEF proc_alloc, Executes, Executing, Free
<1>2. /\ \/ status[p] = "NOALLOC" /\ status' = [status EXCEPT ![p] = "INIT"]
         \/ status' = status
      /\ p # Console /\ p # Sched
      /\ target' = p
      /\ pc' = [pc EXCEPT ![Console] = "spawn"]
      /\ UNCHANGED <<stack, context, entry, curproc, onCpu, live, frame>>
  BY <1>1 DEF proc_alloc, SchedSlot, Free
<1>3. HasStack' = HasStack
  BY <1>2 DEF HasStack, TypeOK
<1>4. ContextIntact'
  BY <1>2 DEF ContextIntact, TypeOK
<1>5. StackOwned'
  BY <1>2, <1>3 DEF StackOwned
<1>6. OneRunning'
  BY <1>2 DEF OneRunning, TypeOK
<1>7. SchedSlot'
  BY <1>2 DEF SchedSlot, TypeOK
<1>8. ContextPlaced'
  BY <1>2, <1>3 DEF ContextPlaced, KernelStack
<1>9. Executing'
  BY <1>1, <1>2 DEF Executing, Active, TypeOK
<1>10. TargetApart'
  BY <1>2 DEF TargetApart
<1>11. FlagOff'
  BY <1>1, <1>2 DEF FlagOff, InExitWindow, TypeOK
<1> QED
  BY <1>4, <1>5, <1>6, <1>7, <1>8, <1>9, <1>10, <1>11

LEMMA KtaskInitInv ==
  ASSUME TypeOK, IInv, NEW f \in SpawnEntry, NEW s \in Stack \ live, ktask_init(f, s)
  PROVE  IInv'
<1> USE Constants DEF IInv
<1> DEFINE t == target
<1>1. /\ onCpu = Console /\ pc[Console] = "spawn" /\ status[Console] = "RUNNING"
      /\ t \in Pid \ {Sched, Console} /\ t # curproc /\ status[t] # "RUNNING"
  BY DEF ktask_init, Executing, TargetApart, OneRunning
<1>2. /\ live' = live \cup {s}
      /\ stack' = [stack EXCEPT ![t] = s]
      /\ context' = [context EXCEPT ![t] = s]
      /\ frame' = [frame EXCEPT ![s] = t]
      /\ entry' = [entry EXCEPT ![t] = f]
      /\ status' = [status EXCEPT ![t] = "RUNNABLE"]
      /\ pc' = [pc EXCEPT ![t] = "run", ![Console] = "run"]
      /\ UNCHANGED <<curproc, onCpu, target>>
  BY DEF ktask_init
<1>3. f # "task_ring3" /\ s # Esp0 /\ s \in Place
  BY CommandAssumption, StackAssumption
<1>4. HasStack' = HasStack \cup {t}
  BY <1>1, <1>2 DEF HasStack, TypeOK
<1>5. \A q \in HasStack : stack[q] # s /\ context[q] # s
  <2>1. \A q \in HasStack : stack[q] # s /\ KernelStack(q) # s
    BY <1>3 DEF StackOwned, KernelStack
  <2> QED
    BY <2>1 DEF ContextPlaced, HasStack
<1>6. ContextIntact'
  <2>1. \A q \in Pid \ {t} : status[q] = "RUNNABLE" => frame'[context'[q]] = q
    <3>1. \A q \in Pid : status[q] = "RUNNABLE" => q \in HasStack
      BY DEF HasStack
    <3> QED
      BY <3>1, <1>2, <1>5 DEF ContextIntact, TypeOK
  <2>2. frame'[context'[t]] = t
    BY <1>1, <1>2, <1>3 DEF TypeOK
  <2>3. frame'[context'[Sched]] = Sched
    <3>1. Sched \in HasStack
      BY DEF HasStack, SchedSlot
    <3> QED
      BY <3>1, <1>1, <1>2, <1>5 DEF ContextIntact, TypeOK
  <2> QED
    BY <1>1, <1>2, <2>1, <2>2, <2>3 DEF ContextIntact, TypeOK
<1>7. StackOwned'
  BY <1>1, <1>2, <1>4, <1>5 DEF StackOwned, TypeOK, HasStack
<1>8. OneRunning'
  BY <1>1, <1>2 DEF OneRunning, TypeOK
<1>9. SchedSlot'
  BY <1>1, <1>2 DEF SchedSlot, TypeOK
<1>10. ContextPlaced'
  <2>1. \A q \in HasStack' : context'[q] \in {stack'[q], KernelStack(q)'}
    BY <1>1, <1>2, <1>3, <1>4 DEF ContextPlaced, KernelStack, TypeOK, HasStack
  <2>2. \A q \in Pid : entry'[q] = "task_ring3" => entry[q] = "task_ring3"
    BY <1>1, <1>2, <1>3 DEF TypeOK
  <2> QED
    BY <2>1, <2>2 DEF ContextPlaced
<1>11. Executing'
  BY <1>1, <1>2 DEF Executing, Active, TypeOK
<1>12. TargetApart'
  BY <1>1, <1>2 DEF TargetApart, TypeOK
<1>13. FlagOff'
  BY <1>1, <1>2 DEF FlagOff, NoSelfExit, InExitWindow, TypeOK
<1> QED
  BY <1>6, <1>7, <1>8, <1>9, <1>10, <1>11, <1>12, <1>13

\* The end of a process, its own or another's: slot and block are freed.
LEMMA EndInv ==
  ASSUME TypeOK, IInv, NEW p \in Pid, Active(p), onCpu \in Pid \ {Sched},
         pc[onCpu] # "exit",
         status' = [status EXCEPT ![p] = "NOALLOC"], live' = live \ {stack[p]},
         \/ p # onCpu /\ pc' = pc
         \/ p = onCpu /\ entry[p] # "task_ring3" /\ pc' = [pc EXCEPT ![p] = "exit"],
         NoSelfExit => pc' = pc \/ intr' = FALSE,
         UNCHANGED <<stack, context, entry, curproc, onCpu, target, frame>>
  PROVE  IInv'
<1> USE Constants DEF IInv
<1>1. onCpu = curproc /\ status[onCpu] = "RUNNING" /\ p # Sched
  BY DEF OneRunning, Executing, Active, SchedSlot
<1>2. p \in HasStack /\ HasStack' = HasStack \ {p}
  BY DEF HasStack, Active, TypeOK
<1>3. ContextIntact'
  BY DEF ContextIntact, TypeOK
<1>4. StackOwned'
  BY <1>2 DEF StackOwned, HasStack
<1>5. OneRunning'
  BY <1>1 DEF OneRunning, TypeOK
<1>6. SchedSlot'
  BY <1>1 DEF SchedSlot, TypeOK
<1>7. ContextPlaced'
  BY <1>2 DEF ContextPlaced, KernelStack
<1>8. Executing'
  <2>1. stack[p] \in Stack
    BY <1>2 DEF StackOwned, TypeOK
  <2> QED
    BY <1>1, <2>1 DEF Executing, Active, TypeOK
<1>9. TargetApart'
  BY DEF TargetApart, TypeOK
<1>10. FlagOff'
  BY DEF FlagOff, InExitWindow
<1> QED
  BY <1>3, <1>4, <1>5, <1>6, <1>7, <1>8, <1>9, <1>10

LEMMA NextInv ==
  ASSUME TypeOK, IInv, [Next]_vars, WindowClosed
  PROVE  IInv'
<1> USE Constants
<1>1. CASE SchedStep
  BY <1>1, SchedInv
<1>2. CASE Tick
  BY <1>2, TickInv
<1>3. ASSUME NEW p \in Pid, proc_alloc(p) PROVE IInv'
  BY <1>3, AllocInv
<1>4. ASSUME NEW f \in SpawnEntry, NEW s \in Stack \ live, ktask_init(f, s) PROVE IInv'
  BY <1>4, KtaskInitInv
<1>5. ASSUME NEW p \in Pid, KillOther(p) PROVE IInv'
  <2>1. onCpu = Console /\ pc[Console] # "exit" /\ p # onCpu
    BY <1>5, ConsoleInv DEF KillOther, Executes, Ended, Freed
  <2> QED
    BY <1>5, <2>1, EndInv DEF KillOther, Ended, Freed
<1>6. ASSUME NEW p \in Pid, KillSelf(p) PROVE IInv'
  <2>1. onCpu = Console /\ pc[Console] # "exit" /\ p = Console /\ entry[p] # "task_ring3"
    BY <1>6, ConsoleInv DEF KillSelf, Executes, IInv, TargetApart
  <2> QED
    BY <1>6, <2>1, EndInv DEF KillSelf, ktask_exit, Ended, Freed
<1>7. ASSUME NEW p \in Pid, TaskExit(p) PROVE IInv'
  <2>1. /\ onCpu = p /\ p # Sched /\ pc[p] # "exit" /\ p = curproc
        /\ entry[p] # "task_ring3" /\ Active(p) /\ ~NoSelfExit
    BY <1>7, ConsoleInv DEF TaskExit, Executes, Active, IInv, FlagOff
  <2> QED
    BY <1>7, <2>1, EndInv DEF TaskExit, ktask_exit, Ended, Freed
<1>8. CASE ExitStep
  BY <1>8, ExitSwitchInv DEF ExitStep
<1>9. CASE UNCHANGED vars
  BY <1>9 DEF vars, table, IInv, ContextIntact, StackOwned, OneRunning, HasStack,
     SchedSlot, ContextPlaced, KernelStack, Executing, Active, TargetApart, FlagOff,
     InExitWindow
<1>10. Killable \subseteq Pid
  BY CommandAssumption
<1> QED
  BY <1>1, <1>2, <1>3, <1>4, <1>5, <1>6, <1>7, <1>8, <1>9, <1>10 DEF Next

(***************************************************************************)
(* As long as no process ends itself, or no tick strikes when one does,    *)
(* no context is ever lost, every process that can run owns its stack, and *)
(* only the current process is RUNNING.                                    *)
(***************************************************************************)
THEOREM MtaskSafe ==
  ASSUME WindowClosed
  PROVE  Spec => [](ContextIntact /\ StackOwned /\ OneRunning)
<1>1. Init => TypeOK /\ IInv
  BY InitType, InitInv
<1>2. TypeOK /\ IInv /\ [Next]_vars => (TypeOK /\ IInv)'
  BY NextType, NextInv
<1>3. IInv => ContextIntact /\ StackOwned /\ OneRunning
  BY DEF IInv
<1> QED
  BY <1>1, <1>2, <1>3, PTL DEF Spec

-----------------------------------------------------------------------------
\* The refinement mapping takes initial states and steps to TaskSet's.
LEMMA InitTasks == Init => Tasks!Init
BY Constants DEF Init, Tasks!Init, OnTask, Alive, Active

LEMMA NextTasks ==
  ASSUME TypeOK, IInv, [Next]_vars, WindowClosed
  PROVE  [Tasks!Next]_(Tasks!vars)
<1> USE Constants DEF Tasks!vars
<1>1. CASE SchedSkip
  BY <1>1 DEF SchedSkip, table, OnTask, Alive, Active, NextSlot
<1>2. CASE SchedDispatch
  <2>1. onCpu' \in {scan, NoProc} /\ scan \in Alive /\ OnTask = NoProc /\ Alive' = Alive
    BY <1>2 DEF SchedDispatch, Eligible, context_switch, OnTask, Alive, Active, TypeOK,
       IInv, SchedSlot, NextSlot
  <2>2. OnTask' \in {scan, NoProc}
    BY <2>1 DEF OnTask
  <2>3. CASE OnTask' = scan
    BY <2>1, <2>3 DEF Tasks!Next, Tasks!Dispatch, Alive
  <2>4. CASE OnTask' = NoProc
    BY <2>1, <2>4
  <2> QED
    BY <2>2, <2>3, <2>4
<1>3. CASE Tick
  <2>1. status[onCpu] = "RUNNING" /\ onCpu = curproc /\ onCpu \in Pid \ {Sched}
    BY <1>3, TickOutside
  <2>2. OnTask # NoProc /\ Alive' = Alive
    BY <1>3, <2>1 DEF Tick, OnTask, Alive, Active, TypeOK
  <2>3. OnTask' = NoProc
    <3>1. onCpu' \in {Sched, NoProc} /\ status'[Sched] = "NOSCHED"
      BY <1>3, <2>1 DEF Tick, context_switch, TypeOK, IInv, SchedSlot
    <3> QED
      BY <3>1 DEF OnTask
  <2> QED
    BY <2>2, <2>3 DEF Tasks!Next, Tasks!Preempt
<1>4. ASSUME NEW p \in Pid, proc_alloc(p) PROVE [Tasks!Next]_(Tasks!vars)
  BY <1>4 DEF proc_alloc, OnTask, Alive, Active, TypeOK, Free
<1>5. ASSUME NEW f \in SpawnEntry, NEW s \in Stack \ live, ktask_init(f, s)
      PROVE [Tasks!Next]_(Tasks!vars)
  <2>1. /\ onCpu = Console /\ status[Console] = "RUNNING"
        /\ target \in Pid \ {Console} /\ status' = [status EXCEPT ![target] = "RUNNABLE"]
        /\ onCpu' = onCpu
    BY <1>5 DEF ktask_init, IInv, Executing, TargetApart
  <2>2. Alive' = Alive \cup {target} /\ OnTask' = OnTask
    BY <2>1 DEF OnTask, Alive, Active, TypeOK
  <2>3. CASE target \in Alive
    BY <2>2, <2>3
  <2>4. CASE target \notin Alive
    BY <2>1, <2>2, <2>4 DEF Tasks!Next, Tasks!Spawn
  <2> QED
    BY <2>3, <2>4
<1>6. ASSUME NEW p \in Pid, KillOther(p) PROVE [Tasks!Next]_(Tasks!vars)
  <2>1. Alive' = Alive \ {p} /\ p \in Alive /\ OnTask' = OnTask /\ OnTask # p
    BY <1>6, ConsoleInv DEF KillOther, Executes, OnTask, Alive, Active, TypeOK, Ended, Freed
  <2> QED
    BY <2>1 DEF Tasks!Next, Tasks!Kill
<1>7. ASSUME onCpu \in Pid \ {Sched}, pc[onCpu] # "exit", NEW f \in BOOLEAN, ktask_exit(f)
      PROVE [Tasks!Next]_(Tasks!vars)
  <2>1. status[onCpu] = "RUNNING" /\ onCpu = curproc
    BY <1>7, ConsoleInv
  <2>2. OnTask = onCpu /\ onCpu # NoProc /\ Alive' = Alive \ {onCpu}
    BY <1>7, <2>1 DEF ktask_exit, OnTask, Alive, Active, TypeOK, Ended, Freed
  <2>3. OnTask' = NoProc
    BY <1>7, <2>1 DEF ktask_exit, OnTask, Alive, Active, TypeOK, Ended, Freed
  <2> QED
    BY <2>2, <2>3 DEF Tasks!Next, Tasks!Exit
<1>8. ASSUME NEW p \in Pid, ExitSwitch(p) PROVE [Tasks!Next]_(Tasks!vars)
  <2>1. OnTask = NoProc /\ Alive' = Alive
    BY <1>8 DEF ExitSwitch, OnTask, Alive, Active, IInv, Executing, SchedSlot
  <2>2. OnTask' = NoProc
    <3>1. onCpu' \in {Sched, NoProc} /\ status'[Sched] = "NOSCHED"
      BY <1>8 DEF ExitSwitch, context_switch, IInv, SchedSlot
    <3> QED
      BY <3>1 DEF OnTask
  <2> QED
    BY <2>1, <2>2
<1>9. CASE UNCHANGED vars
  BY <1>9 DEF vars, table, OnTask, Alive, Active
<1>10. Killable \subseteq Pid /\ intr \in BOOLEAN
  BY CommandAssumption DEF TypeOK
<1> QED
  BY <1>1, <1>2, <1>3, <1>4, <1>5, <1>6, <1>7, <1>8, <1>9, <1>10
  DEF Next, SchedStep, ExitStep, KillSelf, TaskExit, Executes

(***************************************************************************)
(* The table implements TaskSet for all time: every step of the kernel is  *)
(* a spawn, kill, exit, preemption or dispatch of one task, or no step.    *)
(***************************************************************************)
THEOREM MtaskImplementsTaskSet ==
  ASSUME WindowClosed
  PROVE  Spec => ImplementsTaskSet
<1>1. Init => TypeOK /\ IInv
  BY InitType, InitInv
<1>2. TypeOK /\ IInv /\ [Next]_vars => (TypeOK /\ IInv)'
  BY NextType, NextInv
<1>3. TypeOK /\ IInv /\ [Next]_vars => [Tasks!Next]_(Tasks!vars)
  BY NextTasks
<1> QED
  BY <1>1, <1>2, <1>3, InitTasks, PTL DEF Spec, ImplementsTaskSet, Tasks!Spec

-----------------------------------------------------------------------------
\* What a step may do to the slots, the blocks and the console's command.
Moved(p) ==
  /\ Active(p)
  /\ \E v \in {"RUNNABLE", "RUNNING"} : status' = [status EXCEPT ![p] = v]
  /\ UNCHANGED <<stack, live, pc, target>>

EndedStep(p) ==
  /\ Active(p)
  /\ status' = [status EXCEPT ![p] = "NOALLOC"] /\ live' = live \ {stack[p]}
  /\ pc' = pc \/ \E q \in Pid : pc' = [pc EXCEPT ![q] = "exit"]
  /\ UNCHANGED <<stack, target>>

LEMMA StepKinds ==
  ASSUME TypeOK, IInv, [Next]_vars, WindowClosed
  PROVE  \/ UNCHANGED <<status, stack, live, pc, target>>
         \/ \E p \in Pid : Moved(p) \/ proc_alloc(p) \/ EndedStep(p)
         \/ \E f \in SpawnEntry, s \in Stack \ live : ktask_init(f, s)
<1> USE Constants
<1>1. CASE SchedSkip
  BY <1>1 DEF SchedSkip, table
<1>2. CASE SchedDispatch
  BY <1>2 DEF SchedDispatch, Eligible, Moved, Active, TypeOK
<1>3. CASE Tick
  <2>1. onCpu = curproc /\ curproc \in Pid /\ Active(curproc)
    BY <1>3, TickOutside DEF Active
  <2> QED
    BY <1>3, <2>1 DEF Tick, Moved
<1>4. CASE \E p \in Pid : ExitSwitch(p)
  BY <1>4 DEF ExitSwitch
<1>5. ASSUME NEW p \in Pid, KillOther(p) PROVE EndedStep(p)
  BY <1>5 DEF KillOther, EndedStep, Ended, Freed
<1>6. ASSUME NEW p \in Pid, KillSelf(p) PROVE EndedStep(p)
  BY <1>6 DEF KillSelf, Executes, ktask_exit, EndedStep, Ended, Freed
<1>7. ASSUME NEW p \in Pid, TaskExit(p) PROVE EndedStep(p)
  <2>1. onCpu = p /\ p = curproc /\ Active(p)
    BY <1>7, ConsoleInv DEF TaskExit, Executes, Active
  <2> QED
    BY <1>7, <2>1 DEF TaskExit, ktask_exit, EndedStep, Ended, Freed
<1>8. CASE UNCHANGED vars
  BY <1>8 DEF vars, table
<1>9. Killable \subseteq Pid
  BY CommandAssumption
<1> QED
  BY <1>1, <1>2, <1>3, <1>4, <1>5, <1>6, <1>7, <1>8, <1>9 DEF Next, SchedStep, ExitStep

\* What ktask_init finds: the console's slot is another's, never RUNNING.
LEMMA Target ==
  ASSUME TypeOK, IInv, NEW f \in SpawnEntry, NEW s \in Stack \ live, ktask_init(f, s)
  PROVE  target \in Pid \ {Sched, Console} /\ s \in live'
BY DEF ktask_init, IInv, TargetApart

LEMMA LeakStep ==
  ASSUME TypeOK, IInv, [Next]_vars, WindowClosed
  PROVE  \A s \in Lost' : s \in Lost \/ \E p \in HasStack : Overwritten(p) /\ s = stack[p]
<1> USE Constants
<1>1. CASE UNCHANGED <<status, stack, live, pc, target>>
  BY <1>1 DEF Lost, HasStack
<1>2. ASSUME NEW p \in Pid, Moved(p) \/ proc_alloc(p) PROVE Lost' = Lost
  <2>1. HasStack' = HasStack /\ stack' = stack /\ live' = live
    BY <1>2 DEF Moved, Active, proc_alloc, Free, HasStack, TypeOK
  <2> QED
    BY <2>1 DEF Lost
<1>3. ASSUME NEW p \in Pid, EndedStep(p) PROVE Lost' \subseteq Lost
  <2>1. HasStack' = HasStack \ {p}
    BY <1>3 DEF EndedStep, Active, HasStack, TypeOK
  <2> QED
    BY <1>3, <2>1 DEF EndedStep, Lost
<1>4. ASSUME NEW f \in SpawnEntry, NEW b \in Stack \ live, ktask_init(f, b), NEW s \in Lost'
      PROVE  s \in Lost \/ \E p \in HasStack : Overwritten(p) /\ s = stack[p]
  <2>1. target \in Pid
    BY <1>4, Target
  <2>2. HasStack' = HasStack \cup {target}
    BY <1>4, <2>1 DEF ktask_init, HasStack, TypeOK
  <2>3. s # b /\ s \in live /\ \A p \in HasStack \ {target} : s # stack[p]
    BY <1>4, <2>1, <2>2 DEF ktask_init, Lost, TypeOK, HasStack
  <2>4. target \in HasStack => Overwritten(target)
    BY <1>4 DEF ktask_init, Overwritten, HasStack
  <2> QED
    BY <2>3, <2>4 DEF Lost
<1> QED
  BY <1>1, <1>2, <1>3, <1>4, StepKinds

LEMMA ResurrectionStep ==
  ASSUME TypeOK, IInv, [Next]_vars, WindowClosed,
         NEW p \in Pid, status[p] = "NOALLOC", ~Overwritten(p)
  PROVE  status'[p] \in {"NOALLOC", "INIT"}
<1>1. CASE \E f \in SpawnEntry, s \in Stack \ live : ktask_init(f, s)
  <2>1. p # target
    BY <1>1 DEF ktask_init, Overwritten
  <2> QED
    BY <1>1, <2>1 DEF ktask_init, TypeOK
<1>2. ASSUME NEW q \in Pid, Moved(q) \/ EndedStep(q) \/ proc_alloc(q)
      PROVE  status'[p] \in {"NOALLOC", "INIT"}
  BY <1>2 DEF Moved, EndedStep, Active, proc_alloc, TypeOK
<1> QED
  BY <1>1, <1>2, StepKinds

LEMMA SpawnStep ==
  ASSUME TypeOK, IInv, [Next]_vars, WindowClosed
  PROVE  /\ \A p \in Pid : status[p] \in {"RUNNABLE", "RUNNING"} /\ ~Overwritten(p) =>
                            stack'[p] = stack[p] /\ status'[p] # "INIT"
         /\ \A p \in Pid : Overwritten(p)' /\ ~Overwritten(p) =>
                            \A q \in Pid : status[q] # "NOALLOC"
<1> USE Constants
<1>1. CASE UNCHANGED <<status, stack, live, pc, target>>
  BY <1>1 DEF Overwritten
<1>2. ASSUME NEW f \in SpawnEntry, NEW b \in Stack \ live, ktask_init(f, b),
             NEW p \in Pid
      PROVE  /\ status[p] \in {"RUNNABLE", "RUNNING"} /\ ~Overwritten(p) =>
                  stack'[p] = stack[p] /\ status'[p] # "INIT"
             /\ ~Overwritten(p)'
  <2>1. status[p] \in {"RUNNABLE", "RUNNING"} /\ ~Overwritten(p) => p # target
    BY <1>2 DEF ktask_init, Overwritten
  <2>2. pc'[Console] = "run"
    BY <1>2 DEF ktask_init, TypeOK
  <2> QED
    BY <1>2, <2>1, <2>2 DEF ktask_init, TypeOK, Overwritten
<1>3. ASSUME NEW r \in Pid, Moved(r) \/ EndedStep(r), NEW p \in Pid
      PROVE  /\ status[p] \in {"RUNNABLE", "RUNNING"} =>
                  stack'[p] = stack[p] /\ status'[p] # "INIT"
             /\ Overwritten(p)' => Overwritten(p)
  <2>1. status[p] = "INIT" <=> status'[p] = "INIT"
    BY <1>3 DEF Moved, EndedStep, Active, TypeOK
  <2>2. pc'[Console] = "spawn" => pc[Console] = "spawn"
    BY <1>3 DEF Moved, EndedStep, TypeOK
  <2> QED
    BY <1>3, <2>1, <2>2 DEF Moved, EndedStep, Overwritten
<1>4. ASSUME NEW r \in Pid, proc_alloc(r), NEW p \in Pid
      PROVE  /\ status[p] \in {"RUNNABLE", "RUNNING"} =>
                  stack'[p] = stack[p] /\ status'[p] # "INIT"
             /\ Overwritten(p)' => \A q \in Pid : status[q] # "NOALLOC"
  <2>1. CASE Free(r)
    BY <1>4, <2>1 DEF proc_alloc, Free, Overwritten, TypeOK
  <2>2. CASE ~Free(r)
    <3>1. \A q \in Pid : ~Free(q)
      BY <1>4, <2>2, TableAssumption DEF proc_alloc, Pid
    <3> QED
      BY <1>4, <2>2, <3>1 DEF proc_alloc, Free
  <2> QED
    BY <2>1, <2>2
<1> QED
  BY <1>1, <1>2, <1>3, <1>4, StepKinds

(***************************************************************************)
(* With the exit window closed, no block is lost but to a slot that is     *)
(* overwritten, a process that ended stays ended, and no console command   *)
(* touches a process that can run unless the table is full.                *)
(***************************************************************************)
THEOREM MtaskSteps ==
  ASSUME WindowClosed
  PROVE  Spec => NoStackLeak /\ NoResurrection /\ SpawnFresh
<1>1. Init => TypeOK /\ IInv
  BY InitType, InitInv
<1>2. TypeOK /\ IInv /\ [Next]_vars => (TypeOK /\ IInv)'
  BY NextType, NextInv
<1>3. TypeOK /\ IInv /\ [Next]_vars =>
        [\A s \in Lost' : s \in Lost \/ \E p \in HasStack : Overwritten(p) /\ s = stack[p]]_vars
  BY LeakStep
<1>4. TypeOK /\ IInv /\ [Next]_vars =>
        [\A p \in Pid : status[p] = "NOALLOC" /\ ~Overwritten(p) =>
                          status'[p] \in {"NOALLOC", "INIT"}]_vars
  BY ResurrectionStep
<1>5. TypeOK /\ IInv /\ [Next]_vars =>
        [/\ \A p \in Pid : status[p] \in {"RUNNABLE", "RUNNING"} /\ ~Overwritten(p) =>
                            stack'[p] = stack[p] /\ status'[p] # "INIT"
         /\ \A p \in Pid : Overwritten(p)' /\ ~Overwritten(p) =>
                            \A q \in Pid : status[q] # "NOALLOC"]_vars
  BY SpawnStep
<1> QED
  BY <1>1, <1>2, <1>3, <1>4, <1>5, PTL DEF Spec, NoStackLeak, NoResurrection, SpawnFresh
=============================================================================
