------------------------------- MODULE Mtask -------------------------------
(***************************************************************************)
(* The kernel's multitasking (kernel/mtask.c, kernel/asm/                  *)
(* asm_context_switch.s, the timer branch of kernel/intr.c) on one CPU:    *)
(* the process table, the round-robin scheduler task, preemption by the    *)
(* timer interrupt, and process creation, exit and kill.                   *)
(*                                                                         *)
(* Two ideas carry the model.                                              *)
(*                                                                         *)
(* The interrupt flag is a variable.  Code between io_cli() and            *)
(* store_int_flag() is one atomic step; between two steps of a task whose  *)
(* flag is set the timer interrupt may strike.                             *)
(*                                                                         *)
(* A saved context is memory on a stack.  frame[s] names the process whose *)
(* context can be popped from stack s, so switching to a process whose     *)
(* context was overwritten, or was already popped, is visible: the CPU     *)
(* jumps to garbage and onCpu becomes NoProc, after which nothing happens. *)
(***************************************************************************)
EXTENDS Naturals

CONSTANTS
  PROCESS_COUNT,  \* number of slots of sched.proc[] (16 in mtask.h)
  Boot,           \* Boot[p]: entry point Main() starts in slot p
  BootStack,      \* BootStack[p]: stack block of slot p at boot, 0 included
  Stack,          \* the KTASK_STACK_SIZE blocks kvmalloc can hand out
  Esp0,           \* the stack tss0->esp0 points to, shared by ring 3 tasks
  SpawnEntry,     \* entry points the user starts from the console
  Killable,       \* slots the user names in the console's "kill"
  MaxSpawn,       \* bound: how many processes the console starts
  ExitPreempt     \* may a tick strike between the end of ktask_exit's
                  \* critical section and the next dispatch?

Pid    == 0 .. PROCESS_COUNT - 1
NoProc == PROCESS_COUNT      \* a pointer to no slot of the table
Sched   == 0                 \* sched.sched_proc: the first proc_alloc()
Console == 1                 \* task_console: the second proc_alloc()
BootPid == DOMAIN Boot

\* task_a stands for every task that never returns (task_b, task_fdc too).
Entry  == {"sched", "task_console", "task_ring3", "task_a", "task_syscall"}
Status == {"NOALLOC", "INIT", "RUNNABLE", "RUNNING", "NOSCHED"}
Place  == Stack \cup {Esp0}

ASSUME TableAssumption ==
  /\ PROCESS_COUNT \in Nat /\ PROCESS_COUNT > 2
  /\ BootPid \subseteq Pid \ {Sched}
  /\ Console \in BootPid
  /\ Boot \in [BootPid -> Entry \ {"sched"}]
  /\ \A p \in BootPid : Boot[p] = "task_console" <=> p = Console

ASSUME StackAssumption ==
  /\ Esp0 \notin Stack
  /\ BootStack \in [BootPid \cup {Sched} -> Stack]
  /\ \A p, q \in BootPid \cup {Sched} : BootStack[p] = BootStack[q] => p = q

\* utask_init is called once, by Main().
ASSUME OneRing3Assumption ==
  \A p, q \in BootPid :
    Boot[p] = "task_ring3" /\ Boot[q] = "task_ring3" => p = q

ASSUME CommandAssumption ==
  /\ SpawnEntry \subseteq {"task_a", "task_syscall"}
  /\ Killable \subseteq Pid
  /\ MaxSpawn \in Nat
  /\ ExitPreempt \in BOOLEAN

VARIABLES
  status,    \* proc[p].status
  stack,     \* proc[p].stack
  context,   \* proc[p].context: the stack that holds it
  entry,     \* the function the process in slot p runs
  curproc,   \* sys->cpu->proc
  scan,      \* the loop index of sched()
  onCpu,     \* the process executing; NoProc after a jump to garbage
  intr,      \* the CPU's interrupt flag
  pc,        \* where the process is in the operation it executes
  target,    \* the console's local Process *p
  live,      \* stack blocks that kvmalloc handed out and nobody freed
  frame,     \* frame[s]: whose saved context stack s holds
  spawned    \* number of processes the console started or is starting

table == <<status, stack, context, entry>>
vars  == <<table, curproc, scan, onCpu, intr, pc, target, live, frame, spawned>>

-----------------------------------------------------------------------------
ActiveUnlessSched(p) == status[p] # "NOSCHED"   \* mutant
Active(p) == status[p] \in {"RUNNABLE", "RUNNING"}

\* Where the registers of the executing process p are pushed when it enters
\* the kernel: an interrupt from ring 3 loads esp from the TSS.
KernelStackEsp0(p) == Esp0                      \* mutant
KernelStack(p) == IF entry[p] = "task_ring3" THEN Esp0 ELSE stack[p]

\* context_switch(&old->context, new->context), called on stack s.
context_switch(old, s, new) ==
  LET saved == [frame EXCEPT ![s] = old]
      to    == context[new]
  IN  /\ context' = [context EXCEPT ![old] = s]
      /\ \/ /\ saved[to] = new
            /\ frame' = [saved EXCEPT ![to] = NoProc]
            /\ onCpu' = new
         \/ /\ saved[to] # new
            /\ frame' = saved
            /\ onCpu' = NoProc

\* A task executes ordinary code, at a point where it can start an operation.
Executes(p) == onCpu = p /\ p # Sched /\ pc[p] = "run"

\* The stretch of code in which ktask_exit left interrupts enabled.
InExitWindow == onCpu = Sched \/ pc[onCpu] = "exit"

-----------------------------------------------------------------------------
\* Main() just before start_mtask(): interrupts are off, every boot process is
\* ready, sys->cpu->proc was never assigned (kvmalloc does not clear memory).
Init ==
  /\ status  = [p \in Pid |-> IF p = Sched THEN "NOSCHED"
                              ELSE IF p \in BootPid THEN "RUNNABLE"
                              ELSE "NOALLOC"]
  /\ stack   = [p \in Pid |-> IF p \in DOMAIN BootStack THEN BootStack[p]
                              ELSE Esp0]
  /\ context = stack
  /\ entry   = [p \in Pid |-> IF p \in BootPid THEN Boot[p] ELSE "sched"]
  /\ curproc \in Pid \cup {NoProc}
  /\ scan    = 0
  /\ onCpu   = Sched
  /\ intr    = FALSE
  /\ pc      = [p \in Pid |-> "run"]
  /\ target  = NoProc
  /\ live    = {BootStack[p] : p \in DOMAIN BootStack}
  /\ frame   = [s \in Place |->
                  IF \E p \in BootPid : BootStack[p] = s
                  THEN CHOOSE p \in BootPid : BootStack[p] = s
                  ELSE NoProc]
  /\ spawned = 0

-----------------------------------------------------------------------------
\* sched(): one iteration of the scheduler's for loop.
EligibleUnlessSched(p) == status[p] # "NOSCHED" /\ p # curproc   \* mutant
Eligible(p) == status[p] = "RUNNABLE" /\ p # curproc

NextSlotRestart == IF Eligible(scan) THEN 0                       \* mutant
                   ELSE (scan + 1) % PROCESS_COUNT
NextSlot == (scan + 1) % PROCESS_COUNT

SchedSkip ==
  /\ onCpu = Sched
  /\ ~Eligible(scan)
  /\ scan' = NextSlot
  /\ UNCHANGED <<table, curproc, onCpu, intr, pc, target, live, frame, spawned>>

\* Every context but the scheduler's ends in an iret that sets the flag.
SchedDispatch ==
  /\ onCpu = Sched
  /\ Eligible(scan)
  /\ curproc' = scan
  /\ status' = [status EXCEPT ![scan] = "RUNNING"]
  /\ context_switch(Sched, stack[Sched], scan)
  /\ scan' = NextSlot
  /\ intr' = TRUE
  /\ UNCHANGED <<stack, entry, pc, target, live, spawned>>

\* int_handler() for IRQ0: task_timer has interval 1, so every tick ends in
\* sched_handler(), on the kernel stack of whatever was executing.
Tick ==
  /\ intr
  /\ onCpu \in Pid
  /\ InExitWindow => ExitPreempt
  /\ status' = [status EXCEPT ![curproc] = "RUNNABLE"]
  /\ context_switch(curproc, KernelStack(onCpu), Sched)
  /\ intr' = FALSE
  /\ UNCHANGED <<stack, entry, curproc, scan, pc, target, live, spawned>>

-----------------------------------------------------------------------------
\* proc_alloc(), called by a console command: the first free slot or, when
\* the loop finds none, the last slot it looked at.
FreeUnlessRunning(p) == status[p] \in {"NOALLOC", "RUNNABLE"}     \* mutant
Free(p) == status[p] = "NOALLOC"

proc_alloc(p) ==
  /\ Executes(Console)
  /\ spawned < MaxSpawn
  /\ \A q \in 0 .. p - 1 : ~Free(q)
  /\ \/ /\ Free(p)
        /\ status' = [status EXCEPT ![p] = "INIT"]
     \/ /\ ~Free(p)
        /\ p = PROCESS_COUNT - 1
        /\ UNCHANGED status
  /\ target' = p
  /\ pc' = [pc EXCEPT ![Console] = "spawn"]
  /\ spawned' = spawned + 1
  /\ UNCHANGED <<stack, context, entry, curproc, scan, onCpu, intr, live,
                 frame>>

\* ktask_init(target, ..., f, 0) on stack block s.
ktask_init(f, s) ==
  /\ onCpu = Console
  /\ pc[Console] = "spawn"
  /\ live' = live \cup {s}
  /\ stack' = [stack EXCEPT ![target] = s]
  /\ context' = [context EXCEPT ![target] = s]
  /\ frame' = [frame EXCEPT ![s] = target]
  /\ entry' = [entry EXCEPT ![target] = f]
  /\ status' = [status EXCEPT ![target] = "RUNNABLE"]
  /\ pc' = [pc EXCEPT ![target] = "run", ![Console] = "run"]
  /\ UNCHANGED <<curproc, scan, onCpu, intr, target, spawned>>

\* The end of process p: its slot is NOALLOC and its stack block is freed.
Ended(p) == [status EXCEPT ![p] = "NOALLOC"]

FreedNothing(p) == live                                           \* mutant
Freed(p) == live \ {stack[p]}

\* ktask_kill(p) of a process other than the caller.
KillOther(p) ==
  /\ Executes(Console)
  /\ Active(p)
  /\ p # curproc
  /\ status' = Ended(p)
  /\ live' = Freed(p)
  /\ UNCHANGED <<stack, context, entry, curproc, scan, onCpu, intr, pc, target,
                 frame, spawned>>

\* ktask_exit() up to its store_int_flag(), which restores the flag f.
ktask_exit(f) ==
  /\ status' = Ended(curproc)
  /\ live' = Freed(curproc)
  /\ pc' = [pc EXCEPT ![onCpu] = "exit"]
  /\ intr' = f
  /\ UNCHANGED <<stack, context, entry, curproc, scan, onCpu, target, frame,
                 spawned>>

\* ktask_kill(p) of the caller itself: ktask_exit() runs inside its
\* critical section, so it finds and restores a cleared flag.
KillSelf(p) ==
  /\ Executes(Console)
  /\ Active(p)
  /\ p = curproc
  /\ ktask_exit(FALSE)

\* task_syscall() reaches its ktask_exit() with interrupts enabled.
TaskExit(p) ==
  /\ Executes(p)
  /\ entry[p] = "task_syscall"
  /\ ktask_exit(intr)

\* The context_switch() that ends ktask_exit().
ExitSwitch(p) ==
  /\ onCpu = p
  /\ pc[p] = "exit"
  /\ context_switch(curproc, KernelStack(p), Sched)
  /\ UNCHANGED <<status, stack, entry, curproc, scan, intr, pc, target, live,
                 spawned>>

-----------------------------------------------------------------------------
SchedStep == SchedSkip \/ SchedDispatch
ExitStep  == \E p \in Pid : ExitSwitch(p)

Next ==
  \/ SchedStep
  \/ Tick
  \/ \E p \in Pid : proc_alloc(p)
  \/ \E f \in SpawnEntry, s \in Stack \ live : ktask_init(f, s)
  \/ \E p \in Killable : KillOther(p) \/ KillSelf(p)
  \/ \E p \in Pid : TaskExit(p)
  \/ ExitStep

Spec == Init /\ [][Next]_vars

\* The CPU executes instructions and the PIT keeps raising IRQ0.
Fairness == WF_vars(SchedStep) /\ WF_vars(Tick) /\ WF_vars(ExitStep)
FairSpec == Spec /\ Fairness

-----------------------------------------------------------------------------
TypeOK ==
  /\ status \in [Pid -> Status]
  /\ stack \in [Pid -> Place]
  /\ context \in [Pid -> Place]
  /\ entry \in [Pid -> Entry]
  /\ curproc \in Pid \cup {NoProc}
  /\ scan \in Pid
  /\ onCpu \in Pid \cup {NoProc}
  /\ intr \in BOOLEAN
  /\ pc \in [Pid -> {"run", "spawn", "exit"}]
  /\ target \in Pid \cup {NoProc}
  /\ live \subseteq Stack
  /\ frame \in [Place -> Pid \cup {NoProc}]
  /\ spawned \in 0 .. MaxSpawn

(***************************************************************************)
(* Every context that can be switched to is intact: the context of each    *)
(* RUNNABLE process, and the scheduler's while another process executes,   *)
(* are still on the stack they were saved on (context_switch).             *)
(***************************************************************************)
ContextIntact ==
  /\ onCpu # NoProc
  /\ \A p \in Pid : status[p] = "RUNNABLE" => frame[context[p]] = p
  /\ onCpu # Sched => frame[context[Sched]] = Sched

(***************************************************************************)
(* A process that can run owns its stack: the block is allocated and no    *)
(* other process, the scheduler included, has it (ktask_init, ktask_exit,  *)
(* ktask_kill free and reuse blocks while others keep running).            *)
(***************************************************************************)
HasStack == {p \in Pid : status[p] \in {"RUNNABLE", "RUNNING", "NOSCHED"}}

StackOwned ==
  /\ \A p \in HasStack : stack[p] \in live
  /\ \A p, q \in HasStack : stack[p] = stack[q] => p = q

(***************************************************************************)
(* One CPU, one running task: only the process sys->cpu->proc points to is *)
(* RUNNING, and only while it executes (sched, sched_handler, ktask_exit). *)
(***************************************************************************)
OneRunning ==
  /\ \A p \in Pid : status[p] = "RUNNING" => p = curproc /\ p = onCpu
  /\ onCpu \in Pid \ {Sched} => onCpu = curproc

\* proc_alloc() gave the console a slot that was not free: in a full table its
\* loop leaves proc on the last slot.  Such a slot is overwritten.
Overwritten(p) == pc[Console] = "spawn" /\ p = target /\ status[p] # "INIT"

(***************************************************************************)
(* No stack leaks: every allocated block is recorded in a process that     *)
(* frees it at its end (mtask.c: "record the stack, it is freed on exit"), *)
(* unless ktask_init overwrites a process; that loses its block alone.     *)
(***************************************************************************)
Lost == live \ {stack[p] : p \in HasStack}

NoStackLeak ==
  [][\A s \in Lost' : s \in Lost \/ \E p \in HasStack : Overwritten(p) /\ s = stack[p]]_vars

(***************************************************************************)
(* A process that ended stays ended: its slot leaves NOALLOC only through  *)
(* proc_alloc, never by the scheduler or the tick handler.                 *)
(***************************************************************************)
NoResurrection ==
  [][\A p \in Pid : status[p] = "NOALLOC" /\ ~Overwritten(p) =>
                      status'[p] \in {"NOALLOC", "INIT"}]_vars

(***************************************************************************)
(* A console command never takes the slot of a process that can run: its   *)
(* slot is not set up anew and its stack is not replaced behind its back,  *)
(* and proc_alloc returns a taken slot only if it found no free one        *)
(* (proc_alloc, ktask_init, with ticks and exits between the two).         *)
(***************************************************************************)
SpawnFresh ==
  [][/\ \A p \in Pid : status[p] \in {"RUNNABLE", "RUNNING"} /\ ~Overwritten(p) =>
                         stack'[p] = stack[p] /\ status'[p] # "INIT"
     /\ \A p \in Pid : Overwritten(p)' /\ ~Overwritten(p) =>
                         \A q \in Pid : status[q] # "NOALLOC"]_vars

(***************************************************************************)
(* No starvation: a RUNNABLE process is eventually dispatched (or killed). *)
(***************************************************************************)
Dispatched ==
  \A p \in Pid : status[p] = "RUNNABLE" ~> status[p] # "RUNNABLE"

(***************************************************************************)
(* The inductive invariant behind these three: where each context lies     *)
(* and who may touch it.  It holds when the exit window is closed.         *)
(***************************************************************************)
\* No process can end itself, so interrupts stay off in the exit window, or
\* no tick happens to strike there.
NoSelfExit   == "task_syscall" \notin SpawnEntry \cup {Boot[p] : p \in BootPid}
WindowClosed == ExitPreempt => NoSelfExit

\* Slot 0 is the scheduler's and no other slot is.
SchedSlot ==
  /\ \A p \in Pid : status[p] = "NOSCHED" <=> p = Sched
  /\ entry[Sched] = "sched" /\ pc[Sched] = "run"
  /\ context[Sched] = stack[Sched]

\* A context waits on its process's own stack or where the TSS points to,
\* and at most one process uses the latter.
ContextPlaced ==
  /\ \A p \in HasStack : context[p] \in {stack[p], KernelStack(p)}
  /\ \A p, q \in Pid : entry[p] = "task_ring3" /\ entry[q] = "task_ring3" => p = q

\* The executing process is RUNNING until ktask_exit frees its slot and block,
\* and no process waits in the exit window.
Executing ==
  /\ onCpu # Sched => status[onCpu] = (IF pc[onCpu] = "exit" THEN "NOALLOC"
                                                            ELSE "RUNNING")
  /\ onCpu # Sched /\ pc[onCpu] = "exit" =>
       entry[onCpu] # "task_ring3" /\ stack[onCpu] \in Stack \ live
  /\ \A p \in Pid : pc[p] = "exit" => ~Active(p)

\* The slot a console command is about to fill is another process's.
TargetApart ==
  /\ pc[Console] = "spawn" => target \in Pid \ {Sched, Console}
  /\ entry[Console] = "task_console"

FlagOff ==
  NoSelfExit => /\ \A p \in Pid : entry[p] # "task_syscall"
                /\ InExitWindow => ~intr

IInv ==
  /\ ContextIntact
  /\ StackOwned
  /\ OneRunning
  /\ SchedSlot
  /\ ContextPlaced
  /\ Executing
  /\ TargetApart
  /\ FlagOff

(***************************************************************************)
(* The process table implements TaskSet: slots whose process can run are   *)
(* the live tasks, and the CPU belongs to the process marked RUNNING.      *)
(***************************************************************************)
Alive == {p \in Pid : Active(p)}
OnTask == IF onCpu \in Alive /\ status[onCpu] = "RUNNING" THEN onCpu ELSE NoProc

Tasks == INSTANCE TaskSet WITH Task <- Pid, None <- NoProc,
                               alive <- Alive, on <- OnTask

ImplementsTaskSet == Tasks!Spec

\* The same with its fairness: no live task is starved of dispatches.
ImplementsFairTaskSet == Tasks!FairSpec
=============================================================================
