----------------------------- MODULE Interrupts -----------------------------
(***************************************************************************)
(* How an interrupt gets in and out of the kernel: the end of Main(), which *)
(* programs the 8259 and sets the gates (main.c, init_pic and set_idt of    *)
(* intr.c), the entry stubs (asm_interrupts.s), int_handler() and pic_eoi() *)
(* (intr.c), context_switch (asm_context_switch.s) and the frames that      *)
(* ktask_init and utask_init (mtask.c) build for tasks that never ran.      *)
(*                                                                         *)
(* Stacks are sequences of words, the top at the end.  A word names what    *)
(* was pushed: <<t, "task", r>> is what task t had in register r, and       *)
(* <<t, "handler", r>> what the kernel had there in an interrupt of t.      *)
(* Nothing else restores a register, so a word popped into the wrong        *)
(* register, or at the wrong depth, shows.                                  *)
(*                                                                         *)
(* Which ready task the scheduler takes is left open: Mtask says which, and *)
(* follows tasks that end and are killed.  The 8259 is external.            *)
(***************************************************************************)
EXTENDS Naturals, Sequences

CONSTANTS
  KTask,        \* tasks set up by ktask_init, the scheduler apart
  UTask,        \* tasks set up by utask_init, which run in ring 3
  Raised,       \* the lines on which devices raise requests
  Exceptions    \* the exceptions a task may cause

Task      == KTask \cup UTask
Sched     == "sched"
Main      == "main"
Esp0      == "esp0"                  \* the stack tss0->esp0 points to
Line      == 0 .. 7                  \* of the master
Vector    == 0 .. 31 \cup 32 .. 39 \cup {128}
NullGate  == 256                     \* int_handler_null
NotYet    == 257                     \* no interrupt so far

\* All ring 3 tasks enter the kernel on the one stack of the TSS; the kernel
\* has one such task.
ASSUME TaskAssumption ==
  /\ \A t, u \in UTask : t = u
  /\ KTask \cap UTask = {} /\ Task \cap {Sched, Main, Esp0} = {} /\ Task # {}
ASSUME DeviceAssumption == Raised \subseteq Line /\ Exceptions \subseteq 0 .. 31

General == {"eax", "ecx", "edx", "ebx", "esp", "ebp", "esi", "edi"}
Callee  == {"ebx", "ebp", "esi", "edi"}    \* what a C function must preserve
Segment == {"ds", "es", "fs", "gs"}

VARIABLES
  boot,                \* the next statement of Main()
  pic,                 \* the two controllers
  gate,                \* gate[v]: the number of the stub, or NullGate
  cur, place, todo,    \* who executes, where, what is left of its handler
  intr, regs, sp,      \* the CPU: the flag, the registers, the stack in use
  stack, context,      \* memory: stacks, proc->context as [s, d]: d words of s
  curproc,             \* sys->cpu->proc
  entered              \* history: the last vector a task entered the kernel by

cpu  == <<cur, place, todo, intr, regs, sp>>
vars == <<boot, pic, gate, cpu, stack, context, curproc, entered>>

-----------------------------------------------------------------------------
\* The boot sequence, from io_cli() on.  A mask is the set of its bits.
Out(chip, port, data) == [op |-> "out", chip |-> chip, port |-> port, data |-> data]
SetIdt(v)             == [op |-> "set_idt", v |-> v]

PIC_INTR_VEC_BASE == 32
Enabled == {0, 4, 6}

init_pic_early(imr) ==                                             \* mutant
  << Out("master", "command", {0, 4}), Out("slave", "command", {0, 4}),
     Out("master", "data", PIC_INTR_VEC_BASE), Out("slave", "data", PIC_INTR_VEC_BASE + 8),
     Out("master", "data", {2}), Out("slave", "data", {1}),
     Out("master", "data", imr), Out("slave", "data", Line),
     Out("master", "data", {0}), Out("slave", "data", {0}) >>
init_pic(imr) ==
  << Out("master", "command", {0, 4}), Out("slave", "command", {0, 4}),                     \* ICW1
     Out("master", "data", PIC_INTR_VEC_BASE), Out("slave", "data", PIC_INTR_VEC_BASE + 8), \* ICW2
     Out("master", "data", {2}), Out("slave", "data", {1}),                                 \* ICW3
     Out("master", "data", {0}), Out("slave", "data", {0}),                                 \* ICW4
     Out("master", "data", imr), Out("slave", "data", Line) >>                              \* the masks

Boot == init_pic(Line \ Enabled)
        \o << SetIdt(32), SetIdt(128), SetIdt(36), SetIdt(38), [op |-> "start_mtask"] >>

-----------------------------------------------------------------------------
\* Registers and stacks.
Own(t)       == [r \in General \cup Segment \cup {"cs", "eip"} |-> <<t, "task", r>>]
InHandler(t) == [r \in General |-> <<t, "handler", r>>]
Flags(f)     == <<"flags", f>>
Ring3(cs)    == \E t \in UTask : cs = <<t, "task", "cs">>
Words(v, order) == [i \in DOMAIN order |-> v[order[i]]]
FromTop(w, k)   == w[Len(w) + 1 - k]
Without(w, n)   == SubSeq(w, 1, Len(w) - n)

\* An entry stub: push 0 unless the CPU pushed an error code, push the number,
\* push ds, es, fs, gs, pusha.  all_interrupt_ret undoes it: popa, pop gs, fs,
\* es, ds, add esp 8, iret.
PushOrder == <<"ds", "es", "fs", "gs", "eax", "ecx", "edx", "ebx", "esp", "ebp",
               "esi", "edi">>
PopOrderSwapped == <<"edi", "esi", "ebp", "esp", "ebx", "edx", "ecx", "eax",
                     "fs", "gs", "es", "ds">>                      \* mutant
PopOrder  == <<"edi", "esi", "ebp", "esp", "ebx", "edx", "ecx", "eax", "gs", "fs",
               "es", "ds">>
NoDummy == {8} \cup 10 .. 14         \* the list in the stubs' generator
StubDummyAlways(n) == <<<<"dummy">>, <<"vector", n>>>>             \* mutant
StubDummy(n) == (IF n \in NoDummy THEN <<>> ELSE <<<<"dummy">>>>) \o <<<<"vector", n>>>>

\* Fields of the IntrFrame that int_handler gets.
Intrnum(w) == FromTop(w, 13)
Eip(w)     == FromTop(w, 15)

\* The frame of a new task: ss and esp only if it will return to ring 3, the
\* flag set.  What the memory happened to hold is what the task starts with.
NewFlagsOff == Flags(FALSE)                                        \* mutant
NewFlags == Flags(TRUE)
UserTop(t) == <<<<t, "ss">>, <<t, "stack">>>>
FrameTop(t) == IF t \in UTask THEN UserTop(t) ELSE <<>>
Bottom(t)   == IF t \in UTask THEN <<>> ELSE <<<<t, "fake return">>>>
\* The return address of a call to context_switch, then what that pushes.
ContextOf(v, pl, td) == <<<<"ret", pl, td>>>> \o Words(v, <<"ebp", "ebx", "esi", "edi">>)
NewStack(t, flags) ==
  Bottom(t) \o FrameTop(t) \o <<flags, Own(t)["cs"], Own(t)["eip"], <<"dummy">>, <<"vector", 0>>>>
  \o Words(Own(t), PushOrder) \o ContextOf(InHandler(t), "handler", <<>>)

\* init_pic() finds what boot.s left: everything masked, interrupts off.
Init ==
  /\ boot = 1
  /\ pic = [c \in {"master", "slave"} |->
              [expect |-> 0, base |-> 8, imr |-> Line, irr |-> {}, isr |-> {}]]
  /\ gate = [v \in Vector |-> IF v < 32 THEN v ELSE NullGate]
  /\ cur = Main /\ place = "boot" /\ todo = <<>> /\ intr = FALSE
  /\ regs = Own(Main) /\ sp = Esp0
  /\ stack = [s \in Task \cup {Sched, Esp0} |->
                IF s = Esp0 THEN <<>>
                ELSE NewStack(s, IF s = Sched THEN Flags(FALSE) ELSE NewFlags)]
  /\ context = [t \in Task \cup {Sched} |-> [s |-> t, d |-> Len(stack[t])]]
  /\ curproc \in Task
  /\ entered = [t \in Task |-> NotYet]

-----------------------------------------------------------------------------
\* The 8259: a command with bit 4 starts the initialisation, which takes three
\* data bytes; after that a data byte is the mask.
Written(c, port, data) ==
  CASE port = "command"            -> [c EXCEPT !.expect = 2, !.imr = {}, !.irr = {}, !.isr = {}]
    [] port = "data" /\ c.expect = 0 -> [c EXCEPT !.imr = data]
    [] port = "data" /\ c.expect = 2 -> [c EXCEPT !.expect = 3, !.base = data]
    [] port = "data" /\ c.expect = 3 -> [c EXCEPT !.expect = 4]
    [] port = "data" /\ c.expect = 4 -> [c EXCEPT !.expect = 0]

\* The lines the master would interrupt the CPU for: unmasked, and of higher
\* priority than all that are in service.
Master  == pic["master"]
Offered == {i \in Master.irr \ Master.imr : \A j \in Master.isr : i < j}

Raise(i) ==
  /\ i \notin Master.irr
  /\ pic' = [pic EXCEPT !["master"].irr = @ \cup {i}]
  /\ UNCHANGED <<boot, gate, cpu, stack, context, curproc, entered>>

BootStep ==
  /\ place = "boot" /\ Boot[boot].op # "start_mtask"
  /\ LET st == Boot[boot] IN
     \/ /\ st.op = "out"
        /\ pic' = [pic EXCEPT ![st.chip] = Written(@, st.port, st.data)]
        /\ UNCHANGED gate
     \/ /\ st.op = "set_idt"
        /\ gate' = [gate EXCEPT ![st.v] = st.v]
        /\ UNCHANGED pic
  /\ boot' = boot + 1
  /\ UNCHANGED <<cpu, stack, context, curproc, entered>>

-----------------------------------------------------------------------------
\* What int_handler(iframe) does, by the number in the frame.  Timer, Queue8,
\* Console and Fdc say what timer_tick, int_handler_serial and IRQ6 do.
HandlerEoiLast(n) ==                                               \* mutant
  CASE n = PIC_INTR_VEC_BASE     -> <<<<"sched_handler">>, <<"pic_eoi", 0>>>>
    [] n = PIC_INTR_VEC_BASE + 4 -> <<<<"pic_eoi", 4>>>>
    [] n = PIC_INTR_VEC_BASE + 6 -> <<<<"pic_eoi", 6>>>>
    [] n <= 31                   -> <<<<"io_hlt">>>>
    [] OTHER                     -> <<>>
int_handler(n) ==
  CASE n = PIC_INTR_VEC_BASE     -> <<<<"pic_eoi", 0>>, <<"sched_handler">>>>
    [] n = PIC_INTR_VEC_BASE + 4 -> <<<<"pic_eoi", 4>>>>
    [] n = PIC_INTR_VEC_BASE + 6 -> <<<<"pic_eoi", 6>>>>
    [] n <= 31                   -> <<<<"io_hlt">>>>
    [] OTHER                     -> <<>>

\* The CPU enters the kernel by vector v: an interrupt gate clears the flag,
\* ring 3 changes to the stack of the TSS.  It pushes an error code also for
\* four exceptions that the generator of the stubs does not list: alignment
\* check, control protection, VMM communication and security.
Unlisted     == {17, 21, 29, 30}
ErrorCode(v) == IF v \in NoDummy \cup Unlisted THEN <<<<"error", v>>>> ELSE <<>>

Enter(v) ==
  LET user  == Ring3(regs["cs"])
      on    == IF user THEN Esp0 ELSE sp
      frame == (IF user THEN <<<<cur, "ss">>, <<sp, "stack">>>> ELSE stack[sp])
               \o <<Flags(intr), regs["cs"], regs["eip"]>> \o ErrorCode(v)
               \o StubDummy(gate[v]) \o Words(regs, PushOrder)
  IN  IF gate[v] = NullGate
      THEN UNCHANGED <<cpu, stack, entered>>
      ELSE /\ stack' = [stack EXCEPT ![on] = frame]
           /\ sp' = on /\ intr' = FALSE
           /\ regs' = [r \in DOMAIN regs |-> IF r \in General THEN InHandler(cur)[r] ELSE regs[r]]
           /\ place' = "handler" /\ todo' = int_handler(Intrnum(frame)[2])
           /\ entered' = [entered EXCEPT ![cur] = v]
           /\ UNCHANGED cur

\* The CPU accepts line i between two instructions of a task.
Accept(i) ==
  /\ intr /\ place = "task" /\ cur # Sched
  /\ i \in Offered /\ \A j \in Offered : i <= j
  /\ pic' = [pic EXCEPT !["master"].irr = @ \ {i}, !["master"].isr = @ \cup {i}]
  /\ Enter(Master.base + i)
  /\ UNCHANGED <<boot, gate, context, curproc>>

\* A task causes an exception, or task_syscall, outside critical sections,
\* executes int 0x80.
Trap(v) ==
  /\ place = "task" /\ cur # Sched
  /\ v = 128 => cur \in KTask /\ intr
  /\ Enter(v)
  /\ UNCHANGED <<boot, pic, gate, context, curproc>>

\* Steps of int_handler().
Calls(f) == place = "handler" /\ todo # <<>> /\ Head(todo)[1] = f

Eoi ==
  /\ Calls("pic_eoi")
  /\ pic' = [pic EXCEPT !["master"].isr = @ \ {Head(todo)[2]}]
  /\ todo' = Tail(todo)
  /\ UNCHANGED <<boot, gate, cur, place, intr, regs, sp, stack, context, curproc, entered>>

\* context_switch(old, new): push four registers, change esp, pop four, return.
PopContext == <<"edi", "esi", "ebx", "ebp">>
context_switch(old, new, pl, td) ==
  LET pushed == [stack EXCEPT ![sp] = @ \o ContextOf(regs, pl, td)]
      saved  == [context EXCEPT ![old] = [s |-> sp, d |-> Len(pushed[sp])]]
      w      == SubSeq(pushed[saved[new].s], 1, saved[new].d)
  IN  /\ context' = saved
      /\ sp' = saved[new].s
      /\ stack' = [pushed EXCEPT ![saved[new].s] = Without(w, 5)]
      /\ regs' = [r \in DOMAIN regs |->
                    IF r \in Callee THEN FromTop(w, CHOOSE k \in 1 .. 4 : PopContext[k] = r)
                    ELSE regs[r]]
      /\ cur' = new
      /\ place' = FromTop(w, 5)[2] /\ todo' = FromTop(w, 5)[3]
      /\ UNCHANGED intr

SchedHandler ==
  /\ Calls("sched_handler")
  /\ context_switch(curproc, Sched, "handler", Tail(todo))
  /\ UNCHANGED <<boot, pic, gate, curproc, entered>>

\* task_timer's queue is empty: its timer did not fire in this tick.
NoTaskTimer ==
  /\ Calls("sched_handler")
  /\ todo' = Tail(todo)
  /\ UNCHANGED <<boot, pic, gate, cur, place, intr, regs, sp, stack, context, curproc, entered>>

\* An exception prints its name and stops: for(;;) io_hlt().
Halt ==
  /\ Calls("io_hlt")
  /\ UNCHANGED vars

\* all_interrupt_ret: pop everything, iret.
Leave ==
  /\ place = "handler" /\ todo = <<>>
  /\ LET w    == stack[sp]
         user == Ring3(FromTop(w, 16))
     IN  /\ regs' = [r \in DOMAIN regs |->
                       IF r = "eip" THEN Eip(w) ELSE IF r = "cs" THEN FromTop(w, 16)
                       ELSE FromTop(w, CHOOSE k \in 1 .. 12 : PopOrder[k] = r)]
         /\ intr' = (FromTop(w, 17) = Flags(TRUE))
         /\ sp' = IF user THEN FromTop(w, 18)[1] ELSE sp
         /\ stack' = [stack EXCEPT ![sp] = Without(w, IF user THEN 19 ELSE 17)]
  /\ place' = "task"
  /\ UNCHANGED <<boot, pic, gate, cur, todo, context, curproc, entered>>

\* start_mtask(sched_proc->context) leaves Main()'s stack for good.
StartMtask ==
  /\ place = "boot" /\ Boot[boot].op = "start_mtask"
  /\ LET w == stack[Sched] IN
       /\ sp' = Sched /\ stack' = [stack EXCEPT ![Sched] = Without(w, 5)]
       /\ regs' = [r \in DOMAIN regs |->
                     IF r \in Callee THEN FromTop(w, CHOOSE k \in 1 .. 4 : PopContext[k] = r)
                     ELSE regs[r]]
       /\ place' = FromTop(w, 5)[2] /\ todo' = FromTop(w, 5)[3]
  /\ cur' = Sched
  /\ UNCHANGED <<boot, pic, gate, intr, context, curproc, entered>>

\* sched() takes a ready task, never the one that ran last.
SchedDispatch(t) ==
  /\ cur = Sched /\ place = "task"
  /\ t # curproc
  /\ curproc' = t
  /\ context_switch(Sched, t, "task", <<>>)
  /\ UNCHANGED <<boot, pic, gate, entered>>

\* A kernel task's io_cli() and the store_int_flag() that ends its section.
Cli ==
  /\ cur \in KTask /\ place = "task" /\ intr
  /\ intr' = FALSE
  /\ UNCHANGED <<boot, pic, gate, cur, place, todo, regs, sp, stack, context, curproc, entered>>

StoreIntFlag ==
  /\ cur \in KTask /\ place = "task" /\ ~intr
  /\ intr' = TRUE
  /\ UNCHANGED <<boot, pic, gate, cur, place, todo, regs, sp, stack, context, curproc, entered>>

Handler  == Eoi \/ SchedHandler \/ NoTaskTimer \/ Leave
Dispatch == \E t \in Task : SchedDispatch(t)

Next ==
  \/ BootStep \/ StartMtask
  \/ \E i \in Raised : Raise(i)
  \/ \E i \in Line : Accept(i)
  \/ \E v \in Exceptions \cup {128} : Trap(v)
  \/ Handler \/ Halt \/ Dispatch
  \/ Cli \/ StoreIntFlag

Spec == Init /\ [][Next]_vars

\* The CPU executes: the boot, the handlers, the scheduler and the end of a
\* critical section.  It takes an interrupt at the first instruction it can,
\* so a line that is offered again and again is accepted.
Fairness ==
  /\ WF_vars(BootStep \/ StartMtask) /\ WF_vars(Handler) /\ WF_vars(Dispatch)
  /\ WF_vars(StoreIntFlag)
  /\ \A i \in Line : SF_vars(Accept(i))
FairSpec == Spec /\ Fairness

-----------------------------------------------------------------------------
Executing == place = "task" /\ cur # Sched
Halted    == Calls("io_hlt")

(***************************************************************************)
(* A line is never left in service when a task executes: each handler      *)
(* sends its end of interrupt, to the line that was accepted, before a     *)
(* switch takes the CPU away from it, and no line without a handler gets   *)
(* in (init_pic, int_handler, pic_eoi).  A line left so blocks itself and  *)
(* all below it.                                                           *)
(***************************************************************************)
NoneInService == Executing => Master.isr = {}

(***************************************************************************)
(* A task that executes has its own registers, segments, privilege and     *)
(* address, whatever happened since it was interrupted, and finds its      *)
(* stack as it left it and the one it came in by empty; the kernel's C     *)
(* code finds the registers a call must preserve after context_switch      *)
(* (asm_interrupts.s, context_switch, ktask_init, utask_init).             *)
(***************************************************************************)
ContextKept ==
  /\ Executing => regs = Own(cur)
  /\ place = "task" /\ cur = Sched => \A r \in Callee : regs[r] = Own(Sched)[r]
  /\ place = "handler" /\ cur # Sched =>
       \A r \in Callee : regs[r] = InHandler(cur)[r]
  /\ place = "task" => /\ sp = cur /\ stack[cur] = Bottom(cur)
                       /\ cur \in UTask => stack[Esp0] = <<>>

(***************************************************************************)
(* int_handler reads the number and the address of this interrupt in the   *)
(* frame, with and without an error code, and so does a handler that goes  *)
(* on after a task switch (the stubs, struct IntrFrame).                   *)
(* It fails for an exception of Unlisted: the stub pushes a second code.   *)
(* None of those occurs here: the kernel sets neither CR0.AM nor CR4.      *)
(***************************************************************************)
FrameRead ==
  place = "handler" /\ cur # Sched =>
    /\ Eip(stack[sp]) = Own(cur)["eip"]
    /\ entered[cur] # NotYet => Intrnum(stack[sp]) = <<"vector", entered[cur]>>

(***************************************************************************)
(* The kernel does not keep interrupts off for ever, unless an exception   *)
(* stopped it.                                                             *)
(***************************************************************************)
Interruptible == []<>(Halted \/ (Executing /\ intr))

(***************************************************************************)
(* A request on a line the kernel uses is eventually accepted, unless      *)
(* unmasked requests of higher priority take every chance; one on a masked *)
(* line, which stays pending for ever, takes none.                         *)
(***************************************************************************)
Served ==
  \A i \in Enabled :
    []<>(Halted \/ (Executing /\ intr /\ \A j \in 0 .. i - 1 : j \notin Offered))
      => (i \in Master.irr ~> i \notin Master.irr \/ Halted)

-----------------------------------------------------------------------------
(***************************************************************************)
(* The inductive invariant.  Between its first dispatch and its next one a *)
(* task's words are where it left them: the frame it came in by, under the *)
(* four registers and the return address that context_switch pushed.  The  *)
(* task on the CPU has the same frame while its handler runs, and none     *)
(* before; the scheduler has only what it pushed itself.                   *)
(***************************************************************************)
Register  == General \cup Segment \cup {"cs", "eip"}
Thread    == Task \cup {Sched}
StackName == Thread \cup {Esp0}
Home(t)   == IF t \in UTask THEN Esp0 ELSE t

\* The vectors a task enters the kernel by.
Entries == Exceptions \cup 32 .. 39 \cup {128}

\* The vector in the frame of t: a task that never ran has 0 in it.
Via(t) == IF t = Sched \/ entered[t] = NotYet THEN 0 ELSE entered[t]
Pushed(t, f, v) ==
  FrameTop(t)
  \o <<Flags(f), Own(t)["cs"], Own(t)["eip"],
       IF v \in NoDummy THEN <<"error", v>> ELSE <<"dummy">>, <<"vector", v>>>>
  \o Words(Own(t), PushOrder)
Frame(t, f, v) == Bottom(t) \o Pushed(t, f, v)
HasFrame(t, s) == \E f \in BOOLEAN : stack[s] = Frame(t, f, Via(t))

\* The words of t are on s; a ring 3 task has nothing on the other of its two.
On(t, s) ==
  /\ s \in {t, Home(t)}
  /\ t \in UTask => stack[IF s = t THEN Esp0 ELSE t] = <<>>

\* t waits, under its context.
Waits(t) ==
  LET s == context[t].s IN
  /\ On(t, s)
  /\ context[t].d = Len(stack[s])
  /\ \E f \in BOOLEAN :
       stack[s] = Frame(t, f, Via(t)) \o ContextOf(InHandler(t), "handler", <<>>)
SchedWaits ==
  /\ context[Sched] = [s |-> Sched, d |-> Len(stack[Sched])]
  /\ stack[Sched] = Bottom(Sched) \o ContextOf(Own(Sched), "task", <<>>)

CpuType ==
  /\ cur \in Thread \cup {Main} /\ place \in {"boot", "task", "handler"}
  /\ place = "boot" <=> cur = Main
  /\ intr \in BOOLEAN /\ sp \in StackName /\ DOMAIN regs = Register
  /\ DOMAIN stack = StackName
  /\ context \in [Thread -> [s : StackName, d : Nat]]
  /\ curproc \in Task
  /\ entered \in [Task -> Entries \cup {NotYet}]

\* What the boot has done so far, and keeps.
BootInv ==
  /\ boot \in 1 .. 15
  /\ place # "boot" => boot = 15
  /\ DOMAIN pic = {"master", "slave"}
  /\ Master \in [expect : Nat, base : Nat, imr : SUBSET Line, irr : SUBSET Line, isr : SUBSET Line]
  /\ Master.expect = (IF boot = 1 \/ boot >= 8 THEN 0 ELSE IF boot <= 3 THEN 2
                      ELSE IF boot <= 5 THEN 3 ELSE 4)
  /\ boot >= 4 => Master.base = PIC_INTR_VEC_BASE
  /\ boot >= 10 => Master.imr = Line \ Enabled
  /\ gate \in [Vector -> Vector \cup {NullGate}]
  /\ \A v \in Vector : gate[v] # NullGate => gate[v] = v
  /\ \A v \in 0 .. 31 : gate[v] = v
  /\ boot >= 12 => gate[32] = 32
  /\ boot >= 14 => gate[36] = 36
  /\ boot >= 15 => gate[38] = 38

\* The line in service is the one whose handler has not sent its end yet.
ServiceInv ==
  /\ place = "handler" =>
       \/ cur # Sched /\ \E i \in Enabled :
            todo \in {<<<<"pic_eoi", i>>>>, <<<<"pic_eoi", i>>, <<"sched_handler">>>>}
            /\ Master.isr = {i}
       \/ cur # Sched /\ todo \in {<<<<"sched_handler">>>>, <<<<"io_hlt">>>>} /\ Master.isr = {}
       \/ todo = <<>> /\ Master.isr = {}
  /\ place # "handler" => Master.isr = {}

StackInv ==
  /\ place = "boot" =>
       /\ stack[Sched] = Frame(Sched, FALSE, 0) \o ContextOf(InHandler(Sched), "handler", <<>>)
       /\ \A t \in Task : Waits(t)
  /\ cur \in Task => curproc = cur /\ SchedWaits
  /\ place # "boot" => \A t \in Task : t # cur => Waits(t)
  /\ place = "handler" => On(cur, sp) /\ (Via(cur) \notin Unlisted => HasFrame(cur, sp))

\* A task whose frame is not what its handler expects never goes on.
HaltInv == \A t \in Task : entered[t] \in Unlisted => t = cur /\ Halted

Kept == CpuType /\ BootInv /\ ServiceInv /\ StackInv /\ ContextKept
IInv == Kept /\ HaltInv
=============================================================================
