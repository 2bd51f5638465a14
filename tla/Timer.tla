------------------------------- MODULE Timer -------------------------------
(***************************************************************************)
(* The kernel's timers (kernel/timer.c): a list of timers that the timer   *)
(* interrupt counts down, and sleep(), which waits for a timer of its own. *)
(*                                                                         *)
(* Every timer of the kernel is ONESHOT: it holds at most one byte in its  *)
(* queue, so pending[t] says whether the queue is not empty.  The first    *)
(* timer, sys->task_timer's, has interval 1 and its byte is taken in the   *)
(* interrupt that put it in (int_handler).  The others belong to tasks     *)
(* inside sleep(), which run with interrupts on: a tick may strike between *)
(* any two steps of theirs.                                                *)
(***************************************************************************)
EXTENDS Naturals, Sequences, SequencesExt

CONSTANTS
  Sleeper,    \* the tasks that call sleep()
  TaskTimer,  \* the timer that drives the scheduler
  Length      \* the numbers of ticks they ask for

ASSUME SleepAssumption ==
  /\ TaskTimer \notin Sleeper
  /\ Length \subseteq Nat

Timer == Sleeper \cup {TaskTimer}

VARIABLES
  timers,    \* the list from sys->timerctl->t, without the dummy
  interval, count, pending,
  pc,        \* where the task is in sleep()
  tick,      \* its argument
  elapsed,   \* history: ticks since timer_reset() stored the interval, at
             \* most tick
  missed     \* history: did one of them not reach the task's timer?

vars == <<timers, interval, count, pending, pc, tick, elapsed, missed>>

\* timer_init() and the timer_alloc() of Main().
Init ==
  /\ timers   = <<TaskTimer>>
  /\ interval = [t \in Timer |-> IF t = TaskTimer THEN 1 ELSE 0]
  /\ count    = interval
  /\ pending  = [t \in Timer |-> FALSE]
  /\ pc       = [s \in Sleeper |-> "awake"]
  /\ tick     = [s \in Sleeper |-> 0]
  /\ elapsed  = [s \in Sleeper |-> 0]
  /\ missed   = [s \in Sleeper |-> FALSE]

Goto(s, there) == pc' = [pc EXCEPT ![s] = there]

-----------------------------------------------------------------------------
\* sleep(n) up to timer_alloc(): a timer with a new queue ends the list.
Link(s) == timers' = Append(timers, s)

timer_alloc(s, n) ==
  /\ pc[s] = "awake"
  /\ Link(s)
  /\ interval' = [interval EXCEPT ![s] = n]
  /\ count'    = [count EXCEPT ![s] = n]
  /\ pending'  = [pending EXCEPT ![s] = FALSE]
  /\ tick'     = [tick EXCEPT ![s] = n]
  /\ Goto(s, "stop")
  /\ UNCHANGED <<elapsed, missed>>

\* timer_reset(): t->interval = 0, so that no tick counts,
StoppedNot(s) == interval                                 \* mutant
Stopped(s) == [interval EXCEPT ![s] = 0]

Stop(s) ==
  /\ pc[s] = "stop"
  /\ interval' = Stopped(s)
  /\ Goto(s, "refill")
  /\ UNCHANGED <<timers, count, pending, tick, elapsed, missed>>

\* t->count = interval,
RefilledThroughZero(s) == [count EXCEPT ![s] = tick[s] + 1]   \* mutant
Refilled(s) == [count EXCEPT ![s] = tick[s]]

Refill(s) ==
  /\ pc[s] = "refill"
  /\ count' = Refilled(s)
  /\ Goto(s, "drain")
  /\ UNCHANGED <<timers, interval, pending, tick, elapsed, missed>>

\* the queue is emptied,
Drain(s) ==
  /\ pc[s] = "drain"
  /\ pending' = [pending EXCEPT ![s] = FALSE]
  /\ Goto(s, "start")
  /\ UNCHANGED <<timers, interval, count, tick, elapsed, missed>>

\* t->interval = interval.
Start(s) ==
  /\ pc[s] = "start"
  /\ interval' = [interval EXCEPT ![s] = tick[s]]
  /\ elapsed'  = [elapsed EXCEPT ![s] = 0]
  /\ missed'   = [missed EXCEPT ![s] = FALSE]
  /\ Goto(s, "wait")
  /\ UNCHANGED <<timers, count, pending, tick>>

\* The end of sleep(): while(q8_empty(q)) io_hlt(); timer_free(t).
UnlinkNothing(s) == UNCHANGED timers                      \* mutant
Unlink(s) == \E i \in DOMAIN timers : /\ timers[i] = s
                                      /\ timers' = RemoveAt(timers, i)

Wake(s) ==
  /\ pc[s] = "wait"
  /\ pending[s]
  /\ Unlink(s)
  /\ Goto(s, "awake")
  /\ UNCHANGED <<interval, count, pending, tick, elapsed, missed>>

-----------------------------------------------------------------------------
Armed(t) == interval[t] > 0

\* The walk along the list returns at a timer whose byte is still there.
Blocks(t) == Armed(t) /\ pending[t]

Reached(t) ==
  \E i \in DOMAIN timers : /\ timers[i] = t
                           /\ \A j \in 1 .. i - 1 : ~Blocks(timers[j])

\* Such a timer, and one that fires, starts over from its interval.
Fires(t) == Reached(t) /\ Armed(t) /\ ~pending[t] /\ count[t] = 1

NewCount(t) ==
  IF ~Reached(t) \/ ~Armed(t) THEN count[t]
  ELSE IF pending[t] \/ count[t] = 1 THEN interval[t]
  ELSE count[t] - 1

\* int_handler() for IRQ0: timer_tick(), then task_timer's byte is taken.
timer_tick ==
  /\ count'   = [t \in Timer |-> NewCount(t)]
  /\ pending' = [t \in Timer |-> t # TaskTimer /\ (pending[t] \/ Fires(t))]
  /\ elapsed' = [s \in Sleeper |->
                   IF pc[s] = "wait" /\ elapsed[s] < tick[s] THEN elapsed[s] + 1
                   ELSE elapsed[s]]
  /\ missed'  = [s \in Sleeper |-> missed[s] \/ (pc[s] = "wait" /\ ~Reached(s))]
  /\ UNCHANGED <<timers, interval, pc, tick>>

-----------------------------------------------------------------------------
timer_reset(s) == Stop(s) \/ Refill(s) \/ Drain(s) \/ Start(s)

Next == \/ timer_tick
        \/ \E s \in Sleeper : \/ \E n \in Length : timer_alloc(s, n)
                              \/ timer_reset(s)
                              \/ Wake(s)

Spec == Init /\ [][Next]_vars

\* The PIT keeps ticking, and the scheduler lets a task inside sleep() run.
FairSpec ==
  /\ Spec
  /\ WF_vars(timer_tick)
  /\ \A s \in Sleeper : WF_vars(timer_reset(s) \/ Wake(s))

-----------------------------------------------------------------------------
TypeOK ==
  /\ timers \in Seq(Timer)
  /\ interval \in [Timer -> Nat] /\ count \in [Timer -> Nat]
  /\ pending \in [Timer -> BOOLEAN]
  /\ pc \in [Sleeper -> {"awake", "stop", "refill", "drain", "start", "wait"}]
  /\ tick \in [Sleeper -> Nat]
  /\ elapsed \in [Sleeper -> Nat]
  /\ missed \in [Sleeper -> BOOLEAN]
(***************************************************************************)
(* sleep(n) never returns early: a byte that a waiting task finds in its   *)
(* queue was put there n ticks after timer_reset(), never by a tick that   *)
(* struck before or inside it.  sleep(0) never finds one, so it waits for  *)
(* ever.                                                                   *)
(***************************************************************************)
NeverEarly ==
  \A s \in Sleeper : pc[s] = "wait" /\ pending[s] => tick[s] > 0 /\ elapsed[s] = tick[s]

(***************************************************************************)
(* Nor is it late: after n ticks the byte is there, unless a tick's walk   *)
(* ended before this timer, at an earlier one whose byte was not taken yet *)
(* (the return in timer_tick).                                             *)
(***************************************************************************)
OnTime ==
  \A s \in Sleeper :
    pc[s] = "wait" /\ ~pending[s] /\ ~missed[s] /\ tick[s] > 0 => elapsed[s] < tick[s]

(***************************************************************************)
(* Every tick reaches the scheduler's timer and makes it fire: no sleeping *)
(* task, nor a timer that nobody takes the byte of, stops preemption.      *)
(***************************************************************************)
SchedulerTicks == Fires(TaskTimer)

(***************************************************************************)
(* A task that sleeps wakes up, unless it asked for 0 ticks: an interval   *)
(* of 0 is a timer that timer_tick() skips.                                *)
(***************************************************************************)
Wakes == \A s \in Sleeper : pc[s] = "wait" /\ tick[s] > 0 ~> pc[s] = "awake"

(***************************************************************************)
(* The inductive invariant behind NeverEarly, OnTime and SchedulerTicks.   *)
(***************************************************************************)
\* The scheduler's timer is the first of the list and never waits.
TaskTimerFirst ==
  /\ timers # << >> /\ timers[1] = TaskTimer
  /\ interval[TaskTimer] = 1 /\ count[TaskTimer] = 1 /\ ~pending[TaskTimer]

\* How far each task is in timer_reset(), and what that fixes.
ResetProgress ==
  \A s \in Sleeper :
    /\ pc[s] \in {"refill", "drain", "start"} => interval[s] = 0
    /\ pc[s] \in {"stop", "wait"} => interval[s] = tick[s]
    /\ pc[s] \in {"drain", "start"} => count[s] = tick[s]
    /\ pc[s] = "start" => ~pending[s]

\* A tick that counts is a tick that passed.
Countdown ==
  \A s \in Sleeper :
    /\ interval[s] > 0 => count[s] > 0
    /\ pc[s] = "wait" => elapsed[s] <= tick[s]
    /\ pc[s] = "wait" /\ ~pending[s] => elapsed[s] + count[s] >= tick[s]
    /\ pc[s] = "wait" /\ ~pending[s] /\ ~missed[s] => elapsed[s] + count[s] = tick[s]

TimerInv == TypeOK /\ TaskTimerFirst /\ ResetProgress /\ Countdown /\ NeverEarly
=============================================================================
