---------------------------- MODULE Timer_proofs ----------------------------
(***************************************************************************)
(* Proofs about Timer, for any number of sleeping tasks and any intervals: *)
(* sleep returns neither early nor late, and every tick reaches the        *)
(* scheduler.                                                              *)
(***************************************************************************)
EXTENDS Timer, SequenceTheorems, TLAPS

LEMMA InitInv == Init => TimerInv
  BY SleepAssumption DEF Init, TimerInv, TypeOK, Timer, TaskTimerFirst, ResetProgress,
                         Countdown, NeverEarly

\* The list keeps its first timer when another one comes or goes.
LEMMA LinkKeeps ==
  ASSUME timers \in Seq(Timer), timers # << >>, NEW s \in Sleeper, Link(s)
  PROVE  timers' \in Seq(Timer) /\ timers' # << >> /\ timers'[1] = timers[1]
  BY AppendProperties DEF Link, Timer

LEMMA UnlinkKeeps ==
  ASSUME timers \in Seq(Timer), timers # << >>, NEW s \in Sleeper, timers[1] # s, Unlink(s)
  PROVE  timers' \in Seq(Timer) /\ timers' # << >> /\ timers'[1] = timers[1]
<1>1. PICK i \in DOMAIN timers : timers[i] = s /\ timers' = RemoveAt(timers, i)
  BY DEF Unlink
<1>2. i \in 2 .. Len(timers)
  BY <1>1
<1> DEFINE front == SubSeq(timers, 1, i - 1)
           back  == SubSeq(timers, i + 1, Len(timers))
<1>3. front \in Seq(Timer) /\ Len(front) = i - 1 /\ front[1] = timers[1]
  BY <1>2
<1>4. back \in Seq(Timer)
  BY <1>2
<1>5. timers' = front \o back
  BY <1>1 DEF RemoveAt
<1> HIDE DEF front, back
<1> QED
  BY <1>2, <1>3, <1>4, <1>5

\* A tick: the first timer fires, the others count down or start over.
LEMMA TickStep ==
  ASSUME TimerInv, timer_tick
  PROVE  TimerInv'
<1>1. /\ TypeOK /\ TaskTimerFirst /\ ResetProgress /\ Countdown /\ NeverEarly
      /\ UNCHANGED <<timers, interval, pc, tick>>
  BY DEF TimerInv, timer_tick
<1>2. \A t \in Timer : NewCount(t) \in Nat
  BY <1>1 DEF TypeOK, NewCount, Armed, Countdown, TaskTimerFirst, Timer
<1>3. TypeOK'
  BY <1>1, <1>2 DEF timer_tick, TypeOK
<1>4. TaskTimerFirst'
  <2>1. TaskTimer \in Timer /\ NewCount(TaskTimer) = 1
    BY <1>1 DEF TaskTimerFirst, NewCount, Armed, Timer
  <2> QED
    BY <1>1, <2>1 DEF timer_tick, TaskTimerFirst
<1>5. ASSUME NEW s \in Sleeper
      PROVE  /\ interval[s] \in Nat /\ count[s] \in Nat /\ tick[s] \in Nat /\ elapsed[s] \in Nat
             /\ count'[s] = NewCount(s)
             /\ pending'[s] <=> pending[s] \/ Fires(s)
             /\ elapsed'[s] = IF pc[s] = "wait" /\ elapsed[s] < tick[s] THEN elapsed[s] + 1
                              ELSE elapsed[s]
             /\ missed'[s] <=> missed[s] \/ (pc[s] = "wait" /\ ~Reached(s))
  <2>1. s \in Timer /\ s # TaskTimer
    BY SleepAssumption DEF Timer
  <2> QED
    BY <1>1, <2>1 DEF timer_tick, TypeOK
<1>6. ASSUME NEW s \in Sleeper
      PROVE  /\ interval[s] = 0 => NewCount(s) = count[s] /\ ~Fires(s)
             /\ interval[s] > 0 => NewCount(s) > 0
             /\ ~pending[s] /\ ~Fires(s) => NewCount(s) >= count[s] - 1
             /\ Fires(s) => interval[s] > 0 /\ count[s] = 1
             /\ ~pending[s] /\ ~Fires(s) /\ Reached(s) /\ interval[s] > 0
                  => count[s] > 1 /\ NewCount(s) = count[s] - 1
  BY <1>1, <1>5 DEF NewCount, Fires, Armed, Countdown
<1>7. ResetProgress'
  BY <1>1, <1>5, <1>6 DEF ResetProgress
<1>8. ASSUME NEW s \in Sleeper
      PROVE  /\ interval'[s] > 0 => count'[s] > 0
             /\ pc'[s] = "wait" => elapsed'[s] <= tick'[s]
             /\ pc'[s] = "wait" /\ ~pending'[s] => elapsed'[s] + count'[s] >= tick'[s]
             /\ pc'[s] = "wait" /\ ~pending'[s] /\ ~missed'[s]
                  => elapsed'[s] + count'[s] = tick'[s]
             /\ pc'[s] = "wait" /\ pending'[s] => tick'[s] > 0 /\ elapsed'[s] = tick'[s]
  <2>1. /\ interval[s] > 0 => count[s] > 0
        /\ pc[s] = "wait" => elapsed[s] <= tick[s]
        /\ pc[s] = "wait" /\ ~pending[s] => elapsed[s] + count[s] >= tick[s]
        /\ pc[s] = "wait" /\ ~pending[s] /\ ~missed[s] => elapsed[s] + count[s] = tick[s]
        /\ pc[s] = "wait" /\ pending[s] => tick[s] > 0 /\ elapsed[s] = tick[s]
        /\ pc[s] = "wait" => interval[s] = tick[s]
    BY <1>1 DEF Countdown, NeverEarly, ResetProgress
  <2>2. NewCount(s) \in Nat
    BY <1>2 DEF Timer
  <2>3. interval'[s] = interval[s] /\ pc'[s] = pc[s] /\ tick'[s] = tick[s]
    BY <1>1
  <2>4. pc[s] = "wait" /\ ~pending[s] /\ Fires(s) => tick[s] > 0 /\ elapsed'[s] = tick[s]
    BY <1>5, <1>6, <2>1
  <2>5. pc[s] = "wait" /\ ~pending[s] /\ ~Fires(s) => elapsed'[s] + count'[s] >= tick[s]
    BY <1>5, <1>6, <2>1, <2>2
  <2>7. pc[s] = "wait" /\ ~pending[s] /\ ~Fires(s) /\ ~missed'[s]
          => elapsed'[s] + count'[s] = tick[s]
    <3>1. CASE tick[s] = 0
      BY <3>1, <1>5, <1>6, <2>1
    <3>2. CASE tick[s] > 0
      BY <3>2, <1>5, <1>6, <2>1, <2>2
    <3> QED
      BY <3>1, <3>2, <1>5
  <2>6. /\ interval[s] > 0 => count'[s] > 0
        /\ pc[s] = "wait" => elapsed'[s] <= tick[s]
        /\ pc[s] = "wait" /\ pending[s] => tick[s] > 0 /\ elapsed'[s] = tick[s]
    BY <1>5, <1>6, <2>1
  <2> QED
    BY <1>5, <2>3, <2>4, <2>5, <2>6, <2>7
<1>9. Countdown' /\ NeverEarly'
  BY <1>8 DEF Countdown, NeverEarly
<1> QED
  BY <1>3, <1>4, <1>7, <1>9 DEF TimerInv

\* A step of a task disturbs its own timer only.
LEMMA TaskStep ==
  ASSUME TimerInv, NEW s \in Sleeper,
         (\E n \in Length : timer_alloc(s, n)) \/ timer_reset(s) \/ Wake(s)
  PROVE  TimerInv'
<1> USE SleepAssumption DEF Timer, Goto
<1>1. /\ TypeOK /\ TaskTimerFirst /\ ResetProgress /\ Countdown /\ NeverEarly
      /\ s # TaskTimer
  BY DEF TimerInv
<1>2. ASSUME NEW n \in Length, timer_alloc(s, n) PROVE TimerInv'
  <2>1. timers' \in Seq(Timer) /\ timers' # << >> /\ timers'[1] = TaskTimer
    BY <1>1, <1>2, LinkKeeps DEF timer_alloc, TypeOK, TaskTimerFirst
  <2>2. TypeOK' /\ TaskTimerFirst'
    BY <1>1, <1>2, <2>1 DEF timer_alloc, TypeOK, TaskTimerFirst
  <2>3. ResetProgress' /\ Countdown' /\ NeverEarly'
    BY <1>1, <1>2 DEF timer_alloc, TypeOK, ResetProgress, Countdown, NeverEarly
  <2> QED
    BY <2>2, <2>3 DEF TimerInv
<1>3. CASE Stop(s)
  BY <1>1, <1>3 DEF Stop, Stopped, TimerInv, TypeOK, TaskTimerFirst, ResetProgress,
                    Countdown, NeverEarly
<1>4. CASE Refill(s)
  BY <1>1, <1>4 DEF Refill, Refilled, TimerInv, TypeOK, TaskTimerFirst, ResetProgress,
                    Countdown, NeverEarly
<1>5. CASE Drain(s)
  BY <1>1, <1>5 DEF Drain, TimerInv, TypeOK, TaskTimerFirst, ResetProgress,
                    Countdown, NeverEarly
<1>6. CASE Start(s)
  BY <1>1, <1>6 DEF Start, TimerInv, TypeOK, TaskTimerFirst, ResetProgress,
                    Countdown, NeverEarly
<1>7. CASE Wake(s)
  <2>1. timers' \in Seq(Timer) /\ timers' # << >> /\ timers'[1] = TaskTimer
    BY <1>1, <1>7, UnlinkKeeps DEF Wake, TypeOK, TaskTimerFirst
  <2> QED
    BY <1>1, <1>7, <2>1 DEF Wake, TimerInv, TypeOK, TaskTimerFirst, ResetProgress,
                            Countdown, NeverEarly
<1> QED
  BY <1>2, <1>3, <1>4, <1>5, <1>6, <1>7 DEF timer_reset

(***************************************************************************)
(* A sleep never ends early, it ends in time when every tick reaches its   *)
(* timer, and every tick reaches the scheduler's, whatever the tasks are   *)
(* doing in sleep().                                                       *)
(***************************************************************************)
THEOREM TimerSafe == Spec => [](TypeOK /\ NeverEarly /\ OnTime /\ SchedulerTicks)
<1>1. TimerInv /\ [Next]_vars => TimerInv'
  <2> SUFFICES ASSUME TimerInv, [Next]_vars PROVE TimerInv'
    OBVIOUS
  <2>1. CASE UNCHANGED vars
    BY <2>1 DEF vars, TimerInv, TypeOK, TaskTimerFirst, ResetProgress, Countdown, NeverEarly
  <2> QED
    BY <2>1, TickStep, TaskStep DEF Next
<1>2. TimerInv => TypeOK /\ NeverEarly /\ OnTime /\ SchedulerTicks
  <2> SUFFICES ASSUME TimerInv PROVE OnTime /\ SchedulerTicks
    BY DEF TimerInv
  <2>3. OnTime
    BY DEF TimerInv, TypeOK, Timer, ResetProgress, Countdown, OnTime
  <2>1. 1 \in DOMAIN timers /\ timers[1] = TaskTimer
    BY DEF TimerInv, TypeOK, TaskTimerFirst
  <2>2. Reached(TaskTimer)
    BY <2>1 DEF Reached
  <2> QED
    BY <2>2, <2>3 DEF SchedulerTicks, Fires, Armed, TimerInv, TaskTimerFirst
<1> QED
  BY InitInv, <1>1, <1>2, PTL DEF Spec
=============================================================================
