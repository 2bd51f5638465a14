----------------------------- MODULE Fdc_proofs -----------------------------
(***************************************************************************)
(* Proofs about the floppy driver of module Fdc: driver and controller     *)
(* stay in step, the driver goes on with the interrupt of the command it   *)
(* sent, and the sectors end up where their numbers say, for a disk of any *)
(* size.                                                                   *)
(*                                                                         *)
(* The invariant (IInv) says for each of the 76 port operations what the   *)
(* controller knows by then.  Only in the four waits can it be executing   *)
(* or IRQ6 pending: there the driver does nothing, and everywhere else     *)
(* nothing moves but the driver.                                           *)
(***************************************************************************)
EXTENDS Fdc, TLAPS

\* Where the waits are, the result bytes, and the bytes of a command.
Waits == {4, 31, 42, 66}
After == {5, 32, 43, 67}
Ins   == {7, 8, 10, 11, 13, 14, 16, 17, 34, 35, 45, 46} \cup 68 .. 74
Outs  == {6, 9, 12, 15, 19, 20, 21, 23, 24, 25, 26, 29, 30, 33, 40, 41, 44} \cup 57 .. 65

\* The first byte of the command that is being sent, and the bytes sent.
Start(p) == IF p \in 20 .. 21 THEN 19
            ELSE IF p \in 24 .. 26 THEN 23
            ELSE IF p \in 30 .. 31 THEN 29
            ELSE IF p \in 41 .. 42 THEN 40
            ELSE IF p \in 58 .. 66 THEN 57
            ELSE p
Sent(P, a, b) == [i \in 1 .. b - a |-> P[a + i - 1].arg]

\* The result bytes that are left.
Left(p) == IF p \in 67 .. 68 THEN 7
           ELSE IF p \in 69 .. 74 THEN 75 - p
           ELSE IF p \in {7, 10, 13, 16, 34, 45} THEN 2
           ELSE IF p \in Ins THEN 1
           ELSE 0

\* The drives after a reset that have not been asked for their interrupt.
Unsensed(p) == IF p \in 5 .. 6 THEN 4
               ELSE IF p \in 7 .. 9 THEN 3
               ELSE IF p \in 10 .. 12 THEN 2
               ELSE IF p \in 13 .. 15 THEN 1
               ELSE 0

Lo(x) == x % 256
Hi(x) == x \div 256
Buffer == FD_BUFFER_P % 65536
Size   == FD_SECTOR_SIZE - 1
LowBuffer == FD_BUFFER_P < 65536     \* what 16 bits can name
Lba(p) == (p.c * FD_HEADS + p.h) * FD_SECTORS + p.s - 1

-----------------------------------------------------------------------------
\* The invariant.
Kinds ==
  /\ pc \in 1 .. 77
  /\ fdc_intr \in BOOLEAN /\ irq \in BOOLEAN
  /\ phase \in {"absent", "command", "executing", "result"}
  /\ DOMAIN status = 1 .. 7
  /\ DOMAIN answered = Drive
  /\ at.c \in 0 .. FD_CYLINDERS /\ at.h \in 0 .. FD_HEADS - 1 /\ at.s \in 1 .. FD_SECTORS
  /\ at = [c |-> at.c, h |-> at.h, s |-> at.s]
  /\ results \in Seq(Nat)

\* Without a controller the driver gives up, goes on and waits for ever.
Absent == phase = "absent" =>
  /\ pc \in 1 .. 2 \cup 50 .. 66
  /\ ~irq /\ ~fdc_intr
  /\ results = <<>>

\* What the command that was waited for left behind, p being the wait.
InFrame == LowBuffer => frame = at \/ at \in failed
Answer(d) == st0 = answered[d] /\ answered[d] \in {o + d : o \in Recalibrations}
Ended(p) ==
  /\ phase = IF p = 66 THEN "result" ELSE "command"
  /\ cmd = <<>>
  /\ p = 4 => unsensed = 4
  /\ p = 31 => Answer(0)
  /\ p = 42 => Answer(1)
  /\ p = 66 => Len(results) = 7 /\ InFrame

\* The three states of a wait.
Waiting == pc \in Waits /\ phase # "absent" =>
  \/ phase = "executing" /\ ~irq /\ ~fdc_intr
     /\ cmd = (IF pc = 4 THEN <<"reset">> ELSE Sent(Program, Start(pc), pc))
  \/ Ended(pc) /\ irq /\ ~fdc_intr /\ raisedFor = issued
  \/ Ended(pc) /\ ~irq /\ fdc_intr /\ seenFor = issued
Woken == pc \in After => Ended(pc - 1) /\ ~irq

\* Everywhere else nothing is going on.
Quiet == pc \notin Waits \cup After => ~irq /\ ~fdc_intr /\ phase # "executing"
Turn == pc \notin Waits /\ phase # "absent" =>
  /\ phase = IF Left(pc) > 0 THEN "result" ELSE "command"
  /\ Len(results) = Left(pc)
  /\ cmd = Sent(Program, Start(pc), pc)
NoResults == pc \in Waits \ {66} => results = <<>>
Sensing ==
  /\ pc # 4 => unsensed = Unsensed(pc)
  /\ pc \notin {31, 32, 33, 42, 43, 44} => st0 = 0
  /\ pc \in {31, 42} /\ phase = "executing" => st0 = 0
  /\ pc = 33 => Answer(0)
  /\ pc = 44 => Answer(1)

\* What the answers to the recalibrations say.
Heard(d) == answered[d] \in {o + d : o \in Recalibrations}
Success ==
  /\ pc = 34 => Heard(0) /\ results[1] = answered[0]
  /\ pc = 45 => Heard(1) /\ results[1] = answered[1]
  /\ pc \in 35 .. 36 => Heard(0) /\ status[1] = answered[0]
  /\ pc \in 46 .. 47 => Heard(1) /\ status[1] = answered[1]
  /\ pc \in 37 .. 49 => answered[0] \in {32, 112}
  /\ pc \in 48 .. 49 => answered[1] \in {33, 113}
  /\ pc <= 49 => result # "FDC_OK"
  /\ result = "FDC_OK" => answered[0] \in {32, 112} /\ answered[1] \in {33, 113}

Motors ==
  /\ phase # "absent" /\ pc \in 28 .. 37 => dor = [drive |-> 0, on |-> TRUE]
  /\ phase # "absent" /\ pc \in 39 .. 48 => dor = [drive |-> 1, on |-> TRUE]
  /\ phase # "absent" /\ pc \in 56 .. 75 => dor = [drive |-> 1, on |-> TRUE]

\* The DMA channel's registers.
Channel ==
  /\ dma.flip = IF pc \in {51, 53} THEN 2 ELSE 1
  /\ DOMAIN dma = {"flip", "addr", "count", "page"}
  /\ DOMAIN dma.addr = 1 .. 2 /\ DOMAIN dma.count = 1 .. 2
  /\ pc \in 51 .. 76 => dma.addr[1] = Lo(Buffer)
  /\ pc \in 52 .. 76 => dma.addr[2] = Hi(Buffer)
  /\ pc \in 53 .. 76 => dma.count[1] = Lo(Size)
  /\ pc \in 54 .. 76 => dma.count[2] = Hi(Size)
  /\ pc \in 55 .. 76 => dma.page = 0

\* The sectors copied so far, and the one in the buffer.
Copied ==
  /\ pc <= 49 => at = First
  /\ pc = 77 <=> at.c = FD_CYLINDERS
  /\ at.c = FD_CYLINDERS => at.h = 0 /\ at.s = 1
  /\ buf \in Seq({buf[i] : i \in DOMAIN buf}) /\ Len(buf) = Lba(at)
  /\ pc \in 67 .. 76 => InFrame
  /\ LowBuffer => Image

IInv == /\ Kinds /\ Absent /\ Waiting /\ Woken /\ Quiet /\ Turn /\ NoResults
        /\ Sensing /\ Success /\ Motors /\ Channel /\ Copied

-----------------------------------------------------------------------------
\* The table of Program.  Blocks of instructions, where they are in a program,
\* and what joining two does to that; ++ and Size hide \o and Len.
I(op, arg) == [op |-> op, arg |-> arg]
s ++ t == s \o t
Count(s) == Len(s)
Block(s) == Len(s) \in Nat /\ s = [i \in 1 .. Len(s) |-> s[i]]
Holds(P, k, s) == \A i \in 1 .. Len(s) : P[k + i] = s[i]
Joined(s, t) ==
  /\ Block(s ++ t)
  /\ Count(s ++ t) = Count(s) + Count(t)
  /\ \A P, k : k \in Nat /\ Holds(P, k, s ++ t)
                 => Holds(P, k, s) /\ Holds(P, k + Count(s), t)

LEMMA Joins ==
  ASSUME NEW s, NEW t, Block(s), Block(t)
  PROVE  Joined(s, t)
<1> DEFINE n == Len(s)  m == Len(t)
           S == {s[i] : i \in 1 .. n} \cup {t[i] : i \in 1 .. m}
<1>1. s \in [1 .. n -> S] /\ t \in [1 .. m -> S] /\ n \in Nat /\ m \in Nat
  BY DEF Block
<1> HIDE DEF S
<1>2. s \in Seq(S) /\ t \in Seq(S)
  BY <1>1
<1> DEFINE u == s \o t
<1>3. /\ u \in Seq(S) /\ Len(u) = n + m
      /\ \A i \in 1 .. n : u[i] = s[i]
      /\ \A i \in 1 .. m : u[n + i] = t[i]
  BY <1>2
<1> HIDE DEF u
<1>4. u \in [1 .. n + m -> S]
  BY <1>3, <1>1
<1>5. Block(u)
  BY <1>1, <1>3, <1>4 DEF Block
<1>6. ASSUME NEW P, NEW k \in Nat, Holds(P, k, u)
      PROVE  Holds(P, k, s) /\ Holds(P, k + n, t)
  <2>1. \A i \in 1 .. n : i \in 1 .. n + m
    BY <1>1
  <2>2. \A i \in 1 .. m : n + i \in 1 .. n + m /\ k + (n + i) = (k + n) + i
    BY <1>1
  <2> QED
    BY <1>3, <1>6, <2>1, <2>2 DEF Holds
<1> QED
  BY <1>3, <1>5, <1>6 DEF Joined, ++, u, Count

LEMMA Blocks ==
  /\ \A s : Block(s) => Count(s) \in Nat
  /\ \A s, t : Block(s) /\ Block(t) => Joined(s, t)
BY Joins DEF Block, Count

\* The blocks of one operation, of command bytes and of result bytes.
LEMMA One ==
  ASSUME NEW op, NEW arg
  PROVE  /\ Block(Do(op, arg)) /\ Count(Do(op, arg)) = 1
         /\ \A P, k, j : k \in Nat /\ Holds(P, k, Do(op, arg)) /\ j = k + 1 => P[j] = I(op, arg)
BY DEF Block, Holds, Do, Count, I

Sends(f, n) ==
  /\ Block(Out(f)) /\ Count(Out(f)) = n
  /\ \A P, k : k \in Nat /\ Holds(P, k, Out(f)) => \A i \in 1 .. n : P[k + i] = I("out", f[i])

LEMMA Bytes ==
  ASSUME NEW n \in Nat, NEW f, DOMAIN f = 1 .. n
  PROVE  Sends(f, n)
BY DEF Sends, Block, Holds, Out, Count, I

LEMMA Results ==
  ASSUME NEW n \in Nat
  PROVE  /\ Block(In(n)) /\ Count(In(n)) = n
         /\ \A P, k : k \in Nat /\ Holds(P, k, In(n))
                        => \A i \in 1 .. n : P[k + i] = I("in", i)
BY DEF Block, Holds, In, Count, I

LEMMA AwaitedAt ==
  /\ Block(Awaited) /\ Count(Awaited) = 2
  /\ \A P, k : k \in Nat /\ Holds(P, k, Awaited)
                 => P[k + 1] = I("wait", 0) /\ P[k + 2] = I("clear", 0)
<1>1. Awaited = Do("wait", 0) ++ Do("clear", 0)
  BY DEF Awaited, ++
<1> QED
  BY <1>1, One, Blocks DEF Joined

LEMMA SenseAt ==
  /\ Block(Sense) /\ Count(Sense) = 3
  /\ \A P, k : k \in Nat /\ Holds(P, k, Sense)
                 => P[k + 1] = I("out", "sense") /\ P[k + 2] = I("in", 1) /\ P[k + 3] = I("in", 2)
<1>1. Sense = Out(<<"sense">>) ++ In(2)
  BY DEF Sense, ++
<1>2. /\ Block(Out(<<"sense">>)) /\ Count(Out(<<"sense">>)) = 1
      /\ \A P, k : k \in Nat /\ Holds(P, k, Out(<<"sense">>)) => P[k + 1] = I("out", "sense")
  BY DEF Block, Holds, Out, Count, I
<1>3. /\ Block(In(2)) /\ Count(In(2)) = 2
      /\ \A P, k : k \in Nat /\ Holds(P, k, In(2))
                     => P[k + 1] = I("in", 1) /\ P[k + 2] = I("in", 2)
  BY Results, 1 \in 1 .. 2, 2 \in 1 .. 2
<1>4. Block(Sense) /\ Count(Sense) = 3
  BY <1>1, <1>2, <1>3, Blocks DEF Joined
<1>5. ASSUME NEW P, NEW k \in Nat, Holds(P, k, Sense)
      PROVE  P[k + 1] = I("out", "sense") /\ P[k + 2] = I("in", 1) /\ P[k + 3] = I("in", 2)
  <2>1. Holds(P, k, Out(<<"sense">>)) /\ Holds(P, k + 1, In(2))
    BY <1>1, <1>2, <1>3, <1>5, Blocks DEF Joined
  <2> QED
    BY <1>2, <1>3, <2>1
<1> QED
  BY <1>4, <1>5

LEMMA UnlessAt ==
  /\ Block(Unless(<<"specify", 255, 30>>)) /\ Count(Unless(<<"specify", 255, 30>>)) = 4
  /\ Block(Unless(<<"configure", 0, 97, 0>>)) /\ Count(Unless(<<"configure", 0, 97, 0>>)) = 5
  /\ \A P, k : k \in Nat /\ Holds(P, k, Unless(<<"specify", 255, 30>>)) =>
       /\ P[k + 1] = I("check", 3) /\ P[k + 2] = I("out", "specify")
       /\ \A i \in 2 .. 4 : P[k + i].op = "out"
  /\ \A P, k : k \in Nat /\ Holds(P, k, Unless(<<"configure", 0, 97, 0>>)) =>
       /\ P[k + 1] = I("check", 4) /\ P[k + 2] = I("out", "configure")
       /\ \A i \in 2 .. 5 : P[k + i].op = "out"
<1> DEFINE x == <<"specify", 255, 30>>  y == <<"configure", 0, 97, 0>>
<1>1. Unless(x) = Do("check", 3) ++ Out(x) /\ Unless(y) = Do("check", 4) ++ Out(y)
  BY DEF Unless, ++
<1>2. /\ Block(Out(x)) /\ Count(Out(x)) = 3 /\ Block(Out(y)) /\ Count(Out(y)) = 4
  BY DEF Block, Out, Count
<1>3. /\ \A P, k : k \in Nat /\ Holds(P, k, Out(x)) =>
           P[k + 1] = I("out", "specify") /\ \A i \in 1 .. 3 : P[k + i].op = "out"
      /\ \A P, k : k \in Nat /\ Holds(P, k, Out(y)) =>
           P[k + 1] = I("out", "configure") /\ \A i \in 1 .. 4 : P[k + i].op = "out"
  <2>1. /\ \A P, k : k \in Nat /\ Holds(P, k, Out(x)) => \A i \in 1 .. 3 : P[k + i] = I("out", x[i])
        /\ \A P, k : k \in Nat /\ Holds(P, k, Out(y)) => \A i \in 1 .. 4 : P[k + i] = I("out", y[i])
    <3>1. DOMAIN x = 1 .. 3 /\ DOMAIN y = 1 .. 4
      OBVIOUS
    <3> HIDE DEF x, y
    <3>2. Sends(x, 3) /\ Sends(y, 4)
      BY <3>1, Bytes
    <3> QED
      BY <3>2 DEF Sends
  <2>2. x[1] = "specify" /\ y[1] = "configure" /\ 1 \in 1 .. 3 /\ 1 \in 1 .. 4
    OBVIOUS
  <2>3. \A a : I("out", a).op = "out"
    BY DEF I
  <2> HIDE DEF x, y
  <2> QED
    BY <2>1, <2>2, <2>3
<1> HIDE DEF x, y
<1>4. /\ Block(Unless(x)) /\ Count(Unless(x)) = 4 /\ Block(Unless(y)) /\ Count(Unless(y)) = 5
  BY <1>1, <1>2, One, Blocks DEF Joined
<1>5. ASSUME NEW P, NEW k \in Nat, Holds(P, k, Unless(x))
      PROVE  /\ P[k + 1] = I("check", 3) /\ P[k + 2] = I("out", "specify")
             /\ \A i \in 2 .. 4 : P[k + i].op = "out"
  <2>1. Holds(P, k, Do("check", 3)) /\ Holds(P, k + 1, Out(x))
    BY <1>1, <1>2, <1>5, One, Blocks DEF Joined
  <2>2. P[k + 1] = I("check", 3)
    BY <2>1, One
  <2>3. P[(k + 1) + 1] = I("out", "specify") /\ \A i \in 1 .. 3 : P[(k + 1) + i].op = "out"
    BY <2>1, <1>3
  <2>4. \A i \in 2 .. 4 : i - 1 \in 1 .. 3 /\ (k + 1) + (i - 1) = k + i
    OBVIOUS
  <2> QED
    BY <2>2, <2>3, <2>4
<1>6. ASSUME NEW P, NEW k \in Nat, Holds(P, k, Unless(y))
      PROVE  /\ P[k + 1] = I("check", 4) /\ P[k + 2] = I("out", "configure")
             /\ \A i \in 2 .. 5 : P[k + i].op = "out"
  <2>1. Holds(P, k, Do("check", 4)) /\ Holds(P, k + 1, Out(y))
    BY <1>1, <1>2, <1>6, One, Blocks DEF Joined
  <2>2. P[k + 1] = I("check", 4)
    BY <2>1, One
  <2>3. P[(k + 1) + 1] = I("out", "configure") /\ \A i \in 1 .. 4 : P[(k + 1) + i].op = "out"
    BY <2>1, <1>3
  <2>4. \A i \in 2 .. 5 : i - 1 \in 1 .. 4 /\ (k + 1) + (i - 1) = k + i
    OBVIOUS
  <2> QED
    BY <2>2, <2>3, <2>4
<1> QED
  BY <1>4, <1>5, <1>6 DEF x, y

LEMMA RecalibratedAt ==
  ASSUME NEW d
  PROVE  /\ Block(Recalibrated(d)) /\ Count(Recalibrated(d)) = 11
         /\ \A P, k : k \in Nat /\ Holds(P, k, Recalibrated(d)) =>
              /\ P[k + 1] = I("motor", [drive |-> d, on |-> TRUE])
              /\ P[k + 2] = I("demand", 0)
              /\ P[k + 3] = I("out", "recalibrate") /\ P[k + 4] = I("out", d)
              /\ P[k + 5] = I("wait", 0) /\ P[k + 6] = I("clear", 0)
              /\ P[k + 7] = I("out", "sense") /\ P[k + 8] = I("in", 1) /\ P[k + 9] = I("in", 2)
              /\ P[k + 10] = I("verify", d)
              /\ P[k + 11] = I("motor", [drive |-> d, on |-> FALSE])
<1> DEFINE x == Out(<<"recalibrate", d>>)  on == Do("motor", [drive |-> d, on |-> TRUE])
           off == Do("motor", [drive |-> d, on |-> FALSE])
           R == Do("demand", 0) ++ x ++ Awaited ++ Sense ++ Do("verify", d)
<1>1. Recalibrated(d) = on ++ R ++ off
  BY DEF Recalibrated, fdc_cmd_recalibrate, ++
<1>2. /\ Block(x) /\ Count(x) = 2
      /\ \A P, k : k \in Nat /\ Holds(P, k, x)
                     => P[k + 1] = I("out", "recalibrate") /\ P[k + 2] = I("out", d)
  <2> DEFINE f == <<"recalibrate", d>>
  <2>1. DOMAIN f = 1 .. 2 /\ f[1] = "recalibrate" /\ f[2] = d /\ 1 \in 1 .. 2 /\ 2 \in 1 .. 2
    OBVIOUS
  <2> HIDE DEF f
  <2>2. /\ Block(Out(f)) /\ Count(Out(f)) = 2
        /\ \A P, k : k \in Nat /\ Holds(P, k, Out(f)) => \A i \in 1 .. 2 : P[k + i] = I("out", f[i])
    <3>1. Sends(f, 2)
      BY <2>1, Bytes
    <3> QED
      BY <3>1 DEF Sends
  <2> QED
    BY <2>1, <2>2 DEF f
<1>3. /\ Block(on) /\ Count(on) = 1 /\ Block(off) /\ Count(off) = 1
      /\ \A P, k, j : k \in Nat /\ Holds(P, k, on) /\ j = k + 1
                        => P[j] = I("motor", [drive |-> d, on |-> TRUE])
      /\ \A P, k, j : k \in Nat /\ Holds(P, k, off) /\ j = k + 1
                        => P[j] = I("motor", [drive |-> d, on |-> FALSE])
  BY One
<1> HIDE DEF x, on, off
<1>4. Block(R) /\ Count(R) = 9
  BY <1>2, One, AwaitedAt, SenseAt, Blocks DEF Joined
<1>5. Block(on ++ R ++ off) /\ Count(on ++ R ++ off) = 11
  BY <1>3, <1>4, Blocks DEF Joined
<1>6. ASSUME NEW P, NEW k \in Nat, Holds(P, k, on ++ R ++ off)
      PROVE  /\ Holds(P, k, on) /\ Holds(P, k + 1, Do("demand", 0)) /\ Holds(P, k + 2, x)
             /\ Holds(P, k + 4, Awaited) /\ Holds(P, k + 6, Sense)
             /\ Holds(P, k + 9, Do("verify", d)) /\ Holds(P, k + 10, off)
  <2>1. Holds(P, k, on) /\ Holds(P, k + 1, R) /\ Holds(P, k + 10, off)
    <3> HIDE DEF R
    <3> QED
      BY <1>3, <1>4, <1>6, Blocks DEF Joined
  <2>2. /\ Holds(P, k + 1, Do("demand", 0)) /\ Holds(P, k + 2, x) /\ Holds(P, k + 4, Awaited)
        /\ Holds(P, k + 6, Sense) /\ Holds(P, k + 9, Do("verify", d))
    BY <2>1, <1>2, One, AwaitedAt, SenseAt, Blocks DEF Joined
  <2> QED
    BY <2>1, <2>2
<1>7. ASSUME NEW P, NEW k \in Nat, Holds(P, k, on ++ R ++ off)
      PROVE  /\ P[k + 1] = I("motor", [drive |-> d, on |-> TRUE])
             /\ P[k + 2] = I("demand", 0)
             /\ P[k + 3] = I("out", "recalibrate") /\ P[k + 4] = I("out", d)
             /\ P[k + 5] = I("wait", 0) /\ P[k + 6] = I("clear", 0)
             /\ P[k + 7] = I("out", "sense") /\ P[k + 8] = I("in", 1) /\ P[k + 9] = I("in", 2)
             /\ P[k + 10] = I("verify", d)
             /\ P[k + 11] = I("motor", [drive |-> d, on |-> FALSE])
  <2>0. /\ Holds(P, k, on) /\ Holds(P, k + 1, Do("demand", 0)) /\ Holds(P, k + 2, x)
        /\ Holds(P, k + 4, Awaited) /\ Holds(P, k + 6, Sense)
        /\ Holds(P, k + 9, Do("verify", d)) /\ Holds(P, k + 10, off)
    BY <1>6, <1>7
  <2>1. P[k + 1] = I("motor", [drive |-> d, on |-> TRUE]) /\ P[k + 2] = I("demand", 0)
    <3>1. P[k + 1] = I("motor", [drive |-> d, on |-> TRUE])
      BY <1>3, <2>0
    <3>2. P[k + 2] = I("demand", 0)
      BY <2>0, One
    <3> QED
      BY <3>1, <3>2
  <2>2. P[k + 3] = I("out", "recalibrate") /\ P[k + 4] = I("out", d)
    BY <1>2, <2>0
  <2>3. P[k + 5] = I("wait", 0) /\ P[k + 6] = I("clear", 0)
    BY <2>0, AwaitedAt
  <2>4. P[k + 7] = I("out", "sense") /\ P[k + 8] = I("in", 1) /\ P[k + 9] = I("in", 2)
    BY <2>0, SenseAt, (k + 6) + 1 = k + 7, (k + 6) + 2 = k + 8, (k + 6) + 3 = k + 9
  <2>5. P[k + 10] = I("verify", d)
    BY <2>0, One
  <2>6. P[k + 11] = I("motor", [drive |-> d, on |-> FALSE])
    BY <1>3, <2>0, k + 10 \in Nat, k + 11 = (k + 10) + 1
  <2> QED
    BY <2>1, <2>2, <2>3, <2>4, <2>5, <2>6
<1> HIDE DEF R
<1> QED
  BY <1>1, <1>5, <1>7

\* The two halves of Program, and the instruction at each place.
LEMMA InitBlocks ==
  ASSUME NEW P, Holds(P, 0, init_fdc)
  PROVE  /\ Block(init_fdc) /\ Count(init_fdc) = 49
         /\ Holds(P, 0, Do("clear", 0)) /\ Holds(P, 1, Do("demand", 0))
         /\ Holds(P, 2, Do("reset", 0)) /\ Holds(P, 3, Awaited)
         /\ Holds(P, 5, Sense) /\ Holds(P, 8, Sense) /\ Holds(P, 11, Sense) /\ Holds(P, 14, Sense)
         /\ Holds(P, 17, Unless(<<"specify", 255, 30>>))
         /\ Holds(P, 21, Unless(<<"configure", 0, 97, 0>>))
         /\ Holds(P, 26, Recalibrated(0)) /\ Holds(P, 37, Recalibrated(1))
         /\ Holds(P, 48, Do("return", "FDC_OK"))
<1> DEFINE a == Do("clear", 0)  b == Do("demand", 0)  c == Do("reset", 0)
           d == Unless(<<"specify", 255, 30>>)  e == Unless(<<"configure", 0, 97, 0>>)
           f == Recalibrated(0)  g == Recalibrated(1)  h == Do("return", "FDC_OK")
<1>1. init_fdc = a ++ b ++ c ++ Awaited ++ Sense ++ Sense ++ Sense ++ Sense ++ d ++ e ++ f ++ g ++ h
  BY DEF init_fdc, ++
<1>2. /\ Block(a) /\ Block(b) /\ Block(c) /\ Block(h)
      /\ Count(a) = 1 /\ Count(b) = 1 /\ Count(c) = 1 /\ Count(h) = 1
  BY One
<1>3. /\ Block(d) /\ Count(d) = 4 /\ Block(e) /\ Count(e) = 5
      /\ Block(f) /\ Count(f) = 11 /\ Block(g) /\ Count(g) = 11
  BY UnlessAt, RecalibratedAt
<1>4. Block(Awaited) /\ Count(Awaited) = 2 /\ Block(Sense) /\ Count(Sense) = 3
  BY AwaitedAt, SenseAt
<1> HIDE DEF a, b, c, d, e, f, g, h
<1> DEFINE x == a ++ b ++ c ++ Awaited ++ Sense ++ Sense ++ Sense ++ Sense
<1>5. Block(x) /\ Count(x) = 17
  BY <1>2, <1>4, Blocks DEF Joined
<1>6. Holds(P, 0, x ++ d ++ e ++ f ++ g ++ h)
  BY <1>1
<1>7. /\ Block(init_fdc) /\ Count(init_fdc) = 49
      /\ Holds(P, 0, x) /\ Holds(P, 17, d) /\ Holds(P, 21, e) /\ Holds(P, 26, f)
      /\ Holds(P, 37, g) /\ Holds(P, 48, h)
  <2> HIDE DEF x
  <2>1. init_fdc = x ++ d ++ e ++ f ++ g ++ h
    BY <1>1 DEF x
  <2> QED
    BY <2>1, <1>2, <1>3, <1>5, <1>6, Blocks DEF Joined
<1>8. /\ Holds(P, 0, a) /\ Holds(P, 1, b) /\ Holds(P, 2, c) /\ Holds(P, 3, Awaited)
      /\ Holds(P, 5, Sense) /\ Holds(P, 8, Sense) /\ Holds(P, 11, Sense) /\ Holds(P, 14, Sense)
  BY <1>2, <1>4, <1>7, Blocks DEF Joined
<1> QED
  BY <1>7, <1>8 DEF a, b, c, d, e, f, g, h

LEMMA ReadAt ==
  ASSUME NEW c, NEW h, NEW s
  PROVE  /\ Block(ReadBytes(c, h, s)) /\ Count(ReadBytes(c, h, s)) = 9
         /\ \A P, k : k \in Nat /\ Holds(P, k, ReadBytes(c, h, s)) =>
              /\ \A i \in 1 .. 9 : P[k + i].op = "out"
              /\ P[k + 1].arg = "read" /\ P[k + 2].arg = 1
              /\ P[k + 3].arg = c /\ P[k + 4].arg = h /\ P[k + 5].arg = s
<1> DEFINE f == <<"read", 1, c, h, s, 2, FD_SECTORS, 27, 255>>
<1>1. /\ DOMAIN f = 1 .. 9
      /\ f[1] = "read" /\ f[2] = 1 /\ f[3] = c /\ f[4] = h /\ f[5] = s
      /\ ReadBytes(c, h, s) = Out(f)
  BY DEF ReadBytes
<1> HIDE DEF f
<1>2. Sends(f, 9)
  BY <1>1, Bytes
<1>3. \A a : I("out", a).op = "out" /\ I("out", a).arg = a
  BY DEF I
<1>4. 1 \in 1 .. 9 /\ 2 \in 1 .. 9 /\ 3 \in 1 .. 9 /\ 4 \in 1 .. 9 /\ 5 \in 1 .. 9
  OBVIOUS
<1> QED
  BY <1>1, <1>2, <1>3, <1>4 DEF Sends

LEMMA ReadBlocks ==
  ASSUME NEW c, NEW h, NEW s, NEW P, Holds(P, 49, fdc_cmd_read_data(c, h, s))
  PROVE  /\ Block(fdc_cmd_read_data(c, h, s)) /\ Count(fdc_cmd_read_data(c, h, s)) = 26
         /\ Holds(P, 49, Do("dma_addr", Lo(Buffer))) /\ Holds(P, 50, Do("dma_addr", Hi(Buffer)))
         /\ Holds(P, 51, Do("dma_count", Lo(Size))) /\ Holds(P, 52, Do("dma_count", Hi(Size)))
         /\ Holds(P, 53, Do("dma_page", 0))
         /\ Holds(P, 54, Do("motor", [drive |-> 1, on |-> TRUE])) /\ Holds(P, 55, Do("clear", 0))
         /\ Holds(P, 56, ReadBytes(c, h, s)) /\ Holds(P, 65, Awaited) /\ Holds(P, 67, In(7))
         /\ Holds(P, 74, Do("motor", [drive |-> 1, on |-> FALSE]))
<1> DEFINE a == Do("dma_addr", Lo(Buffer))  b == Do("dma_addr", Hi(Buffer))
           d == Do("dma_count", Lo(Size))  e == Do("dma_count", Hi(Size))
           f == Do("dma_page", 0)
           on == Do("motor", [drive |-> 1, on |-> TRUE])  clear == Do("clear", 0)
           off == Do("motor", [drive |-> 1, on |-> FALSE])
           read == ReadBytes(c, h, s)
           x == a ++ b ++ (d ++ e)
<1>1. Buffer % 65536 = Buffer /\ (Buffer \div 65536) % 256 = 0
  BY DiskAssumption DEF Buffer
<1>2. dma_init_for_fd_read(Buffer, Size) = a ++ b ++ d ++ e ++ f
  BY <1>1 DEF dma_init_for_fd_read, DmaAddrCount, Lo, Hi, ++
<1>3. Issue(c, h, s) = on ++ clear ++ read
  BY DEF Issue, ++
<1>4. fdc_cmd_read_data(c, h, s)
        = (a ++ b ++ d ++ e ++ f) ++ (on ++ clear ++ read) ++ Awaited ++ In(7) ++ off
  <2>1. fdc_cmd_read_data(c, h, s)
          = dma_init_for_fd_read(Buffer, Size) \o Issue(c, h, s) \o Awaited \o In(7) \o off
    BY DEF fdc_cmd_read_data, Buffer, Size
  <2> HIDE DEF a, b, d, e, f, on, clear, off, read
  <2> QED
    BY <2>1, <1>2, <1>3 DEF ++
<1>5. /\ Block(a) /\ Block(b) /\ Block(d) /\ Block(e) /\ Block(f)
      /\ Block(on) /\ Block(clear) /\ Block(off)
      /\ Count(a) = 1 /\ Count(b) = 1 /\ Count(d) = 1 /\ Count(e) = 1 /\ Count(f) = 1
      /\ Count(on) = 1 /\ Count(clear) = 1 /\ Count(off) = 1
  BY One
<1>6. /\ Block(Awaited) /\ Count(Awaited) = 2 /\ Block(read) /\ Count(read) = 9
      /\ Block(In(7)) /\ Count(In(7)) = 7
  BY AwaitedAt, ReadAt, Results
<1> HIDE DEF a, b, d, e, f, on, clear, off, read
<1> DEFINE u == a ++ b ++ d ++ e ++ f  v == on ++ clear ++ read
<1>7. Block(u) /\ Count(u) = 5 /\ Block(v) /\ Count(v) = 11
  BY <1>5, <1>6, Blocks DEF Joined
<1>8. /\ Block(fdc_cmd_read_data(c, h, s)) /\ Count(fdc_cmd_read_data(c, h, s)) = 26
      /\ Holds(P, 49, u) /\ Holds(P, 54, v) /\ Holds(P, 65, Awaited) /\ Holds(P, 67, In(7))
      /\ Holds(P, 74, off)
  <2> HIDE DEF u, v
  <2>1. fdc_cmd_read_data(c, h, s) = u ++ v ++ Awaited ++ In(7) ++ off
    BY <1>4 DEF u, v
  <2> QED
    BY <2>1, <1>5, <1>6, <1>7, Blocks DEF Joined
<1>9. /\ Holds(P, 49, a) /\ Holds(P, 50, b) /\ Holds(P, 51, d) /\ Holds(P, 52, e) /\ Holds(P, 53, f)
      /\ Holds(P, 54, on) /\ Holds(P, 55, clear) /\ Holds(P, 56, read)
  BY <1>5, <1>6, <1>8, Blocks DEF Joined
<1> QED
  BY <1>8, <1>9 DEF a, b, d, e, f, on, clear, off, read

ProgramFor(p) == init_fdc \o fdc_cmd_read_data(p.c, p.h, p.s) \o Do("memcpy", 0)

LEMMA Halves ==
  ASSUME NEW p
  PROVE  /\ Len(ProgramFor(p)) = 76
         /\ Holds(ProgramFor(p), 0, init_fdc)
         /\ Holds(ProgramFor(p), 49, fdc_cmd_read_data(p.c, p.h, p.s))
         /\ ProgramFor(p)[76] = I("memcpy", 0)
<1> DEFINE P == ProgramFor(p)
           a == fdc_cmd_read_data(p.c, p.h, p.s)  m == Do("memcpy", 0)
<1>1. Block(init_fdc) /\ Count(init_fdc) = 49
  <2>1. Holds(init_fdc, 0, init_fdc)
    <3>1. \A i \in 1 .. Len(init_fdc) : 0 + i = i
      OBVIOUS
    <3> QED
      BY <3>1 DEF Holds
  <2> QED
    BY <2>1, InitBlocks
<1>2. Block(a) /\ Count(a) = 26
  <2>1. PICK Q : Holds(Q, 49, a)
    <3>1. Holds([j \in Nat |-> a[j - 49]], 49, a)
      BY DEF Holds
    <3> QED
      BY <3>1
  <2> QED
    BY <2>1, ReadBlocks
<1>3. /\ Block(m) /\ Count(m) = 1
      /\ \A Q, k, j : k \in Nat /\ Holds(Q, k, m) /\ j = k + 1 => Q[j] = I("memcpy", 0)
  BY One
<1>4. P = init_fdc ++ a ++ m
  BY DEF ++, ProgramFor
<1> HIDE DEF P, a, m
<1>5. Block(P) /\ Count(P) = 76
  BY <1>1, <1>2, <1>3, <1>4, Blocks DEF Joined
<1>6. Holds(P, 0, P)
  <2>1. \A i \in 1 .. Len(P) : 0 + i = i
    BY <1>5 DEF Block
  <2> QED
    BY <2>1 DEF Holds
<1>7. Holds(P, 0, init_fdc) /\ Holds(P, 49, a) /\ Holds(P, 75, m)
  BY <1>1, <1>2, <1>3, <1>4, <1>6, Blocks DEF Joined
<1>8. P[76] = I("memcpy", 0)
  BY <1>3, <1>7, 76 = 75 + 1, 75 \in Nat
<1> QED
  BY <1>5, <1>7, <1>8 DEF P, a, Count

\* What the instruction at each place does.
Listing(P, p) ==
  /\ \A k \in After \cup {1, 56} : P[k] = I("clear", 0)
  /\ \A k \in {2, 28, 39} : P[k] = I("demand", 0)
  /\ P[3] = I("reset", 0)
  /\ \A k \in Waits : P[k] = I("wait", 0)
  /\ \A k \in Outs : P[k].op = "out"
  /\ \A k \in {6, 9, 12, 15, 33, 44} : P[k].arg = "sense"
  /\ P[19].arg = "specify" /\ P[23].arg = "configure"
  /\ P[29].arg = "recalibrate" /\ P[30].arg = 0 /\ P[40].arg = "recalibrate" /\ P[41].arg = 1
  /\ P[57].arg = "read" /\ P[58].arg = 1 /\ P[59].arg = p.c /\ P[60].arg = p.h /\ P[61].arg = p.s
  /\ \A k \in Ins : P[k].op = "in"
  /\ \A k \in {7, 10, 13, 16, 34, 45} : P[k].arg = 1
  /\ \A k \in {8, 11, 14, 17, 35, 46} : P[k].arg = 2
  /\ \A k \in 68 .. 74 : P[k].arg = k - 67
  /\ P[18] = I("check", 3) /\ P[22] = I("check", 4)
  /\ \A k \in {27, 37, 38, 48, 55, 75} : P[k].op = "motor"
  /\ P[27].arg = [drive |-> 0, on |-> TRUE]
  /\ P[38].arg = [drive |-> 1, on |-> TRUE] /\ P[55].arg = [drive |-> 1, on |-> TRUE]
  /\ P[36] = I("verify", 0) /\ P[47] = I("verify", 1)
  /\ P[49] = I("return", "FDC_OK")
  /\ P[50] = I("dma_addr", Lo(Buffer)) /\ P[51] = I("dma_addr", Hi(Buffer))
  /\ P[52] = I("dma_count", Lo(Size)) /\ P[53] = I("dma_count", Hi(Size))
  /\ P[54] = I("dma_page", 0)
  /\ P[76] = I("memcpy", 0)

LEMMA Listed ==
  ASSUME NEW p
  PROVE  Listing(ProgramFor(p), p)
<1> DEFINE P == ProgramFor(p)
<1>1. Holds(P, 0, init_fdc) /\ Holds(P, 49, fdc_cmd_read_data(p.c, p.h, p.s))
      /\ P[76] = I("memcpy", 0)
  BY Halves
<1> HIDE DEF P
<1>2. /\ Holds(P, 3, Awaited)
      /\ Holds(P, 5, Sense) /\ Holds(P, 8, Sense) /\ Holds(P, 11, Sense) /\ Holds(P, 14, Sense)
  BY <1>1, InitBlocks
<1>3. /\ Holds(P, 0, Do("clear", 0)) /\ Holds(P, 1, Do("demand", 0))
      /\ Holds(P, 2, Do("reset", 0)) /\ Holds(P, 48, Do("return", "FDC_OK"))
  BY <1>1, InitBlocks
<1>4. /\ Holds(P, 17, Unless(<<"specify", 255, 30>>))
      /\ Holds(P, 21, Unless(<<"configure", 0, 97, 0>>))
      /\ Holds(P, 26, Recalibrated(0)) /\ Holds(P, 37, Recalibrated(1))
  BY <1>1, InitBlocks
<1>5. /\ Holds(P, 49, Do("dma_addr", Lo(Buffer))) /\ Holds(P, 50, Do("dma_addr", Hi(Buffer)))
      /\ Holds(P, 51, Do("dma_count", Lo(Size))) /\ Holds(P, 52, Do("dma_count", Hi(Size)))
      /\ Holds(P, 53, Do("dma_page", 0)) /\ Holds(P, 55, Do("clear", 0))
  BY <1>1, ReadBlocks
<1>6. /\ Holds(P, 54, Do("motor", [drive |-> 1, on |-> TRUE]))
      /\ Holds(P, 74, Do("motor", [drive |-> 1, on |-> FALSE]))
  BY <1>1, ReadBlocks
<1>7. /\ Holds(P, 56, ReadBytes(p.c, p.h, p.s)) /\ Holds(P, 65, Awaited) /\ Holds(P, 67, In(7))
  BY <1>1, ReadBlocks
<1>11. P[1] = I("clear", 0) /\ P[2] = I("demand", 0) /\ P[3] = I("reset", 0) /\ P[49] = I("return", "FDC_OK")
  BY <1>3, One
<1>12. P[4] = I("wait", 0) /\ P[5] = I("clear", 0) /\ P[66] = I("wait", 0) /\ P[67] = I("clear", 0)
  BY <1>2, <1>7, AwaitedAt
<1>13. /\ P[6] = I("out", "sense") /\ P[7] = I("in", 1) /\ P[8] = I("in", 2)
       /\ P[9] = I("out", "sense") /\ P[10] = I("in", 1) /\ P[11] = I("in", 2)
       /\ P[12] = I("out", "sense") /\ P[13] = I("in", 1) /\ P[14] = I("in", 2)
       /\ P[15] = I("out", "sense") /\ P[16] = I("in", 1) /\ P[17] = I("in", 2)
  BY <1>2, SenseAt
<1>14. /\ P[18] = I("check", 3) /\ P[19] = I("out", "specify")
       /\ \A i \in 2 .. 4 : P[17 + i].op = "out"
       /\ P[22] = I("check", 4) /\ P[23] = I("out", "configure")
       /\ \A i \in 2 .. 5 : P[21 + i].op = "out"
  BY <1>4, UnlessAt
<1>15. /\ P[27] = I("motor", [drive |-> 0, on |-> TRUE]) /\ P[28] = I("demand", 0)
       /\ P[29] = I("out", "recalibrate") /\ P[30] = I("out", 0)
       /\ P[31] = I("wait", 0) /\ P[32] = I("clear", 0)
       /\ P[33] = I("out", "sense") /\ P[34] = I("in", 1) /\ P[35] = I("in", 2)
       /\ P[36] = I("verify", 0) /\ P[37] = I("motor", [drive |-> 0, on |-> FALSE])
  BY <1>4, RecalibratedAt
<1>16. /\ P[38] = I("motor", [drive |-> 1, on |-> TRUE]) /\ P[39] = I("demand", 0)
       /\ P[40] = I("out", "recalibrate") /\ P[41] = I("out", 1)
       /\ P[42] = I("wait", 0) /\ P[43] = I("clear", 0)
       /\ P[44] = I("out", "sense") /\ P[45] = I("in", 1) /\ P[46] = I("in", 2)
       /\ P[47] = I("verify", 1) /\ P[48] = I("motor", [drive |-> 1, on |-> FALSE])
  BY <1>4, RecalibratedAt
<1>17. /\ P[50] = I("dma_addr", Lo(Buffer)) /\ P[51] = I("dma_addr", Hi(Buffer))
       /\ P[52] = I("dma_count", Lo(Size)) /\ P[53] = I("dma_count", Hi(Size))
       /\ P[54] = I("dma_page", 0) /\ P[56] = I("clear", 0)
  BY <1>5, One
<1>18. /\ P[55] = I("motor", [drive |-> 1, on |-> TRUE]) /\ P[75] = I("motor", [drive |-> 1, on |-> FALSE])
  BY <1>6, One
<1>19. /\ \A i \in 1 .. 9 : P[56 + i].op = "out"
       /\ P[57].arg = "read" /\ P[58].arg = 1
       /\ P[59].arg = p.c /\ P[60].arg = p.h /\ P[61].arg = p.s
  BY <1>7, ReadAt
<1>20. \A i \in 1 .. 7 : P[67 + i] = I("in", i)
  BY <1>7, Results
<1>21. \A a, b : I(a, b).op = a /\ I(a, b).arg = b
  BY DEF I
<1>22. \A k \in 19 .. 21 : P[k].op = "out"
  <2>1. \A k \in 19 .. 21 : k - 17 \in 2 .. 4 /\ 17 + (k - 17) = k
    OBVIOUS
  <2> QED
    BY <1>14, <2>1
<1>23. \A k \in 23 .. 26 : P[k].op = "out"
  <2>1. \A k \in 23 .. 26 : k - 21 \in 2 .. 5 /\ 21 + (k - 21) = k
    OBVIOUS
  <2> QED
    BY <1>14, <2>1
<1>24. \A k \in 57 .. 65 : P[k].op = "out"
  <2>1. \A k \in 57 .. 65 : k - 56 \in 1 .. 9 /\ 56 + (k - 56) = k
    OBVIOUS
  <2> QED
    BY <1>19, <2>1
<1>25. \A k \in 68 .. 74 : P[k] = I("in", k - 67)
  <2>1. \A k \in 68 .. 74 : k - 67 \in 1 .. 7 /\ 67 + (k - 67) = k
    OBVIOUS
  <2> QED
    BY <1>20, <2>1
<1>26. /\ \A k \in After \cup {1, 56} : P[k] = I("clear", 0)
       /\ \A k \in {2, 28, 39} : P[k] = I("demand", 0)
       /\ \A k \in Waits : P[k] = I("wait", 0)
  BY <1>11, <1>12, <1>15, <1>16, <1>17 DEF After, Waits
<1>27. \A k \in Outs : P[k].op = "out"
  <2>1. \A k \in {6, 9, 12, 15, 29, 30, 33, 40, 41, 44} : P[k].op = "out"
    BY <1>13, <1>15, <1>16, <1>21
  <2> QED
    BY <2>1, <1>22, <1>23, <1>24 DEF Outs
<1>28. /\ \A k \in {6, 9, 12, 15, 33, 44} : P[k].arg = "sense"
       /\ P[19].arg = "specify" /\ P[23].arg = "configure"
       /\ P[29].arg = "recalibrate" /\ P[30].arg = 0 /\ P[40].arg = "recalibrate" /\ P[41].arg = 1
  BY <1>13, <1>14, <1>15, <1>16, <1>21
<1>29. /\ \A k \in {7, 10, 13, 16, 34, 45} : P[k] = I("in", 1)
       /\ \A k \in {8, 11, 14, 17, 35, 46} : P[k] = I("in", 2)
  BY <1>13, <1>15, <1>16
<1>30. /\ \A k \in Ins : P[k].op = "in"
       /\ \A k \in {7, 10, 13, 16, 34, 45} : P[k].arg = 1
       /\ \A k \in {8, 11, 14, 17, 35, 46} : P[k].arg = 2
       /\ \A k \in 68 .. 74 : P[k].arg = k - 67
  BY <1>21, <1>25, <1>29 DEF Ins
<1>31. /\ \A k \in {27, 37, 38, 48, 55, 75} : P[k].op = "motor"
       /\ P[27].arg = [drive |-> 0, on |-> TRUE]
       /\ P[38].arg = [drive |-> 1, on |-> TRUE] /\ P[55].arg = [drive |-> 1, on |-> TRUE]
  BY <1>15, <1>16, <1>18, <1>21
<1> QED
  BY <1>1, <1>11, <1>14, <1>15, <1>16, <1>17, <1>19, <1>26, <1>27, <1>28, <1>30, <1>31
     DEF Listing, P

\* So the operation tells the place.
Sorted(P, k) ==
  /\ P[k].op = "wait" <=> k \in Waits
  /\ P[k].op = "clear" <=> k \in After \cup {1, 56}
  /\ P[k].op = "check" <=> k \in {18, 22}
  /\ P[k].op = "demand" <=> k \in {2, 28, 39}
  /\ P[k].op = "reset" <=> k = 3
  /\ P[k].op = "out" <=> k \in Outs
  /\ P[k].op = "in" <=> k \in Ins
  /\ P[k].op = "motor" <=> k \in {27, 37, 38, 48, 55, 75}
  /\ P[k].op = "verify" <=> k \in {36, 47}
  /\ P[k].op = "return" <=> k = 49
  /\ P[k].op = "dma_addr" <=> k \in {50, 51}
  /\ P[k].op = "dma_count" <=> k \in {52, 53}
  /\ P[k].op = "dma_page" <=> k = 54
  /\ P[k].op = "memcpy" <=> k = 76

LEMMA Places ==
  ASSUME NEW p, NEW P, Listing(P, p), NEW k \in 1 .. 76
  PROVE  Sorted(P, k)
<1>1. \A a, b : I(a, b).op = a
  BY DEF I
<1>2. \/ k \in Waits \/ k \in After \cup {1, 56} \/ k \in {18, 22} \/ k \in {2, 28, 39}
      \/ k = 3 \/ k \in Outs \/ k \in Ins \/ k \in {27, 37, 38, 48, 55, 75} \/ k \in {36, 47}
      \/ k = 49 \/ k \in {50, 51} \/ k \in {52, 53} \/ k = 54 \/ k = 76
  BY DEF Waits, After, Outs, Ins
<1>3. /\ k \in Waits => P[k].op = "wait"
      /\ k \in After \cup {1, 56} => P[k].op = "clear"
      /\ k \in {18, 22} => P[k].op = "check"
      /\ k \in {2, 28, 39} => P[k].op = "demand"
      /\ k = 3 => P[k].op = "reset"
      /\ k \in Outs => P[k].op = "out"
      /\ k \in Ins => P[k].op = "in"
      /\ k \in {27, 37, 38, 48, 55, 75} => P[k].op = "motor"
      /\ k \in {36, 47} => P[k].op = "verify"
      /\ k = 49 => P[k].op = "return"
      /\ k \in {50, 51} => P[k].op = "dma_addr"
      /\ k \in {52, 53} => P[k].op = "dma_count"
      /\ k = 54 => P[k].op = "dma_page"
      /\ k = 76 => P[k].op = "memcpy"
  BY <1>1 DEF Listing
<1> QED
  BY <1>2, <1>3 DEF Sorted

-----------------------------------------------------------------------------
\* The bytes sent so far.
LEMMA SentNext ==
  ASSUME NEW P, NEW a \in Nat, NEW b \in Nat, a <= b
  PROVE  /\ Len(Sent(P, a, b)) = b - a
         /\ Append(Sent(P, a, b), P[b].arg) = Sent(P, a, b + 1)
BY DEF Sent

LEMMA SentByte ==
  ASSUME NEW P, NEW a \in Nat, NEW b \in Nat, NEW i \in 1 .. b - a, NEW j, j = a + i - 1
  PROVE  Sent(P, a, b)[i] = P[j].arg
BY DEF Sent

\* What the driver does at each place.
Where ==
  /\ Doing("wait") <=> pc \in Waits
  /\ Doing("clear") <=> pc \in After \cup {1, 56}
  /\ Doing("check") <=> pc \in {18, 22}
  /\ Doing("demand") <=> pc \in {2, 28, 39}
  /\ Doing("reset") <=> pc = 3
  /\ Doing("out") <=> pc \in Outs
  /\ Doing("in") <=> pc \in Ins
  /\ Doing("motor") <=> pc \in {27, 37, 38, 48, 55, 75}
  /\ Doing("verify") <=> pc \in {36, 47}
  /\ Doing("return") <=> pc = 49
  /\ Doing("dma_addr") <=> pc \in {50, 51}
  /\ Doing("dma_count") <=> pc \in {52, 53}
  /\ Doing("dma_page") <=> pc = 54
  /\ Doing("memcpy") <=> pc = 76
  /\ Reading = 50
  /\ Listing(Program, at)

LEMMA Doings ==
  ASSUME pc \in 1 .. 77
  PROVE  Where
<1> PICK p : p = at
  OBVIOUS
<1> PICK k : k = pc
  OBVIOUS
<1>1. Program = ProgramFor(p)
  BY DEF Program, ProgramFor
<1>2. Len(Program) = 76
  BY <1>1, Halves
<1>3. Listing(Program, p)
  BY <1>1, Listed
<1>4. Reading = 50
  <2>1. Count(init_fdc) = 49
    BY Halves, InitBlocks
  <2> QED
    BY <2>1 DEF Count, Reading
<1>5. CASE k = 77
  BY <1>2, <1>3, <1>4, <1>5 DEF Where, Doing, Waits, After, Outs, Ins
<1>6. CASE k # 77
  <2>1. k \in 1 .. 76
    BY <1>6
  <2> PICK P : P = Program
    OBVIOUS
  <2>2. Sorted(P, k)
    BY <1>3, <2>1, Places
  <2>3. pc <= Len(Program)
    BY <1>2, <2>1
  <2> QED
    BY <1>3, <1>4, <2>2, <2>3 DEF Where, Doing, Sorted
<1> QED
  BY <1>5, <1>6

-----------------------------------------------------------------------------
\* Every step preserves the invariant.  First what the steps that leave a part
\* alone need not look at.
Still == UNCHANGED <<at, buf, frame, failed>>
LEMMA SameProgram ==
  ASSUME at' = at PROVE Program' = Program
BY DEF Program

LEMMA SentNone ==
  ASSUME NEW P, NEW a \in Nat PROVE Sent(P, a, a) = <<>>
BY DEF Sent

Within == 20 .. 21 \cup 24 .. 26 \cup 30 .. 31 \cup 41 .. 42 \cup 58 .. 66
LEMMA Fresh ==
  ASSUME NEW p \in Nat, p \notin Within
  PROVE  \A P : Sent(P, Start(p), p) = <<>>
<1>1. Start(p) = p
  BY DEF Start, Within
<1> QED
  BY <1>1, SentNone

LEMMA KindsStill ==
  ASSUME Kinds, pc' \in 1 .. 77, fdc_intr' \in BOOLEAN, irq' \in BOOLEAN,
         phase' \in {"absent", "command", "executing", "result"},
         DOMAIN status' = 1 .. 7, DOMAIN answered' = Drive, at' = at, results' \in Seq(Nat)
  PROVE  Kinds'
BY DEF Kinds

LEMMA AnswerStill ==
  ASSUME NEW d, UNCHANGED <<st0, answered>> PROVE Answer(d)' <=> Answer(d)
BY DEF Answer

LEMMA TurnStill ==
  ASSUME Turn, NEW p \in Nat, NEW q \in Nat, p = pc, q = pc', UNCHANGED <<phase, cmd, results>>,
         p \notin Waits \cup Within \cup Ins \cup {67}, q \notin Within \cup Ins \cup {67}
  PROVE  Turn'
<1>1. Left(p) = 0 /\ Left(q) = 0
  <2>1. ASSUME NEW n \in Nat, n \notin Ins \cup {67} PROVE Left(n) = 0
    <3>1. n \notin 67 .. 68 /\ n \notin 69 .. 74 /\ n \notin {7, 10, 13, 16, 34, 45}
      BY <2>1 DEF Ins
    <3> QED
      BY <2>1, <3>1 DEF Left
  <2> QED
    BY <2>1
<1>2. Sent(Program, Start(p), p) = <<>> /\ Sent(Program', Start(q), q) = <<>>
  BY Fresh
<1> QED
  BY <1>1, <1>2 DEF Turn

LEMMA CopiedStill ==
  ASSUME Copied, Still, Kinds,
         pc' <= 49 => pc <= 49, pc' # 77, pc # 77, phase' = phase,
         pc' \in 67 .. 76 => pc \in 67 .. 76 \/ InFrame
  PROVE  Copied'
BY DEF Copied, Still, Image, InFrame

LEMMA WaitStep == IInv /\ Wait => IInv'
<1> SUFFICES ASSUME IInv, Wait PROVE IInv'
  OBVIOUS
<1>1. Where
  BY Doings DEF IInv, Kinds
<1>2. /\ pc \in Waits /\ fdc_intr /\ pc' = pc + 1
      /\ UNCHANGED <<fdc_intr, result, at, status, buf, frame, dma, phase, cmd, results,
                     irq, unsensed, st0, dor, issued, raisedFor, seenFor, answered, failed>>
  BY <1>1 DEF Wait, Where, Step, StepTo, controller, history
<1>3. Program' = Program
  BY <1>2, SameProgram
<1>4. phase # "absent" /\ ~irq /\ Ended(pc)
  BY <1>2 DEF IInv, Absent, Waiting
<1>5. Kinds'
  <2>1. Kinds /\ pc' \in 1 .. 77
    BY <1>2 DEF IInv, Waits
  <2> QED
    BY <1>2, <2>1, KindsStill DEF Kinds
<1>6. Absent' /\ Waiting' /\ Quiet'
  BY <1>2, <1>4 DEF IInv, Absent, Waiting, Quiet, Waits, After
<1>7. Woken'
  BY <1>2, <1>4 DEF IInv, Woken, Waits, After, Ended, Answer, InFrame
<1>8. Turn' /\ NoResults'
  <2>1. cmd' = Sent(Program', pc', pc') /\ Start(pc') = pc'
    BY <1>2, <1>4, SentNone DEF Ended, Waits, Start
  <2>2. Len(results') = Left(pc') /\ phase' = IF Left(pc') > 0 THEN "result" ELSE "command"
    BY <1>2, <1>4 DEF Ended, Waits, Left, Ins, IInv, NoResults
  <2> QED
    BY <1>2, <2>1, <2>2 DEF IInv, Turn, NoResults, Waits
<1>9. Sensing'
  BY <1>2, <1>4 DEF IInv, Sensing, Waits, Ended, Answer, Unsensed
<1>10. Success' /\ Motors' /\ Channel'
  BY <1>2, <1>4 DEF IInv, Success, Motors, Channel, Waits, Heard
<1>11. Copied'
  BY <1>2, <1>4 DEF IInv, Copied, Waits, Ended, Image, InFrame
<1> QED
  BY <1>5, <1>6, <1>7, <1>8, <1>9, <1>10, <1>11 DEF IInv

LEMMA ClearStep == IInv /\ Clear => IInv'
<1> SUFFICES ASSUME IInv, Clear PROVE IInv'
  OBVIOUS
<1>1. Where
  BY Doings DEF IInv, Kinds
<1>2. /\ pc \in After \cup {1, 56} /\ pc' = pc + 1 /\ fdc_intr' = FALSE
      /\ UNCHANGED <<result, at, status, buf, frame, dma, phase, cmd, results, irq,
                     unsensed, st0, dor, issued, raisedFor, seenFor, answered, failed>>
  BY <1>1 DEF Clear, Where, Step, StepTo, controller, history
<1>3. Program' = Program
  BY <1>2, SameProgram
<1>4. pc \in After => phase # "absent" /\ ~irq /\ Ended(pc - 1)
  BY <1>2 DEF IInv, Absent, Woken, After
<1>5. Kinds'
  <2>1. Kinds /\ pc' \in 1 .. 77
    BY <1>2 DEF IInv, After
  <2> QED
    BY <1>2, <2>1, KindsStill DEF Kinds
<1>6. Absent' /\ Waiting' /\ Quiet'
  BY <1>2, <1>4 DEF IInv, Absent, Waiting, Quiet, Waits, After, Ended
<1>7. Woken'
  BY <1>2 DEF Woken, After
<1>8. Turn' /\ NoResults'
  BY <1>2, <1>3, <1>4, SentNone DEF IInv, Turn, NoResults, Waits, After, Left, Ins, Start
<1>9. Sensing'
  <2>1. (pc = 32 => Answer(0)) /\ (pc = 43 => Answer(1)) /\ (pc = 5 => unsensed = 4)
    BY <1>4 DEF Ended, After
  <2>2. (Answer(0)' <=> Answer(0)) /\ (Answer(1)' <=> Answer(1))
    BY <1>2, AnswerStill
  <2> QED
    BY <1>2, <2>1, <2>2 DEF IInv, Sensing, After, Unsensed
<1>10. Success' /\ Motors' /\ Channel'
  <2>1. Success'
    BY <1>2, <1>4 DEF IInv, Success, After, Heard
  <2>2. Motors'
    BY <1>2, <1>4 DEF IInv, Motors, After
  <2>3. Channel'
    BY <1>2, <1>4 DEF IInv, Channel, After
  <2> QED
    BY <2>1, <2>2, <2>3
<1>11. Copied'
  <2>1. pc' # 77 /\ pc # 77 /\ (pc' <= 49 => pc <= 49) /\ (pc' \in 67 .. 76 => pc \in 67 .. 76)
    BY <1>2 DEF After
  <2> QED
    BY <1>2, <2>1, CopiedStill DEF IInv, Still
<1> QED
  BY <1>5, <1>6, <1>7, <1>8, <1>9, <1>10, <1>11 DEF IInv

LEMMA CheckStep == IInv /\ Check => IInv'
<1> SUFFICES ASSUME IInv, Check PROVE IInv'
  OBVIOUS
<1>1. Where
  BY Doings DEF IInv, Kinds
<1>2. /\ pc \in {18, 22} /\ pc' = (IF Ready THEN pc + 1 ELSE pc + 1 + Arg)
      /\ UNCHANGED <<fdc_intr, result, at, status, buf, frame, dma, phase, cmd, results,
                     irq, unsensed, st0, dor, issued, raisedFor, seenFor, answered, failed>>
  BY <1>1 DEF Check, Where, Step, StepTo, controller, history
<1>3. Program' = Program
  BY <1>2, SameProgram
<1>4. phase = "command" /\ pc' = pc + 1
  BY <1>2 DEF IInv, Absent, Turn, Waits, Left, Ins, Ready
<1>5. Kinds'
  <2>1. Kinds /\ pc' \in 1 .. 77
    BY <1>2, <1>4 DEF IInv
  <2> QED
    BY <1>2, <2>1, KindsStill DEF Kinds
<1>6. Absent' /\ Waiting' /\ Quiet'
  BY <1>2, <1>4 DEF IInv, Absent, Waiting, Quiet, Waits, After
<1>7. Woken'
  BY <1>2, <1>4 DEF Woken, After
<1>8. Turn' /\ NoResults'
  <2>1. Turn'
    BY <1>2, <1>4, TurnStill DEF IInv, Waits, Within, Ins
  <2> QED
    BY <1>2, <1>4, <2>1 DEF NoResults, Waits
<1>9. Sensing'
  BY <1>2, <1>4 DEF IInv, Sensing, Unsensed
<1>10. Success' /\ Motors' /\ Channel'
  BY <1>2, <1>4 DEF IInv, Success, Motors, Channel, Heard
<1>11. Copied'
  BY <1>2, <1>4 DEF IInv, Copied, Image, InFrame
<1> QED
  BY <1>5, <1>6, <1>7, <1>8, <1>9, <1>10, <1>11 DEF IInv

LEMMA DemandStep == IInv /\ Demand => IInv'
<1> SUFFICES ASSUME IInv, Demand PROVE IInv'
  OBVIOUS
<1>1. Where
  BY Doings DEF IInv, Kinds
<1>2. /\ pc \in {2, 28, 39} /\ pc' = (IF Ready THEN pc + 1 ELSE Reading)
      /\ result' = IF Ready THEN result ELSE "FDC_ERROR"
  BY <1>1 DEF Demand, Where, Step, StepTo
<1>3. UNCHANGED <<fdc_intr, at, status, buf, frame, dma, phase, cmd, results, irq,
                  unsensed, st0, dor, issued, raisedFor, seenFor, answered, failed>>
  BY <1>1 DEF Demand, Where, Step, StepTo, controller, history
<1>4. \/ phase = "command" /\ pc \in {2, 28, 39} /\ pc' = pc + 1 /\ result' = result
      \/ phase = "absent" /\ pc = 2 /\ pc' = 50 /\ result' = "FDC_ERROR"
  BY <1>1, <1>2 DEF IInv, Absent, Turn, Waits, Left, Ins, Ready, Where
<1>5. Kinds'
  <2>1. Kinds /\ pc' \in 1 .. 77
    BY <1>4 DEF IInv
  <2> QED
    BY <1>3, <2>1, KindsStill DEF Kinds
<1>6. Absent' /\ Waiting' /\ Quiet'
  BY <1>3, <1>4 DEF IInv, Absent, Waiting, Quiet, Waits, After
<1>7. Woken'
  BY <1>3, <1>4 DEF Woken, After
<1>8. Turn' /\ NoResults'
  <2>1. /\ Sent(Program, Start(pc), pc) = <<>>
        /\ phase = "command" => Sent(Program', Start(pc'), pc') = <<>>
    BY <1>4, Fresh DEF Within
  <2>2. NoResults'
    BY <1>4 DEF NoResults, Waits
  <2>3. CASE phase = "absent"
    BY <1>3, <2>2, <2>3 DEF Turn
  <2>4. CASE phase = "command"
    <3>1. Left(pc) = 0 /\ Left(pc') = 0 /\ pc \notin Waits
      BY <1>4, <2>4 DEF Left, Ins, Waits
    <3>2. cmd = <<>> /\ Len(results) = 0
      BY <2>1, <2>4, <3>1 DEF IInv, Turn
    <3> QED
      BY <1>3, <2>1, <2>2, <2>4, <3>1, <3>2 DEF Turn
  <2> QED
    BY <1>4, <2>3, <2>4
<1>9. Sensing'
  BY <1>3, <1>4 DEF IInv, Sensing, Unsensed
<1>10. Success' /\ Motors' /\ Channel'
  BY <1>3, <1>4 DEF IInv, Success, Motors, Channel, Heard
<1>11. Copied'
  BY <1>3, <1>4, CopiedStill DEF IInv, Still
<1> QED
  BY <1>5, <1>6, <1>7, <1>8, <1>9, <1>10, <1>11 DEF IInv

LEMMA VerifyStep == IInv /\ Verify => IInv'
<1> SUFFICES ASSUME IInv, Verify PROVE IInv'
  OBVIOUS
<1>1. Where
  BY Doings DEF IInv, Kinds
<1>2. /\ pc \in {36, 47} /\ pc' = (IF AtTrack0(Arg) THEN pc + 1 ELSE 50)
      /\ result' = IF AtTrack0(Arg) THEN result ELSE "FDC_ERROR"
  BY <1>1 DEF Verify, Where, StepTo
<1>3. UNCHANGED <<fdc_intr, at, status, buf, frame, dma, phase, cmd, results, irq, unsensed, st0, dor,
                  issued, raisedFor, seenFor, answered, failed>>
  BY DEF Verify, controller, history
<1>4. \/ pc = 36 /\ pc' = 37 /\ result' = result /\ answered[0] \in {32, 112}
      \/ pc = 47 /\ pc' = 48 /\ result' = result /\ answered[1] \in {33, 113}
      \/ pc \in {36, 47} /\ pc' = 50 /\ result' = "FDC_ERROR"
  <2>1. (pc = 36 => Arg = 0) /\ (pc = 47 => Arg = 1)
    BY <1>1 DEF Where, Listing, Arg, I
  <2>2. ASSUME AtTrack0(0), status[1] \in {32, 72, 112} PROVE status[1] \in {32, 112}
    BY <2>2 DEF AtTrack0
  <2>3. ASSUME AtTrack0(1), status[1] \in {33, 73, 113} PROVE status[1] \in {33, 113}
    BY <2>3 DEF AtTrack0
  <2>4. /\ pc = 36 => status[1] = answered[0] /\ status[1] \in {32, 72, 112}
        /\ pc = 47 => status[1] = answered[1] /\ status[1] \in {33, 73, 113}
    BY DEF IInv, Success, Heard, Recalibrations
  <2> QED
    BY <1>2, <2>1, <2>2, <2>3, <2>4
<1>5. Kinds'
  <2>1. Kinds /\ pc' \in 1 .. 77
    BY <1>4 DEF IInv
  <2> QED
    BY <1>3, <2>1, KindsStill DEF Kinds
<1>6. Absent' /\ Waiting' /\ Quiet' /\ Woken'
  <2>1. pc \in {36, 47} /\ pc' \in {37, 48, 50}
    BY <1>4
  <2> QED
    BY <1>3, <2>1 DEF IInv, Absent, Waiting, Quiet, Woken, Waits, After
<1>8. Turn' /\ NoResults'
  <2>1. Turn'
    BY <1>3, <1>4, TurnStill DEF IInv, Waits, Within, Ins
  <2> QED
    BY <1>4, <2>1 DEF NoResults, Waits
<1>9. Sensing'
  BY <1>3, <1>4 DEF IInv, Sensing, Unsensed
<1>10. Success'
  BY <1>3, <1>4 DEF IInv, Success
<1>11. Motors' /\ Channel'
  BY <1>3, <1>4 DEF IInv, Motors, Channel
<1>12. Copied'
  BY <1>3, <1>4, CopiedStill DEF IInv, Still
<1> QED
  BY <1>5, <1>6, <1>8, <1>9, <1>10, <1>11, <1>12 DEF IInv

LEMMA ReturnStep == IInv /\ Return => IInv'
<1> SUFFICES ASSUME IInv, Return PROVE IInv'
  OBVIOUS
<1>1. Where
  BY Doings DEF IInv, Kinds
<1>2. pc = 49 /\ pc' = 50 /\ result' = "FDC_OK"
  BY <1>1 DEF Return, Where, Listing, Arg, I, Step, StepTo
<1>3. UNCHANGED <<fdc_intr, at, status, buf, frame, dma, phase, cmd, results, irq, unsensed, st0, dor,
                  issued, raisedFor, seenFor, answered, failed>>
  BY DEF Return, controller, history
<1>5. Kinds'
  <2>1. Kinds /\ pc' \in 1 .. 77
    BY <1>2 DEF IInv
  <2> QED
    BY <1>3, <2>1, KindsStill DEF Kinds
<1>6. Absent' /\ Waiting' /\ Quiet' /\ Woken'
  BY <1>2, <1>3 DEF IInv, Absent, Waiting, Quiet, Woken, Waits, After
<1>8. Turn' /\ NoResults'
  <2>1. Turn'
    BY <1>2, <1>3, TurnStill DEF IInv, Waits, Within, Ins
  <2> QED
    BY <1>2, <2>1 DEF NoResults, Waits
<1>9. Sensing'
  BY <1>2, <1>3 DEF IInv, Sensing, Unsensed
<1>10. Success'
  BY <1>2, <1>3 DEF IInv, Success
<1>11. Motors' /\ Channel'
  BY <1>2, <1>3 DEF IInv, Motors, Channel
<1>12. Copied'
  BY <1>2, <1>3, CopiedStill DEF IInv, Still
<1> QED
  BY <1>5, <1>6, <1>8, <1>9, <1>10, <1>11, <1>12 DEF IInv

LEMMA MotorStep == IInv /\ Motor => IInv'
<1> SUFFICES ASSUME IInv, Motor PROVE IInv'
  OBVIOUS
<1>1. Where
  BY Doings DEF IInv, Kinds
<1>2. /\ pc \in {27, 37, 38, 48, 55, 75} /\ pc' = pc + 1
      /\ pc = 27 /\ phase # "absent" => dor' = [drive |-> 0, on |-> TRUE]
      /\ pc \in {38, 55} /\ phase # "absent" => dor' = [drive |-> 1, on |-> TRUE]
  BY <1>1 DEF Motor, Where, Listing, Arg, Step, StepTo
<1>3. UNCHANGED <<fdc_intr, result, at, status, buf, frame, dma, phase, cmd, results, irq, unsensed, st0,
                  issued, raisedFor, seenFor, answered, failed>>
  BY DEF Motor, history
<1>5. Kinds'
  <2>1. Kinds /\ pc' \in 1 .. 77
    BY <1>2 DEF IInv
  <2> QED
    BY <1>3, <2>1, KindsStill DEF Kinds
<1>6. Absent' /\ Waiting' /\ Quiet' /\ Woken'
  BY <1>2, <1>3 DEF IInv, Absent, Waiting, Quiet, Woken, Waits, After
<1>8. Turn' /\ NoResults'
  <2>1. Turn'
    BY <1>2, <1>3, TurnStill DEF IInv, Waits, Within, Ins
  <2> QED
    BY <1>2, <2>1 DEF NoResults, Waits
<1>9. Sensing'
  BY <1>2, <1>3 DEF IInv, Sensing, Unsensed
<1>10. Success'
  BY <1>2, <1>3 DEF IInv, Success
<1>11. Motors' /\ Channel'
  BY <1>2, <1>3 DEF IInv, Motors, Channel
<1>12. Copied'
  BY <1>2, <1>3, CopiedStill DEF IInv, Still
<1> QED
  BY <1>5, <1>6, <1>8, <1>9, <1>10, <1>11, <1>12 DEF IInv

\* A byte to the address port, and to the count port.
LEMMA AddrByte ==
  ASSUME NEW f, DOMAIN f = {"flip", "addr", "count", "page"}, NEW i, NEW v,
         NEW g, g = [f EXCEPT !.addr[i] = v, !.flip = 3 - @]
  PROVE  /\ DOMAIN g = DOMAIN f /\ g.flip = 3 - f.flip
         /\ g.addr = [f.addr EXCEPT ![i] = v] /\ g.count = f.count /\ g.page = f.page
OBVIOUS

LEMMA CountByte ==
  ASSUME NEW f, DOMAIN f = {"flip", "addr", "count", "page"}, NEW i, NEW v,
         NEW g, g = [f EXCEPT !.count[i] = v, !.flip = 3 - @]
  PROVE  /\ DOMAIN g = DOMAIN f /\ g.flip = 3 - f.flip
         /\ g.count = [f.count EXCEPT ![i] = v] /\ g.addr = f.addr /\ g.page = f.page
OBVIOUS

LEMMA DmaStep == IInv /\ Dma => IInv'
<1> SUFFICES ASSUME IInv, Dma PROVE IInv'
  OBVIOUS
<1>1. Where
  BY Doings DEF IInv, Kinds
<1>2. pc \in 50 .. 54 /\ pc' = pc + 1
  BY <1>1 DEF Dma, Where, Step, StepTo
<1>3. UNCHANGED <<fdc_intr, result, at, status, buf, frame, phase, cmd, results, irq, unsensed, st0, dor,
                  issued, raisedFor, seenFor, answered, failed>>
  BY DEF Dma, controller, history
<1> PICK f : f = dma
  OBVIOUS
<1> PICK g : g = dma'
  OBVIOUS
<1>4. /\ DOMAIN g = DOMAIN f
      /\ pc = 50 => g.addr = [f.addr EXCEPT ![1] = Lo(Buffer)] /\ g.flip = 2
      /\ pc = 51 => g.addr = [f.addr EXCEPT ![2] = Hi(Buffer)] /\ g.flip = 1
      /\ pc \in 52 .. 54 => g.addr = f.addr
      /\ pc = 52 => g.count = [f.count EXCEPT ![1] = Lo(Size)] /\ g.flip = 2
      /\ pc = 53 => g.count = [f.count EXCEPT ![2] = Hi(Size)] /\ g.flip = 1
      /\ pc \in {50, 51, 54} => g.count = f.count
      /\ pc = 54 => g.page = 0 /\ g.flip = 1
  <2>1. /\ pc = 50 => Arg = Lo(Buffer)
        /\ pc = 51 => Arg = Hi(Buffer)
        /\ pc = 52 => Arg = Lo(Size)
        /\ pc = 53 => Arg = Hi(Size)
        /\ pc = 54 => Arg = 0
    BY <1>1 DEF Where, Listing, Arg, I
  <2>2. /\ f.flip = IF pc \in {51, 53} THEN 2 ELSE 1
        /\ DOMAIN f = {"flip", "addr", "count", "page"}
    BY DEF IInv, Channel
  <2> PICK v : v = Arg
    OBVIOUS
  <2>3. /\ pc \in {50, 51} => g = [f EXCEPT !.addr[f.flip] = v, !.flip = 3 - @]
        /\ pc \in {52, 53} => g = [f EXCEPT !.count[f.flip] = v, !.flip = 3 - @]
        /\ pc = 54 => g = [f EXCEPT !.page = v]
    BY <1>1 DEF Dma, Where
  <2>4. CASE pc \in {50, 51}
    <3>1. /\ DOMAIN g = DOMAIN f /\ g.flip = 3 - f.flip
          /\ g.addr = [f.addr EXCEPT ![f.flip] = v] /\ g.count = f.count
      BY <2>2, <2>3, <2>4, AddrByte
    <3> QED
      BY <2>1, <2>2, <2>4, <3>1
  <2>5. CASE pc \in {52, 53}
    <3>1. /\ DOMAIN g = DOMAIN f /\ g.flip = 3 - f.flip
          /\ g.count = [f.count EXCEPT ![f.flip] = v] /\ g.addr = f.addr
      BY <2>2, <2>3, <2>5, CountByte
    <3> QED
      BY <2>1, <2>2, <2>5, <3>1
  <2>6. CASE pc = 54
    BY <2>1, <2>2, <2>3, <2>6
  <2> QED
    BY <1>2, <2>4, <2>5, <2>6
<1>5. Kinds'
  <2>1. Kinds /\ pc' \in 1 .. 77
    BY <1>2 DEF IInv
  <2> QED
    BY <1>3, <2>1, KindsStill DEF Kinds
<1>6. Absent' /\ Waiting' /\ Quiet' /\ Woken'
  BY <1>2, <1>3 DEF IInv, Absent, Waiting, Quiet, Woken, Waits, After
<1>8. Turn' /\ NoResults'
  <2>1. Turn'
    BY <1>2, <1>3, TurnStill DEF IInv, Waits, Within, Ins
  <2> QED
    BY <1>2, <2>1 DEF NoResults, Waits
<1>9. Sensing'
  BY <1>2, <1>3 DEF IInv, Sensing, Unsensed
<1>10. Success'
  BY <1>2, <1>3 DEF IInv, Success
<1>11. Motors'
  BY <1>2, <1>3 DEF IInv, Motors
<1>12. Channel'
  <2>1. Channel
    BY DEF IInv
  <2>2. DOMAIN f.addr = 1 .. 2 /\ DOMAIN f.count = 1 .. 2
    BY <2>1 DEF Channel
  <2>3. /\ DOMAIN g.addr = 1 .. 2 /\ DOMAIN g.count = 1 .. 2
        /\ g.flip = IF pc' \in {51, 53} THEN 2 ELSE 1
    <3>1. CASE pc = 50
      BY <1>2, <1>4, <2>2, <3>1
    <3>2. CASE pc = 51
      BY <1>2, <1>4, <2>2, <3>2
    <3>3. CASE pc = 52
      BY <1>2, <1>4, <2>2, <3>3
    <3>4. CASE pc = 53
      BY <1>2, <1>4, <2>2, <3>4
    <3>5. CASE pc = 54
      BY <1>2, <1>4, <2>2, <3>5
    <3> QED
      BY <1>2, <3>1, <3>2, <3>3, <3>4, <3>5
  <2>4. /\ pc = 50 => g.addr[1] = Lo(Buffer)
        /\ pc = 51 => g.addr[1] = f.addr[1] /\ g.addr[2] = Hi(Buffer)
        /\ pc = 52 => g.count[1] = Lo(Size)
        /\ pc = 53 => g.count[1] = f.count[1] /\ g.count[2] = Hi(Size)
    BY <1>4, <2>2
  <2> QED
    BY <1>2, <1>4, <2>1, <2>3, <2>4 DEF Channel
<1>13. Copied'
  BY <1>2, <1>3, CopiedStill DEF IInv, Still
<1> QED
  BY <1>5, <1>6, <1>8, <1>9, <1>10, <1>11, <1>12, <1>13 DEF IInv

LEMMA ResetStep == IInv /\ Reset => IInv'
<1> SUFFICES ASSUME IInv, Reset PROVE IInv'
  OBVIOUS
<1>1. Where
  BY Doings DEF IInv, Kinds
<1>2. /\ pc = 3 /\ pc' = 4 /\ phase # "absent" /\ ~fdc_intr
      /\ phase' = "executing" /\ cmd' = <<"reset">> /\ results' = <<>>
      /\ irq' = FALSE /\ unsensed' = 0 /\ st0' = 0
  <2>1. pc = 3 /\ pc' = 4 /\ phase' = "executing" /\ cmd' = <<"reset">> /\ results' = <<>>
    BY <1>1 DEF Reset, Where, Step, StepTo
  <2>2. phase # "absent" /\ ~fdc_intr
    BY <2>1 DEF IInv, Absent, Quiet, Waits, After
  <2> QED
    BY <2>1, <2>2 DEF Reset
<1>3. UNCHANGED <<fdc_intr, result, at, status, buf, frame, dma, raisedFor, seenFor, answered, failed>>
  BY DEF Reset
<1>4. Kinds'
  <2>0. <<>> \in Seq(Nat)
    OBVIOUS
  <2>1. Kinds /\ pc' \in 1 .. 77
    BY <1>2 DEF IInv
  <2>2. irq' \in BOOLEAN
    BY <1>2
  <2>3. results' \in Seq(Nat)
    BY <1>2, <2>0
  <2> QED
    BY <1>2, <1>3, <2>1, <2>2, <2>3, KindsStill DEF Kinds
<1>5. Absent' /\ Waiting' /\ Quiet' /\ Woken'
  BY <1>2, <1>3 DEF Absent, Waiting, Quiet, Woken, Waits, After
<1>6. Turn' /\ NoResults'
  BY <1>2 DEF Turn, NoResults, Waits
<1>7. Sensing'
  BY <1>2, <1>3 DEF Sensing
<1>8. Success' /\ Motors' /\ Channel'
  BY <1>2, <1>3 DEF IInv, Success, Motors, Channel
<1>9. Copied'
  BY <1>2, <1>3 DEF IInv, Copied, Image
<1> QED
  BY <1>4, <1>5, <1>6, <1>7, <1>8, <1>9 DEF IInv

LEMMA LeftNext ==
  ASSUME NEW p \in Ins
  PROVE  /\ Left(p) \in 1 .. 7 /\ Left(p + 1) = Left(p) - 1
         /\ p \notin Waits \cup After \cup Within \cup {1, 2} \cup 50 .. 66
         /\ p + 1 \notin Waits \cup After \cup Within
         /\ p \in 1 .. 77 /\ p + 1 \in 1 .. 77
         /\ p + 1 \notin {31, 32, 33, 42, 43, 44} /\ Unsensed(p + 1) = Unsensed(p)
BY DEF Left, Ins, Waits, After, Within, Unsensed

LEMMA ReadStep == IInv /\ Read => IInv'
<1> SUFFICES ASSUME IInv, Read PROVE IInv'
  OBVIOUS
<1>1. Where
  BY Doings DEF IInv, Kinds
<1> PICK p : p = pc
  OBVIOUS
<1>2. p \in Ins /\ pc' = p + 1
  BY <1>1 DEF Read, Where, Step, StepTo
<1>3. /\ Left(p) \in 1 .. 7 /\ Left(p + 1) = Left(p) - 1
      /\ p \notin Waits \cup After \cup Within \cup {1, 2} \cup 50 .. 66
      /\ p + 1 \notin Waits \cup After \cup Within
      /\ p \in 1 .. 77 /\ p + 1 \in 1 .. 77
      /\ p + 1 \notin {31, 32, 33, 42, 43, 44} /\ Unsensed(p + 1) = Unsensed(p)
  BY <1>2, LeftNext
<1>4. UNCHANGED <<fdc_intr, result, at, buf, frame, dma, cmd, irq, unsensed, st0, dor,
                  issued, raisedFor, seenFor, answered, failed>>
  BY DEF Read, history
<1>5. /\ phase = "result" /\ Len(results) = Left(p) /\ cmd = <<>>
      /\ results \in Seq(Nat) /\ results # <<>>
  <2>1. phase # "absent"
    BY <1>3 DEF IInv, Absent
  <2>2. phase = "result" /\ Len(results) = Left(p) /\ cmd = Sent(Program, Start(p), p)
    BY <1>3, <2>1 DEF IInv, Turn
  <2>3. Sent(Program, Start(p), p) = <<>>
    BY <1>3, Fresh
  <2>4. results # <<>>
    BY <1>3, <2>2
  <2> QED
    BY <2>2, <2>3, <2>4 DEF IInv, Kinds
<1>6. /\ results' = Tail(results) /\ results' \in Seq(Nat) /\ Len(results') = Left(p + 1)
      /\ phase' = IF Left(p + 1) > 0 THEN "result" ELSE "command"
  <2>1. results' = Tail(results) /\ phase' = IF Len(results) = 1 THEN "command" ELSE phase
    BY <1>5 DEF Read
  <2>2. Tail(results) \in Seq(Nat) /\ Len(Tail(results)) = Left(p) - 1
    BY <1>5
  <2> QED
    BY <1>3, <1>5, <2>1, <2>2
<1>7. status' = [status EXCEPT ![Arg] = results[1]]
  BY <1>5 DEF Read
<1>8. Kinds'
  <2>1. Kinds /\ pc' \in 1 .. 77 /\ DOMAIN status' = 1 .. 7
    BY <1>2, <1>3, <1>7 DEF IInv, Kinds
  <2> QED
    BY <1>4, <1>6, <2>1, KindsStill DEF Kinds
<1>9. Absent' /\ Waiting' /\ Quiet' /\ Woken'
  <2>1. phase' \in {"result", "command"}
    BY <1>6
  <2>2. ~irq /\ ~fdc_intr
    BY <1>3 DEF IInv, Quiet
  <2> QED
    BY <1>2, <1>3, <1>4, <2>1, <2>2 DEF Absent, Waiting, Quiet, Woken
<1>10. Turn' /\ NoResults'
  <2>1. Sent(Program', Start(p + 1), p + 1) = <<>>
    BY <1>3, Fresh
  <2>2. p + 1 \notin Waits \ {66}
    BY <1>3
  <2> QED
    BY <1>2, <1>3, <1>4, <1>5, <1>6, <2>1, <2>2 DEF Turn, NoResults
<1>11. Sensing'
  <2>1. p \notin {4, 31, 32, 33, 42, 43, 44} /\ p + 1 # 4
    BY <1>2, <1>3 DEF Waits, Ins
  <2> QED
    BY <1>2, <1>3, <1>4, <2>1 DEF IInv, Sensing
<1>12. Success'
  <2>1. /\ p \in {34, 45} => Arg = 1
        /\ p \in {35, 46} => Arg = 2
    BY <1>1 DEF Where, Listing, Arg
  <2>2. /\ p \in {34, 45} => status'[1] = results[1]
        /\ p \in {35, 46} => status'[1] = status[1]
    BY <1>7, <2>1 DEF IInv, Kinds
  <2>3. p + 1 \notin {34, 37, 45, 48, 38, 39, 40, 41, 42, 43, 44, 49}
    BY <1>2 DEF Ins
  <2>4. p \in 50 .. 77 \/ p + 1 \in 1 .. 33 \/ p \in {34, 35, 45, 46}
    BY <1>2 DEF Ins
  <2>5. /\ p = 34 => Heard(0) /\ results[1] = answered[0]
        /\ p = 35 => Heard(0) /\ status[1] = answered[0]
        /\ p = 45 => Heard(1) /\ results[1] = answered[1]
        /\ p = 46 => Heard(1) /\ status[1] = answered[1]
        /\ p <= 49 => result # "FDC_OK"
        /\ p \in {45, 46} => answered[0] \in {32, 112}
        /\ result = "FDC_OK" => answered[0] \in {32, 112} /\ answered[1] \in {33, 113}
    BY DEF IInv, Success
  <2>6. (Heard(0)' <=> Heard(0)) /\ (Heard(1)' <=> Heard(1))
    BY <1>4 DEF Heard
  <2>7. CASE p \in {34, 35, 45, 46}
    BY <1>2, <1>4, <2>2, <2>5, <2>6, <2>7 DEF Success
  <2>8. CASE p \in 50 .. 77 \/ p + 1 \in 1 .. 33
    <3>1. pc' \notin 34 .. 49
      BY <1>2, <1>3, <2>8
    <3>2. pc' <= 49 => p <= 49
      BY <1>2, <1>3
    <3> QED
      BY <1>4, <2>5, <3>1, <3>2 DEF Success
  <2> QED
    BY <2>4, <2>7, <2>8
<1>13. Motors' /\ Channel'
  BY <1>2, <1>4 DEF IInv, Motors, Channel, Ins, Absent
<1>14. Copied'
  BY <1>2, <1>4 DEF IInv, Copied, Ins, Image, InFrame
<1> QED
  BY <1>8, <1>9, <1>10, <1>11, <1>12, <1>13, <1>14 DEF IInv

LEMMA Int26Step == IInv /\ Int26 => IInv'
<1> SUFFICES ASSUME IInv, Int26 PROVE IInv'
  OBVIOUS
<1>1. /\ irq /\ ~irq' /\ fdc_intr' = TRUE /\ seenFor' = raisedFor
      /\ UNCHANGED <<pc, result, at, status, buf, frame, dma, phase, cmd, results, unsensed, st0, dor,
                     issued, raisedFor, answered, failed>>
  BY DEF Int26
<1>2. /\ pc \in Waits /\ phase # "absent" /\ Ended(pc) /\ raisedFor = issued /\ ~fdc_intr
      /\ phase # "executing"
  BY <1>1 DEF IInv, Absent, Waiting, Woken, Quiet, Ended
<1>3. Program' = Program
  BY <1>1, SameProgram
<1>4. Kinds'
  BY <1>1, KindsStill DEF IInv, Kinds, Int26
<1>5. Absent' /\ Quiet' /\ Woken'
  BY <1>1, <1>2 DEF Absent, Quiet, Woken, Waits, After
<1>6. Waiting'
  BY <1>1, <1>2 DEF Waiting, Ended, Answer, InFrame
<1>7. Turn' /\ NoResults'
  BY <1>1, <1>2 DEF IInv, Turn, NoResults
<1>8. Sensing'
  BY <1>1, <1>2 DEF IInv, Sensing, Waits
<1>9. Success' /\ Motors' /\ Channel'
  BY <1>1 DEF IInv, Success, Motors, Channel, Heard
<1>10. Copied'
  BY <1>1 DEF IInv, Copied, Image, InFrame
<1> QED
  BY <1>4, <1>5, <1>6, <1>7, <1>8, <1>9, <1>10 DEF IInv

\* What a byte does, by its place in its command.
Senses == {6, 9, 12, 15, 33, 44}
Begins == {19, 20, 23, 24, 25, 29, 40} \cup 57 .. 64
Sets   == {21, 26}
Starts == {30, 41, 65}

LEMMA Lengths ==
  /\ CommandLength("sense") = 1 /\ CommandLength("recalibrate") = 2
  /\ CommandLength("specify") = 3 /\ CommandLength("configure") = 4
  /\ CommandLength("read") = 9
<1>1. CommandLength("sense") = 1
  BY DEF CommandLength
<1>2. CommandLength("recalibrate") = 2
  BY DEF CommandLength
<1>3. CommandLength("specify") = 3
  BY DEF CommandLength
<1>4. CommandLength("configure") = 4
  BY DEF CommandLength
<1>5. CommandLength("read") = 9
  BY DEF CommandLength
<1> QED
  BY <1>1, <1>2, <1>3, <1>4, <1>5

LEMMA StartOf ==
  ASSUME NEW P, NEW q, Listing(P, q), NEW p \in Outs
  PROVE  /\ Start(p) \in 1 .. p /\ Left(p) = 0 /\ p \in 1 .. 77
         /\ p \notin Waits \cup After \cup {1, 2, 3, 56}
         /\ p \in Senses => Start(p) = p /\ P[Start(p)].arg = "sense"
         /\ p \in Begins => /\ Start(p + 1) = Start(p)
                            /\ p + 1 - Start(p) < CommandLength(P[Start(p)].arg)
         /\ p \in Sets => /\ p + 1 - Start(p) = CommandLength(P[Start(p)].arg)
                          /\ P[Start(p)].arg \in {"specify", "configure"}
         /\ p \in Starts => /\ Start(p + 1) = Start(p)
                            /\ p + 1 - Start(p) = CommandLength(P[Start(p)].arg)
                            /\ P[Start(p)].arg \in {"recalibrate", "read"}
         /\ p \in Senses \cup Begins \cup Sets \cup Starts
<1>1. /\ Start(p) \in 1 .. p /\ Left(p) = 0 /\ p \in 1 .. 77
      /\ p \notin Waits \cup After \cup {1, 2, 3, 56}
  BY DEF Start, Left, Ins, Outs, Waits, After
<1>2. p \in Senses => Start(p) = p /\ P[Start(p)].arg = "sense"
  BY DEF Senses, Start, Listing
<1>3. /\ P[19].arg = "specify" /\ P[23].arg = "configure" /\ P[57].arg = "read"
      /\ P[29].arg = "recalibrate" /\ P[40].arg = "recalibrate"
  BY DEF Listing
<1>4. ASSUME p \in Begins
      PROVE  Start(p + 1) = Start(p) /\ p + 1 - Start(p) < CommandLength(P[Start(p)].arg)
  <2>1. CASE p \in {19, 20}
    BY <1>3, <2>1, Lengths DEF Start
  <2>2. CASE p \in 23 .. 25
    BY <1>3, <2>2, Lengths DEF Start
  <2>3. CASE p = 29
    BY <1>3, <2>3, Lengths DEF Start
  <2>4. CASE p = 40
    BY <1>3, <2>4, Lengths DEF Start
  <2>5. CASE p \in 57 .. 64
    BY <1>3, <2>5, Lengths DEF Start
  <2> QED
    BY <1>4, <2>1, <2>2, <2>3, <2>4, <2>5 DEF Begins
<1>5. ASSUME p \in Sets
      PROVE  /\ p + 1 - Start(p) = CommandLength(P[Start(p)].arg)
             /\ P[Start(p)].arg \in {"specify", "configure"}
  <2>1. CASE p = 21
    BY <1>3, <2>1, Lengths DEF Start
  <2>2. CASE p = 26
    BY <1>3, <2>2, Lengths DEF Start
  <2> QED
    BY <1>5, <2>1, <2>2 DEF Sets
<1>6. ASSUME p \in Starts
      PROVE  /\ Start(p + 1) = Start(p)
             /\ p + 1 - Start(p) = CommandLength(P[Start(p)].arg)
             /\ P[Start(p)].arg \in {"recalibrate", "read"}
  <2>1. CASE p = 30
    BY <1>3, <2>1, Lengths DEF Start
  <2>2. CASE p = 41
    BY <1>3, <2>2, Lengths DEF Start
  <2>3. CASE p = 65
    BY <1>3, <2>3, Lengths DEF Start
  <2> QED
    BY <1>6, <2>1, <2>2, <2>3 DEF Starts
<1>7. p \in Senses \cup Begins \cup Sets \cup Starts
  BY DEF Outs, Senses, Begins, Sets, Starts
<1> QED
  BY <1>1, <1>2, <1>4, <1>5, <1>6, <1>7

LEMMA SentFirst ==
  ASSUME NEW P, NEW a \in Nat, NEW b \in Nat, a < b
  PROVE  Sent(P, a, b)[1] = P[a].arg
<1>1. 1 \in 1 .. b - a /\ a = a + 1 - 1
  OBVIOUS
<1> QED
  BY <1>1, SentByte

SentTo(P, a, p, k) == k = Sent(P, a, p + 1) /\ Len(k) = (p + 1) - a /\ k[1] = P[a].arg
LEMMA Sending ==
  ASSUME NEW P, NEW a \in Nat, NEW p \in Nat, a <= p,
         NEW k, k = Append(Sent(P, a, p), P[p].arg)
  PROVE  SentTo(P, a, p, k)
<1>1. p + 1 \in Nat /\ a <= p + 1 /\ a < p + 1
  OBVIOUS
<1>2. k = Sent(P, a, p + 1)
  BY SentNext
<1>3. Len(k) = (p + 1) - a
  BY <1>1, <1>2, SentNext
<1>4. k[1] = P[a].arg
  BY <1>1, <1>2, SentFirst
<1> QED
  BY <1>2, <1>3, <1>4 DEF SentTo

SenseSent == /\ pc \in Senses
             /\ phase' = "result" /\ results' = Sensed /\ cmd' = <<>>
             /\ unsensed' = IF unsensed > 0 THEN unsensed - 1 ELSE 0
             /\ st0' = IF unsensed > 0 THEN st0 ELSE 0
ByteSent  == /\ pc \in Begins
             /\ cmd' = Sent(Program, Start(pc + 1), pc + 1)
             /\ UNCHANGED <<phase, results, unsensed, st0>>
SetSent   == /\ pc \in Sets
             /\ cmd' = <<>>
             /\ UNCHANGED <<phase, results, unsensed, st0>>
Started   == /\ pc \in Starts
             /\ phase' = "executing" /\ cmd' = Sent(Program, Start(pc + 1), pc + 1)
             /\ UNCHANGED <<results, unsensed, st0>>

LEMMA WriteOutcome ==
  ASSUME IInv, Write, phase # "absent"
  PROVE  phase = "command" /\ (SenseSent \/ ByteSent \/ SetSent \/ Started)
<1>1. Where
  BY Doings DEF IInv, Kinds
<1> PICK p : p = pc
  OBVIOUS
<1> PICK P : P = Program
  OBVIOUS
<1> PICK q : q = at
  OBVIOUS
<1>2. p \in Outs /\ Listing(P, q)
  BY <1>1 DEF Write, Where
<1> PICK a : a = Start(p)
  OBVIOUS
<1> PICK name : name = P[a].arg
  OBVIOUS
<1>3. /\ a \in 1 .. p /\ Left(p) = 0 /\ p \in 1 .. 77 /\ p \notin Waits
      /\ p \in Senses => a = p /\ name = "sense"
      /\ p \in Begins => Start(p + 1) = a /\ p + 1 - a < CommandLength(name)
      /\ p \in Sets => p + 1 - a = CommandLength(name) /\ name \in {"specify", "configure"}
      /\ p \in Starts => /\ Start(p + 1) = a
                         /\ p + 1 - a = CommandLength(name) /\ name \in {"recalibrate", "read"}
      /\ p \in Senses \cup Begins \cup Sets \cup Starts
  BY <1>2, StartOf
<1>4. phase = "command" /\ cmd = Sent(P, a, p)
  BY <1>3 DEF IInv, Turn
<1>5. PICK k : k = Append(cmd, Arg)
  OBVIOUS
<1>6. PICK n : n = Len(k)
  OBVIOUS
<1>7. k = Sent(P, a, p + 1) /\ n = (p + 1) - a /\ k[1] = name
  <2>1. a \in Nat /\ p \in Nat /\ a <= p
    BY <1>3
  <2>2. Arg = P[p].arg
    BY DEF Arg
  <2>3. k = Append(Sent(P, a, p), P[p].arg)
    BY <1>4, <1>5, <2>2
  <2>4. k = Sent(P, a, p + 1) /\ Len(k) = (p + 1) - a /\ k[1] = P[a].arg
    <3>1. SentTo(P, a, p, k)
      BY <2>1, <2>3, Sending
    <3> QED
      BY <3>1 DEF SentTo
  <2> QED
    BY <1>6, <2>4
<1>8. \/ n = CommandLength(name) /\ Accept(k)
      \/ /\ n < CommandLength(name)
         /\ cmd' = k
         /\ UNCHANGED <<phase, results, unsensed, st0, issued>>
  <2>1. \/ Len(k) = CommandLength(k[1]) /\ Accept(k)
        \/ /\ Len(k) < CommandLength(k[1])
           /\ cmd' = k
           /\ UNCHANGED <<phase, results, unsensed, st0, issued>>
    BY <1>4, <1>5 DEF Write, Ready
  <2> QED
    BY <1>6, <1>7, <2>1
<1>9. n = p + 1 - a /\ a \in 1 .. p /\ p \in 1 .. 77 /\ k[1] = name
  BY <1>3, <1>7
<1>10. CASE p \in Senses
  <2>1. n = 1 /\ name = "sense"
    BY <1>3, <1>9, <1>10
  <2>2. Accept(k) /\ k[1] = "sense"
    BY <1>8, <1>9, <2>1, Lengths
  <2>3. /\ phase' = "result" /\ results' = Sensed /\ cmd' = <<>>
        /\ unsensed' = IF unsensed > 0 THEN unsensed - 1 ELSE 0
        /\ st0' = IF unsensed > 0 THEN st0 ELSE 0
    BY <2>2 DEF Accept
  <2> QED
    BY <1>4, <1>10, <2>3 DEF SenseSent
<1>11. CASE p \in Begins
  <2>1. n < CommandLength(name) /\ n # CommandLength(name)
    <3>1. name \in {"sense", "recalibrate", "specify", "configure", "read"}
      BY <1>2, <1>11 DEF Listing, Start, Begins
    <3>2. CommandLength(name) \in Nat
      BY <3>1, Lengths
    <3> QED
      BY <1>3, <1>9, <1>11, <3>2
  <2> QED
    BY <1>3, <1>4, <1>7, <1>8, <1>11, <2>1 DEF ByteSent
<1>12. CASE p \in Sets
  <2>1. Accept(k) /\ k[1] \in {"specify", "configure"}
    BY <1>3, <1>9, <1>8, <1>12, Lengths
  <2>2. cmd' = <<>> /\ UNCHANGED <<phase, results, unsensed, st0>>
    BY <2>1 DEF Accept
  <2> QED
    BY <1>4, <1>12, <2>2 DEF SetSent
<1>13. CASE p \in Starts
  <2>1. Accept(k) /\ k[1] \in {"recalibrate", "read"}
    BY <1>3, <1>9, <1>8, <1>13, Lengths
  <2>2. phase' = "executing" /\ cmd' = k /\ UNCHANGED <<results, unsensed, st0>>
    BY <2>1 DEF Accept
  <2> QED
    BY <1>3, <1>4, <1>7, <1>13, <2>2 DEF Started
<1> QED
  BY <1>3, <1>10, <1>11, <1>12, <1>13

\* What a written byte does not touch.
Kept == UNCHANGED <<fdc_intr, result, at, status, buf, frame, dma, irq, dor, raisedFor, seenFor,
                    answered, failed>>

LEMMA WriteRest ==
  ASSUME IInv, Kept, NEW p \in Outs, p = pc, pc' = p + 1,
         phase = "absent" => phase' = "absent"
  PROVE  Motors' /\ Channel' /\ Copied'
<1>1. Motors'
  BY DEF IInv, Kept, Motors, Outs
<1>2. Channel'
  <2>1. /\ p \in 1 .. 49 \/ p \in 57 .. 65
        /\ pc' \notin 50 .. 55 /\ p \notin 50 .. 55
    BY DEF Outs
  <2>2. Channel
    BY DEF IInv
  <2> QED
    BY <2>1, <2>2 DEF Kept, Channel
<1>3. Copied'
  <2>1. pc' # 77 /\ p # 77 /\ (pc' <= 49 <=> p <= 49) /\ pc' \notin 67 .. 76
    BY DEF Outs
  <2> QED
    BY <2>1 DEF IInv, Copied, Kept, Image
<1> QED
  BY <1>1, <1>2, <1>3

LEMMA SensedIs ==
  /\ unsensed \in 1 .. 4 => Sensed = <<192 + (4 - unsensed), 0>>
  /\ unsensed = 0 /\ st0 \in Nat /\ st0 # 0 => Sensed = <<st0, 0>>
BY DEF Sensed

LEMMA WriteStep == IInv /\ Write => IInv'
<1> SUFFICES ASSUME IInv, Write PROVE IInv'
  OBVIOUS
<1>1. Where
  BY Doings DEF IInv, Kinds
<1> PICK p : p = pc
  OBVIOUS
<1>2. p \in Outs /\ pc' = p + 1 /\ Kept
  BY <1>1 DEF Write, Where, Step, StepTo, Kept
<1>3. /\ p \notin Waits \cup After \cup {1, 2, 3, 56} /\ p \in 1 .. 77 /\ p + 1 \in 1 .. 77
      /\ p + 1 \notin After
  BY <1>2 DEF Outs, Waits, After
<1>4. ~irq /\ ~fdc_intr /\ phase # "executing"
  BY <1>3 DEF IInv, Quiet
<1>5. Program' = Program
  BY <1>2, SameProgram DEF Kept
<1>6. Woken'
  BY <1>2, <1>3 DEF Woken
<1>7. ASSUME phase = "absent" => phase' = "absent"
      PROVE  Motors' /\ Channel' /\ Copied'
  BY <1>2, <1>7, WriteRest
<1>8. ASSUME phase' \in {"absent", "command", "executing", "result"}, results' \in Seq(Nat)
      PROVE  Kinds'
  <2>1. Kinds /\ pc' \in 1 .. 77
    BY <1>2, <1>3 DEF IInv
  <2> QED
    BY <1>2, <1>8, <2>1, KindsStill DEF Kinds, Kept
<1>9. CASE phase = "absent"
  <2>1. UNCHANGED <<phase, results, unsensed, st0, cmd, issued>>
    BY <1>9 DEF Write, Ready
  <2>2. p \in 57 .. 65 /\ results = <<>>
    BY <1>2, <1>9 DEF IInv, Absent, Outs
  <2>3. Kinds' /\ Motors' /\ Channel' /\ Copied'
    BY <1>7, <1>8, <1>9, <2>1 DEF IInv, Kinds
  <2>4. Absent' /\ Waiting' /\ Quiet' /\ Turn' /\ NoResults'
    BY <1>2, <1>4, <1>9, <2>1, <2>2 DEF Absent, Waiting, Quiet, Turn, NoResults, Kept
  <2>5. Sensing'
    BY <1>2, <2>1, <2>2 DEF IInv, Sensing, Unsensed, Kept
  <2>6. Success'
    BY <1>2, <2>2 DEF IInv, Success, Kept
  <2> QED
    BY <1>6, <2>3, <2>4, <2>5, <2>6 DEF IInv
<1>10. CASE phase # "absent"
  <2>1. phase = "command" /\ (SenseSent \/ ByteSent \/ SetSent \/ Started)
    BY <1>10, WriteOutcome
  <2>2. Len(results) = 0 /\ results = <<>>
    <3>1. Left(p) = 0
      BY <1>2 DEF Left, Outs, Ins
    <3> QED
      BY <1>3, <1>10, <3>1 DEF IInv, Turn, Kinds
  <2>3. CASE SenseSent
    <3>1. /\ p \in Senses /\ phase' = "result" /\ results' = Sensed /\ cmd' = <<>>
          /\ unsensed' = IF unsensed > 0 THEN unsensed - 1 ELSE 0
          /\ st0' = IF unsensed > 0 THEN st0 ELSE 0
      BY <2>3 DEF SenseSent
    <3>2. /\ p \in {6, 9, 12, 15} => unsensed \in 1 .. 4 /\ unsensed = Unsensed(p) /\ st0 = 0
          /\ p \in {33, 44} => unsensed = 0
          /\ p = 33 => Answer(0)
          /\ p = 44 => Answer(1)
      BY <3>1 DEF IInv, Sensing, Unsensed, Senses
    <3>3. /\ p = 33 => st0 \in 32 .. 112 /\ st0 = answered[0] /\ Heard(0)
          /\ p = 44 => st0 \in 32 .. 113 /\ st0 = answered[1] /\ Heard(1)
      BY <3>2 DEF Answer, Heard, Recalibrations
    <3>4. /\ results' \in Seq(Nat) /\ Len(results') = 2
          /\ p = 33 => results'[1] = answered[0]
          /\ p = 44 => results'[1] = answered[1]
      <4>1. CASE p \in {6, 9, 12, 15}
        <5> PICK u \in 1 .. 4 : u = unsensed
          BY <3>2, <4>1
        <5>1. results' = <<192 + (4 - u), 0>>
          BY <3>1, SensedIs
        <5>2. 192 + (4 - u) \in Nat
          OBVIOUS
        <5> QED
          BY <4>1, <5>1, <5>2
      <4>2. CASE p \in {33, 44}
        <5> PICK x \in Nat : x = st0 /\ x # 0
          BY <3>3, <4>2
        <5>1. results' = <<x, 0>>
          BY <3>1, <3>2, <4>2, SensedIs
        <5> QED
          BY <3>3, <4>2, <5>1
      <4> QED
        BY <3>1, <4>1, <4>2 DEF Senses
    <3>5. Kinds' /\ Motors' /\ Channel' /\ Copied'
      BY <1>7, <1>8, <1>10, <3>1, <3>4
    <3>6. Absent' /\ Waiting' /\ Quiet' /\ NoResults'
      BY <1>2, <1>4, <3>1 DEF Absent, Waiting, Quiet, NoResults, Kept, Waits, Senses
    <3>7. Turn'
      <4>1. Left(p + 1) = 2 /\ p + 1 \notin Within /\ p + 1 \in Nat
        BY <3>1 DEF Left, Ins, Within, Senses
      <4>2. Sent(Program', Start(p + 1), p + 1) = <<>>
        BY <4>1, Fresh
      <4> QED
        BY <1>2, <3>1, <3>4, <4>1, <4>2 DEF Turn
    <3>8. Sensing'
      <4>1. st0' = 0 /\ unsensed' = Unsensed(p + 1)
        BY <3>1, <3>2 DEF Senses, Unsensed
      <4>2. p + 1 \notin {33, 44}
        BY <3>1 DEF Senses
      <4> QED
        BY <1>2, <4>1, <4>2 DEF Sensing
    <3>9. Success'
      <4>1. /\ p = 33 => Heard(0)' /\ results'[1] = answered'[0]
            /\ p = 44 => Heard(1)' /\ results'[1] = answered'[1]
        BY <1>2, <3>3, <3>4 DEF Heard, Kept
      <4>2. Success
        BY DEF IInv
      <4>3. /\ p <= 49 /\ result' # "FDC_OK"
            /\ p = 44 => answered'[0] \in {32, 112}
        BY <1>2, <3>1, <4>2 DEF Senses, Success, Kept
      <4> QED
        BY <1>2, <3>1, <4>1, <4>3 DEF Senses, Success
    <3> QED
      BY <1>6, <3>5, <3>6, <3>7, <3>8, <3>9 DEF IInv
  <2>4. CASE ByteSent
    <3>1. /\ p \in Begins /\ cmd' = Sent(Program, Start(p + 1), p + 1)
          /\ UNCHANGED <<phase, results, unsensed, st0>>
      BY <2>4 DEF ByteSent
    <3>2. Kinds' /\ Motors' /\ Channel' /\ Copied'
      BY <1>7, <1>8, <1>10, <3>1 DEF IInv, Kinds
    <3>3. Absent' /\ Waiting' /\ Quiet' /\ NoResults'
      BY <1>2, <1>4, <2>1, <3>1 DEF Absent, Waiting, Quiet, NoResults, Kept, Waits, Begins
    <3>4. Turn'
      <4>1. Left(p + 1) = 0
        BY <3>1 DEF Left, Ins, Begins
      <4> QED
        BY <1>2, <1>5, <2>1, <2>2, <3>1, <4>1 DEF Turn
    <3>5. Sensing'
      BY <1>2, <3>1 DEF IInv, Sensing, Begins, Unsensed
    <3>6. Success'
      BY <1>2, <3>1 DEF IInv, Success, Begins, Kept
    <3> QED
      BY <1>6, <3>2, <3>3, <3>4, <3>5, <3>6 DEF IInv
  <2>5. CASE SetSent
    <3>1. p \in Sets /\ cmd' = <<>> /\ UNCHANGED <<phase, results, unsensed, st0>>
      BY <2>5 DEF SetSent
    <3>2. Kinds' /\ Motors' /\ Channel' /\ Copied'
      BY <1>7, <1>8, <1>10, <3>1 DEF IInv, Kinds
    <3>3. Absent' /\ Waiting' /\ Quiet' /\ NoResults'
      BY <1>2, <1>4, <2>1, <3>1 DEF Absent, Waiting, Quiet, NoResults, Kept, Waits, Sets
    <3>4. Turn'
      <4>1. Left(p + 1) = 0 /\ p + 1 \notin Within /\ p + 1 \in Nat
        BY <3>1 DEF Left, Ins, Within, Sets
      <4>2. Sent(Program', Start(p + 1), p + 1) = <<>>
        BY <4>1, Fresh
      <4> QED
        BY <1>2, <2>1, <2>2, <3>1, <4>1, <4>2 DEF Turn
    <3>5. Sensing'
      BY <1>2, <3>1 DEF IInv, Sensing, Sets, Unsensed
    <3>6. Success'
      BY <1>2, <3>1 DEF IInv, Success, Sets, Kept
    <3> QED
      BY <1>6, <3>2, <3>3, <3>4, <3>5, <3>6 DEF IInv
  <2>6. CASE Started
    <3>1. /\ p \in Starts /\ phase' = "executing"
          /\ cmd' = Sent(Program, Start(p + 1), p + 1)
          /\ UNCHANGED <<results, unsensed, st0>>
      BY <2>6 DEF Started
    <3>2. Kinds' /\ Motors' /\ Channel' /\ Copied'
      BY <1>7, <1>8, <1>10, <3>1 DEF IInv, Kinds
    <3>3. p + 1 \in Waits \ {4}
      BY <3>1 DEF Starts, Waits
    <3>4. Absent' /\ Waiting' /\ Quiet' /\ NoResults' /\ Turn'
      BY <1>2, <1>4, <1>5, <2>2, <3>1, <3>3 DEF Absent, Waiting, Quiet, NoResults, Turn, Kept
    <3>5. Sensing'
      BY <1>2, <3>1 DEF IInv, Sensing, Starts, Unsensed
    <3>6. Success'
      BY <1>2, <3>1 DEF IInv, Success, Starts, Kept
    <3> QED
      BY <1>6, <3>2, <3>4, <3>5, <3>6 DEF IInv
  <2> QED
    BY <2>1, <2>3, <2>4, <2>5, <2>6
<1> QED
  BY <1>9, <1>10

\* The end of the command that is waited for.
ResetEnds ==
  /\ pc = 4 /\ unsensed' = 4 /\ phase' = "command"
  /\ UNCHANGED <<results, st0, frame, answered, failed>>
RecalibrateEnds(d) ==
  /\ pc = 31 + 11 * d /\ phase' = "command"
  /\ st0' \in {o + d : o \in Recalibrations} /\ answered' = [answered EXCEPT ![d] = st0']
  /\ UNCHANGED <<results, unsensed, frame, failed>>
ReadEnds ==
  /\ pc = 66 /\ phase' = "result" /\ results' = <<1, 0, 0, at.c, at.h, at.s, 2>>
  /\ \/ (LowBuffer => frame' = at) /\ failed' = failed
     \/ frame' = frame /\ failed' = failed \cup {at}
  /\ UNCHANGED <<unsensed, st0, answered>>

\* The channel is set up for the buffer.
LEMMA LandedAt ==
  ASSUME IInv, LowBuffer, pc = 66, NEW k, k[3] = at.c, k[4] = at.h, k[5] = at.s
  PROVE  Landed(k) = at
<1>1. /\ dma.addr[1] = Lo(Buffer) /\ dma.addr[2] = Hi(Buffer)
      /\ dma.count[1] = Lo(Size) /\ dma.count[2] = Hi(Size) /\ dma.page = 0
  BY DEF IInv, Channel
<1>2. ASSUME NEW x \in Nat PROVE Hi(x) * 256 + Lo(x) = x
  BY DEF Hi, Lo
<1>3. Buffer \in Nat /\ Buffer = FD_BUFFER_P /\ Size \in Nat /\ Size + 1 = FD_SECTOR_SIZE
  BY DiskAssumption DEF Buffer, Size, LowBuffer
<1>4. Hi(Buffer) * 256 + Lo(Buffer) = Buffer /\ Hi(Size) * 256 + Lo(Size) = Size
  BY <1>2, <1>3
<1>5. Target = FD_BUFFER_P
  <2>1. Hi(Buffer) \in Nat /\ Lo(Buffer) \in Nat
    BY <1>3 DEF Hi, Lo
  <2>2. Target = 0 * 65536 + Hi(Buffer) * 256 + Lo(Buffer)
    BY <1>1 DEF Target
  <2> QED
    BY <1>3, <1>4, <2>1, <2>2
<1>6. Transferred = FD_SECTOR_SIZE
  <2>1. Transferred = Hi(Size) * 256 + Lo(Size) + 1
    BY <1>1 DEF Transferred
  <2> QED
    BY <1>3, <1>4, <2>1
<1>7. at = [c |-> at.c, h |-> at.h, s |-> at.s]
  BY DEF IInv, Kinds
<1> QED
  BY <1>5, <1>6, <1>7 DEF Landed

LEMMA FinishOutcome ==
  ASSUME IInv, Finish
  PROVE  /\ pc \in Waits /\ ~irq /\ ~fdc_intr
         /\ ResetEnds \/ RecalibrateEnds(0) \/ RecalibrateEnds(1) \/ ReadEnds
<1>1. phase = "executing"
  BY DEF Finish
<1>2. pc \in Waits
  <2>1. ASSUME pc \in After PROVE FALSE
    BY <1>1, <2>1 DEF IInv, Woken, Ended
  <2> QED
    BY <1>1, <2>1 DEF IInv, Quiet
<1>3. /\ ~irq /\ ~fdc_intr
      /\ cmd = (IF pc = 4 THEN <<"reset">> ELSE Sent(Program, Start(pc), pc))
  BY <1>1, <1>2 DEF IInv, Waiting, Ended
<1> PICK P : P = Program
  OBVIOUS
<1>4. Listing(P, at)
  BY Doings DEF IInv, Kinds, Where
<1> DEFINE RecalibrateDone ==
             /\ \E o \in Recalibrations : st0' = o + cmd[2]
             /\ answered' = [answered EXCEPT ![cmd[2]] = st0']
             /\ phase' = "command"
             /\ UNCHANGED <<results, unsensed, frame, failed>>
           ReadDone ==
             /\ \/ frame' = Landed(cmd) /\ UNCHANGED failed
                \/ UNCHANGED frame /\ failed' = failed \cup {[c |-> cmd[3], h |-> cmd[4], s |-> cmd[5]]}
             /\ phase' = "result" /\ results' = <<cmd[2], 0, 0, cmd[3], cmd[4], cmd[5], 2>>
             /\ UNCHANGED <<unsensed, st0, answered>>
<1>5. /\ cmd[1] = "reset" => UNCHANGED <<results, st0, frame, answered, failed>>
                             /\ unsensed' = 4 /\ phase' = "command"
      /\ cmd[1] = "recalibrate" => RecalibrateDone
      /\ cmd[1] = "read" => ReadDone
  BY DEF Finish
<1>6. CASE pc = 4
  <2>1. cmd[1] = "reset"
    BY <1>3, <1>6
  <2> QED
    BY <1>2, <1>3, <1>5, <1>6, <2>1 DEF ResetEnds
<1>7. CASE pc = 31
  <2>1. cmd = Sent(P, 29, 31)
    BY <1>3, <1>7 DEF Start
  <2>2. cmd[1] = P[29].arg /\ cmd[2] = P[30].arg
    BY <2>1 DEF Sent
  <2>3. cmd[1] = "recalibrate" /\ cmd[2] = 0
    BY <1>4, <2>2 DEF Listing
  <2>4. st0' \in {o + 0 : o \in Recalibrations} /\ answered' = [answered EXCEPT ![0] = st0']
        /\ phase' = "command" /\ UNCHANGED <<results, unsensed, frame, failed>>
    BY <1>5, <2>3
  <2>5. RecalibrateEnds(0)
    BY <1>7, <2>4 DEF RecalibrateEnds
  <2> QED
    BY <1>2, <1>3, <2>5
<1>8. CASE pc = 42
  <2>1. cmd = Sent(P, 40, 42)
    BY <1>3, <1>8 DEF Start
  <2>2. cmd[1] = P[40].arg /\ cmd[2] = P[41].arg
    BY <2>1 DEF Sent
  <2>3. cmd[1] = "recalibrate" /\ cmd[2] = 1
    BY <1>4, <2>2 DEF Listing
  <2>4. st0' \in {o + 1 : o \in Recalibrations} /\ answered' = [answered EXCEPT ![1] = st0']
        /\ phase' = "command" /\ UNCHANGED <<results, unsensed, frame, failed>>
    BY <1>5, <2>3
  <2>5. RecalibrateEnds(1)
    BY <1>8, <2>4 DEF RecalibrateEnds
  <2> QED
    BY <1>2, <1>3, <2>5
<1>9. CASE pc = 66
  <2>1. cmd = Sent(P, 57, 66)
    BY <1>3, <1>9 DEF Start
  <2>2. /\ cmd[1] = P[57].arg /\ cmd[2] = P[58].arg /\ cmd[3] = P[59].arg
        /\ cmd[4] = P[60].arg /\ cmd[5] = P[61].arg
    BY <2>1 DEF Sent
  <2>3. cmd[1] = "read" /\ cmd[2] = 1 /\ cmd[3] = at.c /\ cmd[4] = at.h /\ cmd[5] = at.s
    BY <1>4, <2>2 DEF Listing
  <2>4. ReadDone
    BY <1>5, <2>3
  <2>5. [c |-> cmd[3], h |-> cmd[4], s |-> cmd[5]] = at
    BY <2>3 DEF IInv, Kinds
  <2>6. LowBuffer => Landed(cmd) = at
    BY <1>9, <2>3, LandedAt
  <2>7. /\ phase' = "result" /\ results' = <<1, 0, 0, at.c, at.h, at.s, 2>>
        /\ UNCHANGED <<unsensed, st0, answered>>
    BY <2>3, <2>4
  <2>8. \/ (LowBuffer => frame' = at) /\ failed' = failed
        \/ frame' = frame /\ failed' = failed \cup {at}
    BY <2>4, <2>5, <2>6
  <2>9. ReadEnds
    BY <1>9, <2>7, <2>8 DEF ReadEnds
  <2> QED
    BY <1>2, <1>3, <2>9
<1> QED
  BY <1>2, <1>6, <1>7, <1>8, <1>9 DEF Waits

\* What the end of a command does not touch, whatever the command.
LEMMA FinishRest ==
  ASSUME IInv, Finish, pc \in Waits,
         phase' \in {"command", "result"}, results' \in Seq(Nat), DOMAIN answered' = Drive
  PROVE  Kinds' /\ Absent' /\ Woken' /\ Quiet' /\ Turn' /\ Motors' /\ Channel'
<1>1. /\ irq' = TRUE
      /\ UNCHANGED <<pc, fdc_intr, result, at, status, buf, dma, dor, issued, seenFor>>
  BY DEF Finish, driver
<1>2. pc \in 1 .. 77 /\ pc \notin After /\ phase = "executing"
  BY DEF Waits, After, Finish
<1>3. Kinds'
  <2>1. Kinds /\ irq' \in BOOLEAN
    BY <1>1 DEF IInv
  <2> QED
    BY <1>1, <1>2, <2>1, KindsStill DEF Kinds
<1>4. Absent' /\ Woken' /\ Quiet' /\ Turn'
  BY <1>1, <1>2 DEF Absent, Woken, Quiet, Turn
<1>5. Motors'
  BY <1>1, <1>2 DEF IInv, Motors
<1>6. Channel'
  BY <1>1 DEF IInv, Channel
<1> QED
  BY <1>3, <1>4, <1>5, <1>6

LEMMA FinishStep == IInv /\ Finish => IInv'
<1> SUFFICES ASSUME IInv, Finish PROVE IInv'
  OBVIOUS
<1>1. /\ pc \in Waits /\ ~irq /\ ~fdc_intr
      /\ ResetEnds \/ RecalibrateEnds(0) \/ RecalibrateEnds(1) \/ ReadEnds
  BY FinishOutcome
<1>2. /\ phase = "executing" /\ cmd' = <<>> /\ irq' = TRUE /\ raisedFor' = issued'
      /\ UNCHANGED <<pc, fdc_intr, result, at, status, buf, dma, dor, issued, seenFor>>
  BY DEF Finish, driver
<1>3. ASSUME phase' \in {"command", "result"}, results' \in Seq(Nat), DOMAIN answered' = Drive
      PROVE  Kinds' /\ Absent' /\ Woken' /\ Quiet' /\ Turn' /\ Motors' /\ Channel'
  BY <1>1, <1>3, FinishRest
<1>4. results \in Seq(Nat) /\ DOMAIN answered = Drive /\ at.c \in Nat /\ at.h \in Nat /\ at.s \in Nat
  BY DEF IInv, Kinds
<1>5. ASSUME Ended(pc)' PROVE Waiting'
  BY <1>1, <1>2, <1>5 DEF Waiting
<1>6. CASE ResetEnds
  <2>1. /\ pc = 4 /\ unsensed' = 4 /\ phase' = "command"
        /\ UNCHANGED <<results, st0, frame, answered, failed>>
    BY <1>6 DEF ResetEnds
  <2>2. Kinds' /\ Absent' /\ Woken' /\ Quiet' /\ Turn' /\ Motors' /\ Channel'
    BY <1>3, <1>4, <2>1
  <2>3. Waiting'
    BY <1>2, <1>5, <2>1 DEF Ended
  <2>4. NoResults' /\ Sensing' /\ Success' /\ Copied'
    BY <1>2, <2>1 DEF IInv, NoResults, Sensing, Success, Copied, Image
  <2> QED
    BY <2>2, <2>3, <2>4 DEF IInv
<1>7. ASSUME NEW d \in Drive, RecalibrateEnds(d) PROVE IInv'
  <2>1. /\ pc = 31 + 11 * d /\ phase' = "command"
        /\ st0' \in {o + d : o \in Recalibrations} /\ answered' = [answered EXCEPT ![d] = st0']
        /\ UNCHANGED <<results, unsensed, frame, failed>>
    BY <1>7 DEF RecalibrateEnds
  <2>2. (d = 0 /\ pc = 31) \/ (d = 1 /\ pc = 42)
    BY <2>1 DEF Drive
  <2>3. Kinds' /\ Absent' /\ Woken' /\ Quiet' /\ Turn' /\ Motors' /\ Channel'
    BY <1>3, <1>4, <2>1
  <2>4. Answer(d)'
    BY <1>4, <2>1 DEF Answer
  <2>5. Waiting'
    BY <1>2, <1>5, <2>1, <2>2, <2>4 DEF Ended
  <2>6. NoResults' /\ Sensing'
    BY <1>2, <2>1, <2>2 DEF IInv, NoResults, Sensing, Unsensed
  <2>9. Copied'
    BY <1>2, <2>1, <2>2, CopiedStill DEF IInv, Copied, Image
  <2>7. Success'
    <3>1. d = 1 => answered'[0] = answered[0]
      BY <1>4, <2>1 DEF Drive
    <3> QED
      BY <1>2, <2>2, <3>1 DEF IInv, Success
  <2> QED
    BY <2>3, <2>5, <2>6, <2>9, <2>7 DEF IInv
<1>8. CASE ReadEnds
  <2>1. /\ pc = 66 /\ phase' = "result" /\ results' = <<1, 0, 0, at.c, at.h, at.s, 2>>
        /\ \/ (LowBuffer => frame' = at) /\ failed' = failed
           \/ frame' = frame /\ failed' = failed \cup {at}
        /\ UNCHANGED <<unsensed, st0, answered>>
    BY <1>8 DEF ReadEnds
  <2>2. results' \in Seq(Nat) /\ Len(results') = 7
    BY <1>4, <2>1
  <2>3. Kinds' /\ Absent' /\ Woken' /\ Quiet' /\ Turn' /\ Motors' /\ Channel'
    BY <1>3, <1>4, <2>1, <2>2
  <2>4. InFrame'
    BY <1>2, <2>1 DEF InFrame, LowBuffer
  <2>5. Waiting'
    BY <1>2, <1>5, <2>1, <2>2, <2>4 DEF Ended
  <2>6. NoResults' /\ Sensing' /\ Success'
    BY <1>2, <2>1 DEF IInv, NoResults, Sensing, Success
  <2>7. Copied'
    <3>1. \A x : x \in failed => x \in failed'
      BY <2>1
    <3>2. LowBuffer => Image'
      BY <1>2, <3>1 DEF IInv, Copied, Image
    <3> QED
      BY <1>2, <2>1, <3>2 DEF IInv, Copied
  <2> QED
    BY <2>3, <2>5, <2>6, <2>7 DEF IInv
<1> QED
  BY <1>1, <1>6, <1>7, <1>8 DEF Drive

\* The three loops number the sectors as calc_chs() does.
LEMMA DivMod ==
  ASSUME NEW q \in Nat, NEW d \in Nat, NEW r \in 0 .. d - 1
  PROVE  (q * d + r) \div d = q /\ (q * d + r) % d = r
OBVIOUS

Triple(p) == p = [c |-> p.c, h |-> p.h, s |-> p.s]
InDisk(p) == p.c \in 0 .. FD_CYLINDERS /\ p.h \in 0 .. FD_HEADS - 1 /\ p.s \in 1 .. FD_SECTORS

LEMMA Geometry ==
  /\ FD_CYLINDERS \in Nat /\ FD_HEADS \in Nat /\ FD_SECTORS \in Nat
  /\ 0 <= FD_HEADS - 1 /\ 1 <= FD_SECTORS /\ FD_CYLINDERS # 0
BY DiskAssumption

LEMMA CalcOf ==
  ASSUME NEW p, InDisk(p), Triple(p)
  PROVE  Lba(p) \in Nat /\ calc_chs(Lba(p)) = p
<1> DEFINE C == p.c  H == FD_HEADS  h == p.h  S == FD_SECTORS  r == p.s - 1
<1>1. C \in Nat /\ H \in Nat /\ h \in 0 .. H - 1 /\ S \in Nat /\ r \in 0 .. S - 1 /\ r + 1 = p.s
  BY Geometry DEF InDisk
<1>2. Lba(p) = (C * H + h) * S + r
  <2>1. (C * H + h) * S \in Nat /\ p.s \in Nat
    BY <1>1 DEF InDisk
  <2> QED
    BY <2>1 DEF Lba
<1>3. [c |-> C, h |-> h, s |-> r + 1] = p
  BY <1>1 DEF Triple
<1> HIDE DEF C, H, h, S, r
<1>4. C * H + h \in Nat /\ h * S + r \in 0 .. H * S - 1 /\ H * S \in Nat
  <2>1. C * H \in Nat /\ h * S \in Nat /\ H * S \in Nat
    BY <1>1
  <2>2. h * S <= (H - 1) * S
    BY <1>1
  <2>3. (H - 1) * S = H * S - S
    BY <1>1
  <2> QED
    BY <1>1, <2>1, <2>2, <2>3
<1>5. Lba(p) \div S = C * H + h /\ Lba(p) % S = r
  <2> PICK x \in Nat : x = C * H + h
    BY <1>4
  <2>1. (x * S + r) \div S = x /\ (x * S + r) % S = r
    BY <1>1, DivMod
  <2> QED
    BY <1>2, <2>1
<1>6. (C * H + h) % H = h
  BY <1>1, DivMod
<1>7. Lba(p) \div (H * S) = C
  <2>1. (C * H + h) * S + r = C * (H * S) + (h * S + r)
    BY <1>1
  <2> PICK d \in Nat : d = H * S
    BY <1>4
  <2> PICK t \in 0 .. d - 1 : t = h * S + r
    BY <1>4
  <2>2. (C * d + t) \div d = C
    BY <1>1, DivMod
  <2> QED
    BY <1>2, <2>1, <2>2
<1>8. calc_chs(Lba(p)) = [c |-> C, h |-> h, s |-> r + 1]
  BY <1>5, <1>6, <1>7 DEF calc_chs, H, S
<1>9. Lba(p) \in Nat
  <2>1. (C * H + h) * S \in Nat
    BY <1>1, <1>4
  <2> QED
    BY <1>1, <1>2, <2>1
<1> QED
  BY <1>3, <1>8, <1>9

LEMMA NextOf ==
  ASSUME NEW p, InDisk(p), Triple(p), p.c < FD_CYLINDERS, NEW n, n = NextSector(p)
  PROVE  /\ InDisk(n) /\ Triple(n) /\ Lba(n) = Lba(p) + 1
         /\ n.c = FD_CYLINDERS => n.h = 0 /\ n.s = 1
<1>1. /\ FD_CYLINDERS \in Nat /\ FD_HEADS \in Nat /\ FD_SECTORS \in Nat
      /\ 0 <= FD_HEADS - 1 /\ 1 <= FD_SECTORS
      /\ p.c \in 0 .. FD_CYLINDERS - 1 /\ p.h \in 0 .. FD_HEADS - 1 /\ p.s \in 1 .. FD_SECTORS
  BY Geometry DEF InDisk
<1> DEFINE x == p.c * FD_HEADS
<1>2. x \in Nat /\ (x + p.h) * FD_SECTORS \in Nat
  BY <1>1
<1>3. CASE p.s < FD_SECTORS
  <2>1. n = [c |-> p.c, h |-> p.h, s |-> p.s + 1]
    <3> PICK c, h, s : c = p.c /\ h = p.h /\ s = p.s
      OBVIOUS
    <3>1. p = [c |-> c, h |-> h, s |-> s]
      BY DEF Triple
    <3>2. n = [c |-> c, h |-> h, s |-> s + 1]
      BY <1>1, <1>3, <3>1 DEF NextSector
    <3> QED
      BY <3>2
  <2>2. InDisk(n) /\ Triple(n) /\ n.c # FD_CYLINDERS
    BY <1>1, <1>3, <2>1 DEF InDisk, Triple
  <2>3. Lba(n) = Lba(p) + 1
    BY <1>1, <1>2, <2>1 DEF Lba
  <2> QED
    BY <2>2, <2>3
<1>4. CASE p.s = FD_SECTORS /\ p.h < FD_HEADS - 1
  <2>1. n = [c |-> p.c, h |-> p.h + 1, s |-> 1]
    <3> PICK c, h, s : c = p.c /\ h = p.h /\ s = p.s
      OBVIOUS
    <3>1. p = [c |-> c, h |-> h, s |-> s]
      BY DEF Triple
    <3>2. n = [p EXCEPT !.h = @ + 1, !.s = 1]
      BY <1>1, <1>4 DEF NextSector
    <3>3. n = [[c |-> c, h |-> h, s |-> s] EXCEPT !.h = @ + 1, !.s = 1]
      BY <3>1, <3>2
    <3>4. n = [c |-> c, h |-> h + 1, s |-> 1]
      BY <3>3
    <3> QED
      BY <3>4
  <2>2. InDisk(n) /\ Triple(n) /\ n.c # FD_CYLINDERS
    BY <1>1, <1>4, <2>1 DEF InDisk, Triple
  <2>3. Lba(n) = Lba(p) + 1
    <3>1. (x + (p.h + 1)) * FD_SECTORS = (x + p.h) * FD_SECTORS + FD_SECTORS
      BY <1>1, <1>2
    <3>2. Lba(n) = (x + (p.h + 1)) * FD_SECTORS + 1 - 1
      BY <2>1 DEF Lba
    <3>3. Lba(p) = (x + p.h) * FD_SECTORS + FD_SECTORS - 1
      BY <1>4 DEF Lba
    <3> HIDE DEF x
    <3> QED
      BY <1>1, <1>2, <3>1, <3>2, <3>3
  <2> QED
    BY <2>2, <2>3
<1>5. CASE p.s = FD_SECTORS /\ p.h = FD_HEADS - 1
  <2>1. n = [c |-> p.c + 1, h |-> 0, s |-> 1]
    BY <1>1, <1>5 DEF NextSector
  <2>2. InDisk(n) /\ Triple(n) /\ n.h = 0 /\ n.s = 1
    BY <1>1, <1>5, <2>1 DEF InDisk, Triple
  <2>3. Lba(n) = Lba(p) + 1
    <3>1. (p.c + 1) * FD_HEADS + 0 = (x + p.h) + 1
      BY <1>1, <1>5
    <3>2. ((x + p.h) + 1) * FD_SECTORS = (x + p.h) * FD_SECTORS + FD_SECTORS
      BY <1>1, <1>2
    <3>3. Lba(n) = ((p.c + 1) * FD_HEADS + 0) * FD_SECTORS + 1 - 1
      BY <2>1 DEF Lba
    <3>4. Lba(p) = (x + p.h) * FD_SECTORS + FD_SECTORS - 1
      BY <1>5 DEF Lba
    <3> HIDE DEF x
    <3>5. Lba(n) = (x + p.h) * FD_SECTORS + FD_SECTORS + 1 - 1
      BY <3>1, <3>2, <3>3
    <3> QED
      BY <1>1, <1>2, <3>4, <3>5
  <2> QED
    BY <2>2, <2>3
<1> QED
  BY <1>1, <1>3, <1>4, <1>5

LEMMA SeqFunction ==
  ASSUME NEW S, NEW f \in Seq(S), NEW m \in Nat, Len(f) = m
  PROVE  f \in [1 .. m -> S]
OBVIOUS

LEMMA FunctionSeq ==
  ASSUME NEW S, NEW m \in Nat, NEW f \in [1 .. m -> S]
  PROVE  f \in Seq(S)
OBVIOUS

\* One more sector in the image.
LEMMA OneMore ==
  ASSUME NEW b, NEW n \in Nat, b \in Seq({b[i] : i \in DOMAIN b}), Len(b) = n,
         NEW x, NEW a, a = Append(b, x)
  PROVE  /\ a \in Seq({a[i] : i \in DOMAIN a}) /\ Len(a) = n + 1
         /\ DOMAIN b = 1 .. n /\ DOMAIN a = 1 .. n + 1
         /\ a[n + 1] = x /\ \A i \in 1 .. n : a[i] = b[i]
<1> DEFINE S == {b[i] : i \in DOMAIN b} \cup {x}  A == {a[i] : i \in DOMAIN a}
<1>1. b \in Seq(S) /\ x \in S
  OBVIOUS
<1> HIDE DEF S
<1>2. /\ a \in Seq(S) /\ Len(a) = n + 1 /\ DOMAIN b = 1 .. n /\ DOMAIN a = 1 .. n + 1
      /\ a[n + 1] = x /\ \A i \in 1 .. n : a[i] = b[i]
  BY <1>1
<1> PICK m \in Nat : m = n + 1
  OBVIOUS
<1>3. a \in [1 .. m -> A]
  <2>1. a \in Seq(S) /\ Len(a) = m
    BY <1>2
  <2>2. a \in [1 .. m -> S]
    BY <2>1, SeqFunction
  <2>3. \A i \in 1 .. m : a[i] \in A
    BY <1>2 DEF A
  <2> QED
    BY <2>2, <2>3
<1>4. a \in Seq(A)
  <2> HIDE DEF A
  <2> QED
    BY <1>3, FunctionSeq
<1> QED
  BY <1>2, <1>4 DEF A

LEMMA MemcpyStep == IInv /\ Memcpy => IInv'
<1> SUFFICES ASSUME IInv, Memcpy PROVE IInv'
  OBVIOUS
<1>1. Where
  BY Doings DEF IInv, Kinds
<1> PICK p : p = at
  OBVIOUS
<1> PICK n : n = at'
  OBVIOUS
<1>2. /\ pc = 76 /\ n = NextSector(p) /\ buf' = Append(buf, frame)
      /\ pc' = IF n.c < FD_CYLINDERS THEN 50 ELSE 77
      /\ UNCHANGED <<fdc_intr, result, status, frame, dma, phase, cmd, results, irq,
                     unsensed, st0, dor, issued, raisedFor, seenFor, answered, failed>>
  BY <1>1 DEF Memcpy, Where, StepTo, controller, history
<1>3. InDisk(p) /\ Triple(p) /\ p.c < FD_CYLINDERS
  <2>1. InDisk(p)
    BY DEF IInv, Kinds, InDisk
  <2>2. Triple(p)
    BY DEF IInv, Kinds, Triple
  <2>3. p.c # FD_CYLINDERS
    BY <1>2 DEF IInv, Copied
  <2> QED
    BY <2>1, <2>2, <2>3, Geometry DEF InDisk
<1>4. /\ InDisk(n) /\ Triple(n) /\ Lba(n) = Lba(p) + 1
      /\ n.c = FD_CYLINDERS => n.h = 0 /\ n.s = 1
  BY <1>2, <1>3, NextOf
<1>5. (pc' = 50 /\ n.c # FD_CYLINDERS) \/ (pc' = 77 /\ n.c = FD_CYLINDERS)
  <2>1. n.c \in 0 .. FD_CYLINDERS /\ FD_CYLINDERS \in Nat
    BY <1>4, Geometry DEF InDisk
  <2> QED
    BY <1>2, <2>1
<1>6. Kinds'
  <2>1. Kinds
    BY DEF IInv
  <2>2. /\ at'.c \in 0 .. FD_CYLINDERS /\ at'.h \in 0 .. FD_HEADS - 1 /\ at'.s \in 1 .. FD_SECTORS
        /\ at' = [c |-> at'.c, h |-> at'.h, s |-> at'.s]
    BY <1>4 DEF InDisk, Triple
  <2>3. /\ pc' \in 1 .. 77
        /\ UNCHANGED <<fdc_intr, irq, phase, status, answered, results>>
    BY <1>2, <1>5
  <2> QED
    BY <2>1, <2>2, <2>3 DEF Kinds
<1>7. Absent' /\ Waiting' /\ Woken' /\ Quiet' /\ NoResults'
  BY <1>2, <1>5 DEF IInv, Absent, Quiet, Waiting, Woken, NoResults, Waits, After
<1>8. Turn'
  BY <1>2, <1>5, TurnStill DEF IInv, Waits, Within, Ins
<1>9. Sensing'
  BY <1>2, <1>5 DEF IInv, Sensing, Unsensed
<1>10. Success' /\ Motors' /\ Channel'
  BY <1>2, <1>5 DEF IInv, Success, Motors, Channel
<1>11. Copied'
  <2> PICK k \in Nat : k = Lba(p) /\ calc_chs(k) = p
    BY <1>3, CalcOf
  <2>1. buf \in Seq({buf[i] : i \in DOMAIN buf}) /\ Len(buf) = k
    BY DEF IInv, Copied
  <2>2. /\ buf' \in Seq({buf'[i] : i \in DOMAIN buf'}) /\ Len(buf') = k + 1
        /\ DOMAIN buf = 1 .. k /\ DOMAIN buf' = 1 .. k + 1
        /\ buf'[k + 1] = frame /\ \A i \in 1 .. k : buf'[i] = buf[i]
    BY <1>2, <2>1, OneMore
  <2>3. ASSUME LowBuffer PROVE Image'
    <3>1. Image /\ (frame = p \/ p \in failed)
      BY <1>2, <2>3 DEF IInv, Copied, InFrame
    <3> SUFFICES ASSUME NEW i \in 1 .. k + 1
                 PROVE  calc_chs(i - 1) \in failed \/ buf'[i] = calc_chs(i - 1)
      BY <1>2, <2>2 DEF Image, calc_chs
    <3>2. CASE i \in 1 .. k
      BY <2>2, <3>1, <3>2 DEF Image
    <3>3. CASE i = k + 1
      <4>1. i - 1 = k
        BY <3>3
      <4> QED
        BY <2>2, <3>1, <3>3, <4>1
    <3> QED
      BY <3>2, <3>3
  <2>4. Len(buf') = Lba(n)
    BY <1>4, <2>2
  <2>5. buf' \in Seq({buf'[i] : i \in DOMAIN buf'})
    BY <2>2
  <2>6. Len(buf') = Lba(at)'
    BY <2>4 DEF Lba
  <2> QED
    BY <1>4, <1>5, <2>3, <2>5, <2>6 DEF Copied, LowBuffer
<1> QED
  BY <1>6, <1>7, <1>8, <1>9, <1>10, <1>11 DEF IInv

-----------------------------------------------------------------------------
\* The invariant holds at first, and every step keeps it.
LEMMA InitInv == Init => IInv
<1> SUFFICES ASSUME Init PROVE IInv
  OBVIOUS
<1>1. /\ pc = 1 /\ fdc_intr = FALSE /\ irq = FALSE /\ result = "none" /\ at = First
      /\ phase \in {"command", "absent"} /\ cmd = <<>> /\ results = <<>>
      /\ unsensed = 0 /\ st0 = 0 /\ buf = <<>>
      /\ status = [i \in 1 .. 7 |-> 0] /\ answered = [d \in Drive |-> 0]
      /\ dma = [flip |-> 1, addr |-> <<0, 0>>, count |-> <<0, 0>>, page |-> 0]
  BY DEF Init
<1>2. First.c = 0 /\ First.h = 0 /\ First.s = 1 /\ First = [c |-> 0, h |-> 0, s |-> 1]
  BY DEF First
<1>3. Kinds
  <2>1. results \in Seq(Nat)
    BY <1>1
  <2>2. at.c \in 0 .. FD_CYLINDERS /\ at.h \in 0 .. FD_HEADS - 1 /\ at.s \in 1 .. FD_SECTORS
        /\ at = [c |-> at.c, h |-> at.h, s |-> at.s]
    BY <1>1, <1>2, Geometry
  <2>3. DOMAIN status = 1 .. 7 /\ DOMAIN answered = Drive
    BY <1>1
  <2>4. pc \in 1 .. 77 /\ phase \in {"absent", "command", "executing", "result"}
    BY <1>1
  <2>5. fdc_intr \in BOOLEAN /\ irq \in BOOLEAN
    BY <1>1
  <2> QED
    BY <2>1, <2>2, <2>3, <2>4, <2>5 DEF Kinds
<1>4. Absent /\ Waiting /\ Woken /\ Quiet /\ NoResults
  BY <1>1 DEF Absent, Waiting, Woken, Quiet, NoResults, Waits, After
<1>5. Turn
  <2>1. Left(1) = 0 /\ 1 \notin Within
    BY DEF Left, Ins, Within
  <2>2. Sent(Program, Start(1), 1) = <<>>
    BY <2>1, Fresh
  <2> QED
    BY <1>1, <2>1, <2>2 DEF Turn
<1>6. Sensing /\ Success /\ Motors
  BY <1>1 DEF Sensing, Success, Motors, Unsensed
<1>7. Channel
  BY <1>1 DEF Channel
<1>8. Copied
  <2>1. Lba(at) = 0
    <3>1. FD_HEADS \in Nat /\ FD_SECTORS \in Nat
      BY Geometry
    <3> QED
      BY <1>1, <1>2, <3>1 DEF Lba
  <2>2. at.c # FD_CYLINDERS
    BY <1>1, <1>2, Geometry
  <2>3. buf \in Seq({buf[i] : i \in DOMAIN buf}) /\ Len(buf) = 0
    <3>1. \A S : <<>> \in Seq(S)
      OBVIOUS
    <3> QED
      BY <1>1, <3>1
  <2>4. Image
    BY <1>1 DEF Image
  <2> QED
    BY <1>1, <2>1, <2>2, <2>3, <2>4 DEF Copied
<1> QED
  BY <1>3, <1>4, <1>5, <1>6, <1>7, <1>8 DEF IInv

LEMMA StutterStep == IInv /\ UNCHANGED vars => IInv'
<1> SUFFICES ASSUME IInv, UNCHANGED vars PROVE IInv'
  OBVIOUS
<1>1. UNCHANGED <<pc, fdc_intr, result, at, status, buf, frame, dma, phase, cmd, results, irq,
                  unsensed, st0, dor, issued, raisedFor, seenFor, answered, failed>>
  BY DEF vars, driver, controller, history
<1>2. Kinds' /\ Absent' /\ Woken' /\ Quiet' /\ NoResults'
  BY <1>1 DEF IInv, Kinds, Absent, Woken, Quiet, NoResults, Ended, Answer, InFrame
<1>3. Program' = Program
  BY <1>1, SameProgram
<1>4. Waiting' /\ Turn'
  BY <1>1, <1>3 DEF IInv, Waiting, Turn, Ended, Answer, InFrame
<1>5. Sensing' /\ Success' /\ Motors' /\ Channel'
  BY <1>1 DEF IInv, Sensing, Success, Motors, Channel, Answer, Heard
<1>6. Copied'
  BY <1>1 DEF IInv, Copied, Image, InFrame
<1> QED
  BY <1>2, <1>4, <1>5, <1>6 DEF IInv

LEMMA Invariant == Spec => []IInv
<1>1. IInv /\ [Next]_vars => IInv'
  BY WaitStep, ClearStep, CheckStep, DemandStep, VerifyStep, ReturnStep, MotorStep, DmaStep,
     MemcpyStep, ResetStep, ReadStep, WriteStep, FinishStep, Int26Step, StutterStep
     DEF Next, Driver
<1> QED
  BY <1>1, InitInv, PTL DEF Spec

\* Driver and controller agree on whose turn it is, although the driver does
\* not ask, and FDC_OK means that both drives were ready: fdc.c, for a disk of
\* any size and any place of the buffer.
THEOREM Synchronised == Spec => []InSync
<1>1. IInv => InSync
  <2> SUFFICES ASSUME IInv, phase # "absent" PROVE InSync
    BY DEF InSync
  <2>1. Where /\ pc \in 1 .. 77
    BY Doings DEF IInv, Kinds
  <2> PICK P : P = Program
    OBVIOUS
  <2>2. Listing(P, at)
    BY <2>1 DEF Where
  <2>3. pc \notin Waits => /\ phase = IF Left(pc) > 0 THEN "result" ELSE "command"
                           /\ cmd = Sent(P, Start(pc), pc)
    BY DEF IInv, Turn
  <2>4. Doing("out") \/ Doing("check") \/ Doing("demand") => Ready
    <3>1. ASSUME pc \in Outs \cup {18, 22, 2, 28, 39} PROVE pc \notin Waits /\ Left(pc) = 0
      BY <3>1 DEF Outs, Waits, Left, Ins
    <3> QED
      BY <2>1, <2>3, <3>1 DEF Where, Ready
  <2>5. Doing("in") => phase = "result"
    BY <2>1, <2>3, LeftNext DEF Where
  <2>6. Doing("memcpy") => phase = "command" /\ cmd = <<>>
    <3>1. 76 \notin Waits \cup Within /\ Left(76) = 0
      BY DEF Waits, Within, Left, Ins
    <3> QED
      BY <2>1, <2>3, <3>1, Fresh DEF Where
  <2>7. ASSUME phase = "executing", cmd[1] \in {"recalibrate", "read"}
        PROVE  dor = [drive |-> cmd[2], on |-> TRUE]
    <3>1. pc \in Waits
      BY <2>7 DEF IInv, Quiet, Woken, Ended
    <3>2. cmd = (IF pc = 4 THEN <<"reset">> ELSE Sent(P, Start(pc), pc))
      BY <2>7, <3>1 DEF IInv, Waiting, Ended
    <3>3. CASE pc = 4
      BY <2>7, <3>2, <3>3
    <3>4. CASE pc = 31
      <4>1. cmd = Sent(P, 29, 31)
        BY <3>2, <3>4 DEF Start
      <4>2. cmd[2] = P[30].arg
        BY <4>1 DEF Sent
      <4> QED
        BY <2>2, <3>4, <4>2 DEF IInv, Motors, Listing
    <3>5. CASE pc = 42
      <4>1. cmd = Sent(P, 40, 42)
        BY <3>2, <3>5 DEF Start
      <4>2. cmd[2] = P[41].arg
        BY <4>1 DEF Sent
      <4> QED
        BY <2>2, <3>5, <4>2 DEF IInv, Motors, Listing
    <3>6. CASE pc = 66
      <4>1. cmd = Sent(P, 57, 66)
        BY <3>2, <3>6 DEF Start
      <4>2. cmd[2] = P[58].arg
        BY <4>1 DEF Sent
      <4> QED
        BY <2>2, <3>6, <4>2 DEF IInv, Motors, Listing
    <3> QED
      BY <3>1, <3>3, <3>4, <3>5, <3>6 DEF Waits
  <2>8. result = "FDC_OK" => \A d \in Drive : answered[d] \in {32 + d, 112 + d}
    BY DEF IInv, Success, Drive
  <2> QED
    BY <2>4, <2>5, <2>6, <2>7, <2>8 DEF InSync
<1> QED
  BY <1>1, Invariant, PTL

\* The interrupt the driver goes on with is the one of the command it sent
\* last, although fdc_cmd_recalibrate() does not clear the flag first.
THEOREM OwnInterrupt == Spec => []FlagForThisCommand
<1>1. IInv => FlagForThisCommand
  <2> SUFFICES ASSUME IInv, Doing("wait"), fdc_intr PROVE seenFor = issued
    BY DEF FlagForThisCommand
  <2>1. pc \in Waits
    BY Doings DEF IInv, Kinds, Where
  <2>2. phase # "absent"
    BY DEF IInv, Absent
  <2> QED
    BY <2>1, <2>2 DEF IInv, Waiting
<1> QED
  BY <1>1, Invariant, PTL

\* Sector for sector the image is the disk, but for reads that failed, if the
\* 16 bits of phy_addr in dma_init_for_fd_read() can name the buffer: so they
\* can in config.h, where FD_BUFFER_P is 0.
THEOREM ImageIsDisk ==
  ASSUME LowBuffer
  PROVE  Spec => []Image
<1>1. LowBuffer => [](IInv => Image)
  <2>1. IInv /\ LowBuffer => Image
    BY DEF IInv, Copied
  <2> QED
    BY <2>1, PTL DEF LowBuffer
<1> QED
  BY <1>1, Invariant, PTL
=====
