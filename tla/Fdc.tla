-------------------------------- MODULE Fdc --------------------------------
(***************************************************************************)
(* The floppy driver: init_fdc() and fdc_cmd_read_data() of kernel/fdc.c,  *)
(* dma_init_for_fd_read() of kernel/dma.c, IRQ6, and task_fdc (main.c),    *)
(* which reads the disk in drive 1 sector by sector.                       *)
(*                                                                         *)
(* The driver talks to the controller through ports, one byte at a time,   *)
(* and hardly ever asks whether it is listening: it must know.  So the     *)
(* driver is its sequence of port operations (Program), executed one by    *)
(* one, and the controller, the DMA channel and IRQ6 go on beside it.      *)
(*                                                                         *)
(* The controller is external.  It does what the driver counts on: it      *)
(* takes bytes as fast as they come, answers the commands that only read   *)
(* or set registers at once, and raises IRQ6 after the others.  A command  *)
(* may fail, and there may be no controller at all.                        *)
(***************************************************************************)
EXTENDS Naturals, Sequences

CONSTANTS
  FD_CYLINDERS, FD_HEADS, FD_SECTORS, FD_SECTOR_SIZE,
  FD_BUFFER_P         \* where the DMA channel puts a sector

\* The cylinder, the head and the sector go to the controller as bytes, the
\* size less one as two.
ASSUME DiskAssumption ==
  /\ FD_CYLINDERS \in 1 .. 256 /\ FD_HEADS \in 1 .. 256 /\ FD_SECTORS \in 1 .. 255
  /\ FD_SECTOR_SIZE \in 1 .. 65536
  /\ FD_BUFFER_P \in Nat

Drive   == 0 .. 1
Sector  == [c : 0 .. FD_CYLINDERS - 1, h : 0 .. FD_HEADS - 1, s : 1 .. FD_SECTORS]
First   == [c |-> 0, h |-> 0, s |-> 1]
Nowhere == [c |-> 0, h |-> 0, s |-> 0]    \* no sector
Byte    == 0 .. 255

-----------------------------------------------------------------------------
\* The driver.
Do(op, arg) == <<[op |-> op, arg |-> arg]>>
Out(bytes)  == [i \in DOMAIN bytes |-> [op |-> "out", arg |-> bytes[i]]]
In(n)       == [i \in 1 .. n |-> [op |-> "in", arg |-> i]]

\* A command that is skipped when the controller is not ready for it.
Unless(bytes) == Do("check", Len(bytes)) \o Out(bytes)

\* The wait for IRQ6.
AwaitedOnly == Do("wait", 0)                                       \* mutant
Awaited == Do("wait", 0) \o Do("clear", 0)

\* fdc_cmd_sense_interrupt_status()
SenseOne == Out(<<"sense">>) \o In(1)                              \* mutant
Sense == Out(<<"sense">>) \o In(2)

fdc_cmd_recalibrate(d) ==
  Do("demand", 0) \o Out(<<"recalibrate", d>>) \o Awaited \o Sense \o Do("verify", d)

Recalibrated(d) == Do("motor", [drive |-> d, on |-> TRUE])
                   \o fdc_cmd_recalibrate(d)
                   \o Do("motor", [drive |-> d, on |-> FALSE])

init_fdc ==
  Do("clear", 0) \o Do("demand", 0)
  \o Do("reset", 0) \o Awaited
  \o Sense \o Sense \o Sense \o Sense
  \o Unless(<<"specify", 255, 30>>)
  \o Unless(<<"configure", 0, 97, 0>>)
  \o Recalibrated(0) \o Recalibrated(1)
  \o Do("return", "FDC_OK")

\* dma_init_for_fd_read(); the mode and the masks are left out.
DmaAddrLast(a, n) ==                                               \* mutant
  Do("dma_addr", a \div 256) \o Do("dma_addr", a % 256)
  \o Do("dma_count", n % 256) \o Do("dma_count", n \div 256)
DmaAddrCount(a, n) ==
  Do("dma_addr", a % 256) \o Do("dma_addr", a \div 256)
  \o Do("dma_count", n % 256) \o Do("dma_count", n \div 256)
dma_init_for_fd_read(a, n) ==
  DmaAddrCount(a % 65536, n) \o Do("dma_page", (a \div 65536) % 256)

\* fdc_cmd_read_data() from drive 1; phy_addr is 16 bits wide.
ReadBytes(c, h, s) == Out(<<"read", 1, c, h, s, 2, FD_SECTORS, 27, 255>>)
IssueLate(c, h, s) ==                                              \* mutant
  Do("motor", [drive |-> 1, on |-> TRUE]) \o ReadBytes(c, h, s) \o Do("clear", 0)
Issue(c, h, s) ==
  Do("motor", [drive |-> 1, on |-> TRUE]) \o Do("clear", 0) \o ReadBytes(c, h, s)

fdc_cmd_read_data(c, h, s) ==
  dma_init_for_fd_read(FD_BUFFER_P % 65536, FD_SECTOR_SIZE - 1)
  \o Issue(c, h, s) \o Awaited \o In(7)
  \o Do("motor", [drive |-> 1, on |-> FALSE])

Reading == Len(init_fdc) + 1      \* where task_fdc is when init_fdc() returned

-----------------------------------------------------------------------------
VARIABLES
  pc, fdc_intr, result, \* task_fdc, sys->fdc_intr, what init_fdc() returned
  at,                 \* the loop variables c, h and s
  status,             \* status_buf
  buf,                \* the sectors copied so far
  frame,              \* the sector in FD_BUFFER_P
  dma,                \* the channel's registers and the byte flip-flop
  phase, cmd, results, \* the controller: bytes it got, bytes it will give,
  irq, unsensed, st0, \* IRQ6, interrupts of the reset and of a drive to sense
  dor,                \* the drive selected, and its motor
  issued, raisedFor, seenFor, \* history: the number of the last command that
                      \* interrupts, of the one that raised IRQ6, and that set
                      \* fdc_intr
  answered,           \* history: ST0 of each drive's recalibration, 0 if none
  failed              \* history: the sectors that could not be read

driver     == <<pc, fdc_intr, result, at, status, buf>>
controller == <<phase, cmd, results, irq, unsensed, st0, dor>>
history    == <<issued, raisedFor, seenFor, answered, failed>>
vars       == <<driver, frame, dma, controller, history>>

Init ==
  /\ pc = 1 /\ fdc_intr = FALSE /\ result = "none" /\ at = First
  /\ status = [i \in 1 .. 7 |-> 0] /\ buf = <<>> /\ frame = Nowhere
  /\ dma = [flip |-> 1, addr |-> <<0, 0>>, count |-> <<0, 0>>, page |-> 0]
  /\ phase \in {"command", "absent"} /\ cmd = <<>> /\ results = <<>>
  /\ irq = FALSE /\ unsensed = 0 /\ st0 = 0 /\ dor = [drive |-> 0, on |-> FALSE]
  /\ issued = 0 /\ raisedFor = 0 /\ seenFor = 0
  /\ answered = [d \in Drive |-> 0] /\ failed = {}

\* task_fdc, whose loops do their body for one sector after the other.
Program == init_fdc \o fdc_cmd_read_data(at.c, at.h, at.s) \o Do("memcpy", 0)

Arg == Program[pc].arg
Doing(op) == pc <= Len(Program) /\ Program[pc].op = op
Ready == phase = "command"        \* check_fdc_data_ready(FDC_MSR_DIO_WRITE)

-----------------------------------------------------------------------------
\* Steps of the driver.
StepTo(p) == pc' = p
Step == StepTo(pc + 1)

\* while(!sys->fdc_intr);
Wait ==
  /\ Doing("wait") /\ fdc_intr
  /\ Step
  /\ UNCHANGED <<fdc_intr, result, at, status, buf, frame, dma, controller, history>>

Clear ==
  /\ Doing("clear")
  /\ fdc_intr' = FALSE
  /\ Step
  /\ UNCHANGED <<result, at, status, buf, frame, dma, controller, history>>

\* A command the controller is not ready for is skipped, ...
Check ==
  /\ Doing("check")
  /\ StepTo(IF Ready THEN pc + 1 ELSE pc + 1 + Arg)
  /\ UNCHANGED <<fdc_intr, result, at, status, buf, frame, dma, controller, history>>

\* ... or init_fdc() gives up; task_fdc only prints the result.
Demand ==
  /\ Doing("demand")
  /\ StepTo(IF Ready THEN pc + 1 ELSE Reading)
  /\ result' = IF Ready THEN result ELSE "FDC_ERROR"
  /\ UNCHANGED <<fdc_intr, at, status, buf, frame, dma, controller, history>>

\* The test of ST0 in fdc_cmd_recalibrate(): the drive, SE, and bits 2 and 3.
AtTrack0(d) == /\ status[1] % 4 = d
               /\ (status[1] \div 32) % 2 = 1
               /\ (status[1] \div 4) % 4 = 0

Verify ==
  /\ Doing("verify")
  /\ StepTo(IF AtTrack0(Arg) THEN pc + 1 ELSE Reading)
  /\ result' = IF AtTrack0(Arg) THEN result ELSE "FDC_ERROR"
  /\ UNCHANGED <<fdc_intr, at, status, buf, frame, dma, controller, history>>

Return ==
  /\ Doing("return")
  /\ result' = Arg
  /\ Step
  /\ UNCHANGED <<fdc_intr, at, status, buf, frame, dma, controller, history>>

\* fdc_motor_on(), fdc_motor_off()
Motor ==
  /\ Doing("motor")
  /\ dor' = IF phase = "absent" THEN dor ELSE Arg
  /\ Step
  /\ UNCHANGED <<fdc_intr, result, at, status, buf, frame, dma, phase, cmd, results, irq,
                 unsensed, st0, history>>

\* The two bytes of an address and of a count go to one port each; the
\* flip-flop tells which is which, and nothing resets it.
Dma ==
  /\ \/ /\ Doing("dma_addr")
        /\ dma' = [dma EXCEPT !.addr[dma.flip] = Arg, !.flip = 3 - @]
     \/ /\ Doing("dma_count")
        /\ dma' = [dma EXCEPT !.count[dma.flip] = Arg, !.flip = 3 - @]
     \/ /\ Doing("dma_page")
        /\ dma' = [dma EXCEPT !.page = Arg]
  /\ Step
  /\ UNCHANGED <<fdc_intr, result, at, status, buf, frame, controller, history>>

\* The three loops of task_fdc.
InnerOnly(p) ==                                                    \* mutant
  IF p.s < FD_SECTORS THEN [p EXCEPT !.s = @ + 1]
  ELSE IF p.h < FD_HEADS - 1 THEN [p EXCEPT !.h = @ + 1]
  ELSE [c |-> p.c + 1, h |-> 0, s |-> 1]
NextSector(p) ==
  IF p.s < FD_SECTORS THEN [p EXCEPT !.s = @ + 1]
  ELSE IF p.h < FD_HEADS - 1 THEN [p EXCEPT !.h = @ + 1, !.s = 1]
  ELSE [c |-> p.c + 1, h |-> 0, s |-> 1]

\* The memcpy(), the last thing they do.
Memcpy ==
  /\ Doing("memcpy")
  /\ buf' = Append(buf, frame)
  /\ at' = NextSector(at)
  /\ StepTo(IF at'.c < FD_CYLINDERS THEN Reading ELSE pc + 1)
  /\ UNCHANGED <<fdc_intr, result, status, frame, dma, controller, history>>

\* The DOR goes to 0 and back: the controller, which is there when init_fdc()
\* gets so far, is reset.
Reset ==
  /\ Doing("reset")
  /\ phase' = "executing" /\ cmd' = <<"reset">> /\ results' = <<>>
  /\ irq' = FALSE /\ unsensed' = 0 /\ st0' = 0
  /\ dor' = [drive |-> 0, on |-> FALSE]
  /\ issued' = issued + 1
  /\ Step
  /\ UNCHANGED <<fdc_intr, result, at, status, buf, frame, dma, raisedFor, seenFor, answered, failed>>

\* io_in8() of a result byte, or of the empty bus.
Read ==
  /\ Doing("in")
  /\ status' = [status EXCEPT ![Arg] = IF results # <<>> THEN Head(results) ELSE 255]
  /\ results' = IF results # <<>> THEN Tail(results) ELSE <<>>
  /\ phase' = IF Len(results) = 1 THEN "command" ELSE phase
  /\ Step
  /\ UNCHANGED <<fdc_intr, result, at, buf, frame, dma, cmd, irq, unsensed, st0, dor, history>>

-----------------------------------------------------------------------------
\* The controller.
CommandLength(name) ==
  CASE name = "sense" -> 1
    [] name = "recalibrate" -> 2
    [] name = "specify" -> 3
    [] name = "configure" -> 4
    [] name = "read" -> 9

\* What a sense command answers: the drives in turn after a reset, the drive
\* that was recalibrated, or that there was nothing to sense.
Sensed == IF unsensed > 0 THEN <<192 + (4 - unsensed), 0>>
          ELSE IF st0 # 0 THEN <<st0, 0>>
          ELSE <<128>>

\* It takes the command k.
Accept(k) ==
  \/ /\ k[1] = "sense"
     /\ phase' = "result" /\ results' = Sensed
     /\ unsensed' = IF unsensed > 0 THEN unsensed - 1 ELSE 0
     /\ st0' = IF unsensed > 0 THEN st0 ELSE 0
     /\ cmd' = <<>>
     /\ UNCHANGED issued
  \/ /\ k[1] \in {"specify", "configure"}
     /\ cmd' = <<>>
     /\ UNCHANGED <<phase, results, unsensed, st0, issued>>
  \/ /\ k[1] \in {"recalibrate", "read"}
     /\ phase' = "executing" /\ cmd' = k
     /\ issued' = issued + 1
     /\ UNCHANGED <<results, unsensed, st0>>

\* io_out8() of a command byte.
Write ==
  /\ Doing("out")
  /\ \/ /\ ~Ready
        /\ UNCHANGED <<phase, results, unsensed, st0, cmd, issued>>
     \/ /\ Ready
        /\ LET k == Append(cmd, Arg)
           IN  \/ Len(k) = CommandLength(k[1]) /\ Accept(k)
              \/ /\ Len(k) < CommandLength(k[1])
                 /\ cmd' = k
                 /\ UNCHANGED <<phase, results, unsensed, st0, issued>>
  /\ Step
  /\ UNCHANGED <<fdc_intr, result, at, status, buf, frame, dma, irq, dor,
                 raisedFor, seenFor, answered, failed>>

\* Where the channel puts what the drive reads, and how much it takes.
Target == dma.page * 65536 + dma.addr[2] * 256 + dma.addr[1]
Transferred == dma.count[2] * 256 + dma.count[1] + 1

\* The head is the fourth byte's; the driver leaves its bit in the second 0.
Landed(k) == IF Target = FD_BUFFER_P /\ Transferred = FD_SECTOR_SIZE
             THEN [c |-> k[3], h |-> k[4], s |-> k[5]] ELSE Nowhere

\* ST0 of a drive that is at track 0 (SE), is not ready (NR), or did not find
\* the track (SE and EC), which fdc_cmd_recalibrate() takes for success.
Recalibrations == {32, 72, 112}

\* The command that is executing ends, and raises IRQ6.
Finish ==
  /\ phase = "executing"
  /\ irq' = TRUE /\ raisedFor' = issued
  /\ cmd' = <<>>
  /\ \/ /\ cmd[1] = "reset"
        /\ unsensed' = 4 /\ phase' = "command"
        /\ UNCHANGED <<results, st0, frame, answered, failed>>
     \/ /\ cmd[1] = "recalibrate"
        /\ \E o \in Recalibrations : st0' = o + cmd[2]
        /\ answered' = [answered EXCEPT ![cmd[2]] = st0']
        /\ phase' = "command"
        /\ UNCHANGED <<results, unsensed, frame, failed>>
     \/ /\ cmd[1] = "read"
        /\ \/ frame' = Landed(cmd) /\ UNCHANGED failed
           \/ UNCHANGED frame /\ failed' = failed \cup {[c |-> cmd[3], h |-> cmd[4], s |-> cmd[5]]}
        /\ phase' = "result" /\ results' = <<cmd[2], 0, 0, cmd[3], cmd[4], cmd[5], 2>>
        /\ UNCHANGED <<unsensed, st0, answered>>
  /\ UNCHANGED <<driver, dma, dor, issued, seenFor>>

\* IRQ6: int_handler() sets the flag.
Int26 ==
  /\ irq
  /\ irq' = FALSE
  /\ fdc_intr' = TRUE
  /\ seenFor' = raisedFor
  /\ UNCHANGED <<pc, result, at, status, buf, frame, dma, phase, cmd, results, unsensed, st0, dor,
                 issued, raisedFor, answered, failed>>

-----------------------------------------------------------------------------
Driver == \/ Wait \/ Clear \/ Check \/ Demand \/ Verify \/ Return
          \/ Motor \/ Dma \/ Memcpy \/ Reset \/ Read \/ Write

Next == Driver \/ Finish \/ Int26

Spec == Init /\ [][Next]_vars

\* task_fdc gets its turns, interrupts are served, and the controller ends
\* what it started.
FairSpec == Spec /\ WF_vars(Driver) /\ WF_vars(Int26) /\ WF_vars(Finish)

-----------------------------------------------------------------------------
TypeOK ==
  /\ pc \in 1 .. Len(Program) + 1
  /\ fdc_intr \in BOOLEAN /\ irq \in BOOLEAN
  /\ result \in {"none", "FDC_OK", "FDC_ERROR"}
  /\ at \in Sector \cup {[c |-> FD_CYLINDERS, h |-> 0, s |-> 1]}
  /\ status \in [1 .. 7 -> Byte]
  /\ buf \in Seq(Sector \cup {Nowhere}) /\ frame \in Sector \cup {Nowhere}
  /\ dma.flip \in 1 .. 2 /\ dma.addr \in Byte \X Byte /\ dma.count \in Byte \X Byte
  /\ dma.page \in Byte
  /\ phase \in {"absent", "command", "executing", "result"}
  /\ unsensed \in 0 .. 4 /\ st0 \in Byte
  /\ dor \in [drive : Drive, on : BOOLEAN]
  /\ {issued, raisedFor, seenFor} \subseteq Nat
  /\ answered \in [Drive -> Byte] /\ failed \subseteq Sector

(***************************************************************************)
(* Driver and controller agree on whose turn it is, although the driver    *)
(* does not ask: a byte is written only when the controller takes one, a   *)
(* command starts only when the result of the one before was read to its   *)
(* end, a result is read only where there is one, the sector is copied     *)
(* only when nothing is being transferred, and a drive is recalibrated and *)
(* read only while it is selected and its motor is on.  And the driver     *)
(* takes each answer for what it answers: init_fdc() reports FDC_OK only   *)
(* if both drives were ready and ended their recalibration, though one     *)
(* may not have found track 0.                                             *)
(***************************************************************************)
InSync ==
  phase # "absent" =>
    /\ Doing("out") \/ Doing("check") \/ Doing("demand") => Ready
    /\ Doing("in") => phase = "result"
    /\ Doing("memcpy") => phase = "command" /\ cmd = <<>>
    /\ phase = "executing" /\ cmd[1] \in {"recalibrate", "read"} =>
         dor = [drive |-> cmd[2], on |-> TRUE]
    /\ result = "FDC_OK" => \A d \in Drive : answered[d] \in {32 + d, 112 + d}

(***************************************************************************)
(* The interrupt the driver goes on with is the one of the command it sent *)
(* last; fdc_cmd_recalibrate does not clear the flag before it sends its   *)
(* own.                                                                    *)
(***************************************************************************)
FlagForThisCommand == Doing("wait") /\ fdc_intr => seenFor = issued

(***************************************************************************)
(* task_fdc's three loops number the sectors as calc_chs() does, and each  *)
(* is where its number says, unless the read failed, which nobody checks.  *)
(***************************************************************************)
calc_chs(lba) == [c |-> lba \div (FD_HEADS * FD_SECTORS),
                  h |-> (lba \div FD_SECTORS) % FD_HEADS,
                  s |-> (lba % FD_SECTORS) + 1]

Image ==
  \A i \in DOMAIN buf : calc_chs(i - 1) \in failed \/ buf[i] = calc_chs(i - 1)

(***************************************************************************)
(* With a controller, the whole disk is read in the end: no interrupt is   *)
(* missed, although every wait is without a timeout.                       *)
(***************************************************************************)
Loaded == phase # "absent" ~> Len(buf) = FD_CYLINDERS * FD_HEADS * FD_SECTORS
=============================================================================
