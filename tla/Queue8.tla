------------------------------- MODULE Queue8 -------------------------------
(***************************************************************************)
(* The byte ring of kernel/queue.c between an interrupt handler and a      *)
(* task, as com1_in is used: int_handler_serial() puts a byte with         *)
(* interrupts off, console_run() takes bytes with interrupts on, so a byte *)
(* may arrive between any two instructions of q8_de().                     *)
(*                                                                         *)
(* q8_de() stores head twice: head++, then head %= size.  In between head  *)
(* may be size, an index q8_full() never compares equal to.                *)
(***************************************************************************)
EXTENDS Integers, Sequences

CONSTANTS
  Byte,         \* the data
  Zero,         \* the byte memset() fills the buffer with
  QSize,        \* the size q8_make() is called with
  MaxArrivals,  \* bound: bytes that arrive
  MaxInWindow   \* how many may arrive between the two stores: 1 as the UART
                \* raises an interrupt per byte, more if the task is preempted

ASSUME QueueAssumption ==
  /\ Zero \in Byte
  /\ QSize \in Nat
  /\ MaxArrivals \in Nat
  /\ MaxInWindow \in Nat

BufSize == QSize + 1    \* the bytes q8_make() allocates for the buffer
Size    == BufSize + 1  \* q->size, as q8_init() sets it
Index   == 0 .. Size - 1

VARIABLES
  buf,         \* buf[i]; buf[BufSize] is the byte behind the buffer
  head, tail, drop,
  pc,          \* where the reader is in q8_de()
  data,        \* its local variable
  arrived,     \* history: bytes the UART delivered
  taken, last, \* history: how many bytes the reader took, the last one
  inWindow     \* history: arrivals since the reader stored head++

vars == <<buf, head, tail, drop, pc, data, arrived, taken, last, inWindow>>

\* q8_make() and q8_init().
Init ==
  /\ buf  = [i \in Index |-> Zero]
  /\ head = 0 /\ tail = 0 /\ drop = 0
  /\ pc = "out" /\ data = Zero
  /\ arrived = 0 /\ taken = 0 /\ last = Zero /\ inWindow = 0

q8_empty == tail = head

FullIfEqual == tail + 1 = head                   \* mutant
q8_full == (tail + 1) % Size = head

q8_usage == IF head <= tail THEN tail - head ELSE (Size - head) + tail

-----------------------------------------------------------------------------
\* q8_in(v), called by the interrupt handler.
q8_in(v) ==
  /\ arrived < MaxArrivals
  /\ pc = "wrap" => inWindow < MaxInWindow
  /\ \/ /\ q8_full
        /\ drop' = drop + 1
        /\ UNCHANGED <<buf, tail>>
     \/ /\ ~q8_full
        /\ buf' = [buf EXCEPT ![tail] = v]
        /\ tail' = (tail + 1) % Size
        /\ UNCHANGED drop
  /\ arrived' = arrived + 1
  /\ inWindow' = IF pc = "wrap" THEN inWindow + 1 ELSE 0
  /\ UNCHANGED <<head, pc, data, taken, last>>

\* q8_de(), called when the queue was seen not to be empty: the byte is read,
ReadByte ==
  /\ pc = "out"
  /\ ~q8_empty
  /\ data' = buf[head]
  /\ pc' = "advance"
  /\ UNCHANGED <<buf, head, tail, drop, arrived, taken, last, inWindow>>

\* head++,
Advance ==
  /\ pc = "advance"
  /\ head' = head + 1
  /\ taken' = taken + 1
  /\ last' = data
  /\ pc' = "wrap"
  /\ inWindow' = 0
  /\ UNCHANGED <<buf, tail, drop, data, arrived>>

\* head %= size.
WrappedAtBuffer(h) == h % BufSize                 \* mutant
Wrapped(h) == h % Size

Wrap ==
  /\ pc = "wrap"
  /\ head' = Wrapped(head)
  /\ pc' = "out"
  /\ UNCHANGED <<buf, tail, drop, data, arrived, taken, last,
                 inWindow>>

q8_de == ReadByte \/ Advance \/ Wrap

Next == q8_de \/ \E v \in Byte : q8_in(v)

Spec == Init /\ [][Next]_vars

\* console_run() is called again and again and empties the queue each time.
FairSpec == Spec /\ WF_vars(q8_de)

-----------------------------------------------------------------------------
TypeOK ==
  /\ buf \in [Index -> Byte]
  /\ head \in 0 .. Size /\ (head = Size => pc = "wrap")
  /\ tail \in Index
  /\ drop \in 0 .. MaxArrivals
  /\ pc \in {"out", "advance", "wrap"}
  /\ data \in Byte /\ last \in Byte
  /\ arrived \in 0 .. MaxArrivals
  /\ taken \in Nat
  /\ inWindow \in 0 .. MaxInWindow

(***************************************************************************)
(* Every byte that arrived was taken, is in the queue or was counted in    *)
(* q->drop (the comment in q8_in: the queue is full).                      *)
(***************************************************************************)
NothingLost == pc # "wrap" => arrived = taken + q8_usage + drop

(***************************************************************************)
(* The ring implements a bounded queue of BufSize bytes.  A byte leaves    *)
(* the abstract queue when head++ is stored.                               *)
(***************************************************************************)
First  == IF head = Size THEN 0 ELSE head
Length == IF First <= tail THEN tail - First ELSE (Size - First) + tail
Items  == [i \in 1 .. Length |-> buf[(First + i - 1) % Size]]

Fifo == INSTANCE BoundedFifo WITH Capacity <- BufSize, items <- Items,
                                  dropped <- drop, out <- last

\* What makes it so: the reader only leaves its window with the slot it gave
\* up still free, and the byte it read is still there when it advances.
RingInv ==
  /\ TypeOK
  /\ arrived = taken + Length + drop
  /\ pc = "advance" => ~q8_empty /\ data = buf[head]
  /\ pc = "wrap" => head > 0 /\ Length < BufSize + inWindow

\* Bytes come out in order, and what was taken in is not lost: q8_in and
\* q8_de of the code implement Put and Take.
ImplementsFifo == Fifo!Spec

\* The same, and no byte stays in the queue.
ImplementsFairFifo == Fifo!FairSpec
=============================================================================
