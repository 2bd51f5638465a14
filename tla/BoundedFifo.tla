---------------------------- MODULE BoundedFifo ----------------------------
(***************************************************************************)
(* What a byte queue promises: bytes come out in the order they went in,   *)
(* a byte that finds the queue full is dropped and counted, and a byte     *)
(* that was taken in comes out.                                            *)
(***************************************************************************)
EXTENDS Naturals, Sequences

CONSTANTS Byte, Capacity

VARIABLES
  items,    \* the bytes in the queue
  dropped,  \* how many found it full
  out       \* the byte taken last

vars == <<items, dropped, out>>

Init == items = << >> /\ dropped = 0 /\ out \in Byte

Put(v) == \/ /\ Len(items) < Capacity
             /\ items' = Append(items, v)
             /\ UNCHANGED <<dropped, out>>
          \/ /\ Len(items) = Capacity
             /\ dropped' = dropped + 1
             /\ UNCHANGED <<items, out>>

Take   == /\ items # << >>
          /\ out' = Head(items)
          /\ items' = Tail(items)
          /\ UNCHANGED dropped

Next == Take \/ \E v \in Byte : Put(v)

Spec == Init /\ [][Next]_vars

FairSpec == Spec /\ WF_vars(Take)
=============================================================================
