--------------------------- MODULE Queue8_proofs ---------------------------
(***************************************************************************)
(* Proofs about Queue8, for every size of the queue: while at most one     *)
(* byte arrives between the two stores of head, no byte is lost, and the   *)
(* ring implements a bounded first-in first-out queue.                     *)
(***************************************************************************)
EXTENDS Queue8, SequenceTheorems, TLAPS

LEMMA SizeNat == BufSize \in Nat /\ BufSize > 0 /\ Size = BufSize + 1 /\ Size \in Nat
  BY QueueAssumption DEF BufSize, Size

\* Wrapping an index at size.
LEMMA Modulo ==
  ASSUME NEW n \in Nat, n > 0, NEW i \in Nat, i < 2 * n
  PROVE  i % n = IF i < n THEN i ELSE i - n
<1>1. CASE i < n
  BY <1>1
<1>2. CASE i >= n
  BY <1>2
<1> QED
  BY <1>1, <1>2

\* The number of bytes in the ring.
LEMMA LengthRange ==
  ASSUME TypeOK
  PROVE  /\ First \in Index /\ Length \in Nat /\ Length < Size
         /\ Length = 0 <=> First = tail
         /\ head # Size => First = head
         /\ pc # "wrap" => First = head /\ Length = q8_usage
  BY SizeNat DEF TypeOK, First, Length, Index, q8_usage

LEMMA InitRing == Init => RingInv
<1> SUFFICES ASSUME Init PROVE RingInv
  OBVIOUS
<1>1. TypeOK
  BY SizeNat, QueueAssumption DEF Init, TypeOK, Index
<1>2. Length = 0
  BY <1>1, LengthRange DEF Init, First
<1> QED
  BY <1>1, <1>2 DEF Init, RingInv

\* q8_in: where the byte goes.
LEMMA PutStep ==
  ASSUME RingInv, MaxInWindow <= 1, NEW v \in Byte, q8_in(v)
  PROVE  /\ RingInv'
         /\ First' = First
         /\ \/ /\ Length = BufSize /\ Length' = Length
               /\ UNCHANGED buf /\ drop' = drop + 1
            \/ /\ Length < BufSize /\ Length' = Length + 1
               /\ buf' = [buf EXCEPT ![tail] = v] /\ UNCHANGED drop
<1> USE SizeNat, QueueAssumption
<1>1. /\ head \in 0 .. Size /\ tail \in Index /\ inWindow \in Nat /\ drop \in Nat
      /\ arrived \in Nat /\ taken \in Nat
      /\ First \in Index /\ Length \in Nat /\ Length < Size
      /\ arrived = taken + Length + drop
  BY LengthRange DEF RingInv, TypeOK
<1>2. (tail + 1) % Size = IF tail + 1 < Size THEN tail + 1 ELSE 0
  BY <1>1, Modulo DEF Index
<1>3. First' = First /\ UNCHANGED <<head, pc, data, taken, last>>
  BY DEF q8_in, First
<1>4. q8_full => Length = BufSize
  BY <1>1, <1>2 DEF q8_full, First, Length, Index
<1>5. ~q8_full => Length < BufSize
  <2>1. CASE head = Size
    <3>1. pc = "wrap" /\ inWindow = 0
      BY <2>1 DEF RingInv, TypeOK, q8_in
    <3> QED
      BY <3>1, <1>1 DEF RingInv
  <2>2. CASE head # Size
    BY <1>1, <1>2, <2>2 DEF q8_full, First, Length, Index
  <2> QED
    BY <2>1, <2>2
<1>6. /\ arrived' = arrived + 1 /\ arrived' \in 0 .. MaxArrivals
      /\ inWindow' = IF pc = "wrap" THEN inWindow + 1 ELSE 0
      /\ pc = "wrap" => inWindow = 0 /\ MaxInWindow = 1
  BY <1>1 DEF q8_in, RingInv, TypeOK
<1>7. inWindow' \in 0 .. MaxInWindow
  BY <1>6
<1>8. CASE q8_full
  <2>1. UNCHANGED <<buf, tail>> /\ drop' = drop + 1
    BY <1>8 DEF q8_in
  <2>2. Length' = Length
    BY <1>3, <2>1 DEF Length
  <2>3. arrived' = taken' + Length' + drop' /\ drop' \in 0 .. MaxArrivals
    BY <1>1, <1>3, <1>6, <2>1, <2>2
  <2>4. TypeOK'
    BY <1>3, <1>6, <1>7, <2>1, <2>3 DEF RingInv, TypeOK
  <2>5. pc' = "advance" => ~q8_empty' /\ data' = buf'[head']
    BY <1>3, <2>1 DEF RingInv, q8_empty
  <2>6. pc' = "wrap" => head' > 0 /\ Length' < BufSize + inWindow'
    BY <1>1, <1>3, <1>6, <2>2 DEF RingInv
  <2> QED
    BY <1>3, <1>4, <1>8, <2>1, <2>2, <2>3, <2>4, <2>5, <2>6 DEF RingInv
<1>9. CASE ~q8_full
  <2>1. /\ buf' = [buf EXCEPT ![tail] = v] /\ tail' = (tail + 1) % Size /\ UNCHANGED drop
        /\ Length < BufSize
    BY <1>5, <1>9 DEF q8_in
  <2>2. Length' = Length + 1
    BY <1>1, <1>2, <1>3, <2>1 DEF Length, Index
  <2>3. arrived' = taken' + Length' + drop'
    BY <1>1, <1>3, <1>6, <2>1, <2>2
  <2>4. tail' \in Index
    BY <1>1, <1>2, <2>1 DEF Index
  <2>5. TypeOK'
    BY <1>3, <1>6, <1>7, <2>1, <2>4 DEF RingInv, TypeOK
  <2>6. pc' = "advance" => ~q8_empty' /\ data' = buf'[head']
    <3> SUFFICES ASSUME pc = "advance" PROVE head # tail' /\ data = buf'[head]
      BY <1>3 DEF q8_empty
    <3>1. head # tail /\ data = buf[head] /\ head \in Index
      BY <1>1 DEF RingInv, TypeOK, q8_empty, Index
    <3>2. head # tail'
      BY <1>9, <2>1 DEF q8_full
    <3> QED
      BY <2>1, <3>1, <3>2 DEF RingInv, TypeOK
  <2>7. pc' = "wrap" => head' > 0 /\ Length' < BufSize + inWindow'
    BY <1>1, <1>3, <1>6, <2>2 DEF RingInv
  <2> QED
    BY <1>3, <2>1, <2>2, <2>3, <2>5, <2>6, <2>7 DEF RingInv
<1> QED
  BY <1>8, <1>9

\* head++: the first byte leaves the queue.
LEMMA AdvanceStep ==
  ASSUME RingInv, Advance
  PROVE  /\ RingInv'
         /\ Length > 0 /\ Length' = Length - 1
         /\ First' = (First + 1) % Size
         /\ last' = buf[First] /\ UNCHANGED <<buf, drop>>
<1> USE SizeNat, QueueAssumption
<1>1. /\ head \in Index /\ tail \in Index /\ taken \in Nat /\ arrived \in Nat /\ drop \in Nat
      /\ First = head /\ head # tail /\ data = buf[head]
      /\ Length \in Nat /\ Length < Size /\ Length > 0
  BY LengthRange DEF RingInv, TypeOK, Advance, q8_empty, Index
<1>2. /\ head' = head + 1 /\ taken' = taken + 1 /\ last' = data /\ pc' = "wrap" /\ inWindow' = 0
      /\ UNCHANGED <<buf, tail, drop, data, arrived>>
  BY DEF Advance
<1>3. First' = (First + 1) % Size
  BY <1>1, <1>2, Modulo DEF First, Index
<1>4. Length' = Length - 1
  <2>1. First' = IF head + 1 = Size THEN 0 ELSE head + 1
    BY <1>2 DEF First
  <2> QED
    BY <1>1, <1>2, <2>1 DEF Length, Index
<1>5. TypeOK'
  BY <1>1, <1>2 DEF RingInv, TypeOK, Index
<1>6. arrived' = taken' + Length' + drop'
  BY <1>1, <1>2, <1>4 DEF RingInv
<1>7. head' > 0 /\ Length' < BufSize + inWindow'
  BY <1>1, <1>2, <1>4 DEF Index
<1>8. RingInv'
  BY <1>2, <1>5, <1>6, <1>7 DEF RingInv
<1> QED
  BY <1>1, <1>2, <1>3, <1>4, <1>8

\* The steps of the reader that leave the queue as it is.
LEMMA ReaderStep ==
  ASSUME RingInv, ReadByte \/ Wrap \/ UNCHANGED vars
  PROVE  /\ RingInv'
         /\ First' = First /\ Length' = Length
         /\ UNCHANGED <<buf, drop, last>>
<1> USE SizeNat, QueueAssumption
<1>1. CASE ReadByte
  BY <1>1 DEF ReadByte, RingInv, TypeOK, First, Length, q8_empty, Index
<1>2. CASE Wrap
  <2>1. head' = IF head = Size THEN 0 ELSE head
    BY <1>2, Modulo DEF Wrap, Wrapped, RingInv, TypeOK
  <2> QED
    BY <1>2, <2>1 DEF Wrap, RingInv, TypeOK, First, Length, q8_empty
<1>3. CASE UNCHANGED vars
  BY <1>3 DEF vars, RingInv, TypeOK, First, Length, q8_empty
<1> QED
  BY <1>1, <1>2, <1>3

(***************************************************************************)
(* No byte is lost without being counted, whatever the size of the queue,  *)
(* while at most one byte arrives between the two stores of head in q8_de. *)
(***************************************************************************)
THEOREM QueueSafe ==
  ASSUME MaxInWindow <= 1
  PROVE  Spec => [](TypeOK /\ NothingLost)
<1>1. RingInv /\ [Next]_vars => RingInv'
  BY PutStep, AdvanceStep, ReaderStep DEF Next, q8_de
<1>2. RingInv => TypeOK /\ NothingLost
  BY LengthRange DEF RingInv, NothingLost
<1> QED
  BY InitRing, <1>1, <1>2, PTL DEF Spec

-----------------------------------------------------------------------------
\* Where the i-th byte of the queue lies.
LEMMA Place ==
  ASSUME TypeOK
  PROVE  /\ \A i \in 1 .. Length : (First + i - 1) % Size \in Index \ {tail}
         /\ (First + Length) % Size = tail
<1> USE SizeNat
<1>1. First \in Index /\ Length \in Nat /\ Length < Size /\ tail \in Index
  BY LengthRange DEF TypeOK
<1>2. (First + Length) % Size = tail
  BY <1>1, Modulo DEF Length, Index
<1>3. ASSUME NEW i \in 1 .. Length
      PROVE  (First + i - 1) % Size \in Index \ {tail}
  <2>1. (First + i - 1) % Size = IF First + i - 1 < Size THEN First + i - 1
                                                         ELSE First + i - 1 - Size
    BY <1>1, Modulo DEF Index
  <2> QED
    BY <1>1, <2>1 DEF Length, Index
<1> QED
  BY <1>2, <1>3

LEMMA Stretch ==
  ASSUME NEW b \in [Index -> Byte], NEW f \in Index, NEW n \in Nat, n < Size
  PROVE  [i \in 1 .. n |-> b[(f + i - 1) % Size]] \in [1 .. n -> Byte]
<1> USE SizeNat
<1>1. ASSUME NEW i \in 1 .. n PROVE (f + i - 1) % Size \in Index
  <2>1. (f + i - 1) % Size = IF f + i - 1 < Size THEN f + i - 1 ELSE f + i - 1 - Size
    BY Modulo DEF Index
  <2> QED
    BY <2>1 DEF Index
<1> QED
  BY <1>1

LEMMA ItemsType ==
  ASSUME TypeOK
  PROVE  Items \in Seq(Byte) /\ Len(Items) = Length
<1>1. Items \in [1 .. Length -> Byte] /\ Length \in Nat
  BY LengthRange, Stretch DEF Items, TypeOK
<1> QED
  BY <1>1

LEMMA PutAppends ==
  ASSUME TypeOK, TypeOK', NEW v \in Byte, First' = First,
         Length < BufSize, Length' = Length + 1,
         buf' = [buf EXCEPT ![tail] = v]
  PROVE  Items' = Append(Items, v)
<1> USE SizeNat
<1>1. /\ Length \in Nat /\ Length' \in Nat /\ Items' \in [1 .. Length' -> Byte]
      /\ Append(Items, v) \in [1 .. Length' -> Byte] /\ Len(Items) = Length
  <2>1. /\ Length \in Nat /\ Length' \in Nat /\ Length' < Size /\ First' \in Index
        /\ Items \in Seq(Byte) /\ Len(Items) = Length
    BY LengthRange, ItemsType
  <2>2. Items' \in [1 .. Length' -> Byte]
    BY <2>1, Stretch DEF Items, TypeOK
  <2>3. Append(Items, v) \in Seq(Byte) /\ Len(Append(Items, v)) = Length'
    BY <2>1
  <2>4. Append(Items, v) \in [1 .. Length' -> Byte]
    BY <2>3, LenProperties
  <2> QED
    BY <2>1, <2>2, <2>4
<1>2. ASSUME NEW i \in 1 .. Length' PROVE Items'[i] = Append(Items, v)[i]
  <2>1. Items'[i] = buf'[(First + i - 1) % Size]
    BY DEF Items
  <2>2. CASE i \in 1 .. Length
    <3>1. (First + i - 1) % Size \in Index \ {tail}
      BY <2>2, Place
    <3>2. Items'[i] = Items[i]
      BY <2>1, <2>2, <3>1 DEF Items, TypeOK
    <3>3. Append(Items, v)[i] = Items[i]
      BY <1>1, <2>2, ItemsType
    <3> QED
      BY <3>2, <3>3
  <2>3. CASE i = Length + 1
    <3>1. (First + i - 1) % Size = tail /\ tail \in Index
      <4>1. First + i - 1 = First + Length
        BY <1>1, <2>3, LengthRange DEF Index
      <4> QED
        BY <4>1, Place DEF TypeOK
    <3>2. Items'[i] = v
      BY <2>1, <3>1 DEF TypeOK
    <3>3. Append(Items, v)[i] = v
      BY <1>1, <2>3, ItemsType
    <3> QED
      BY <3>2, <3>3
  <2> QED
    BY <1>1, <2>2, <2>3
<1> QED
  BY <1>1, <1>2

LEMMA TakeTails ==
  ASSUME TypeOK, TypeOK', Length > 0, Length' = Length - 1,
         First' = (First + 1) % Size, UNCHANGED buf
  PROVE  Items # << >> /\ Head(Items) = buf[First] /\ Items' = Tail(Items)
<1> USE SizeNat
<1>1. /\ First \in Index /\ Length \in Nat /\ Length < Size
      /\ Items \in Seq(Byte) /\ Len(Items) = Length
      /\ Items' \in Seq(Byte) /\ Len(Items') = Length - 1
  <2>1. /\ First \in Index /\ Length \in Nat /\ Length < Size
        /\ Items \in Seq(Byte) /\ Len(Items) = Length
    BY LengthRange, ItemsType
  <2>2. First' \in Index /\ Length' \in Nat /\ Length' < Size
    BY <2>1, Modulo DEF Index
  <2>3. Items' \in [1 .. Length' -> Byte]
    BY <2>2, Stretch DEF Items, TypeOK
  <2> QED
    BY <2>1, <2>2, <2>3
<1>2. Items # << >>
  BY <1>1
<1>3. Head(Items) = buf[First]
  <2>1. (First + 1 - 1) % Size = First
    BY <1>1, Modulo DEF Index
  <2>2. Items[1] = buf[First]
    BY <1>1, <2>1 DEF Items
  <2> QED
    BY <1>1, <2>2
<1>4. ASSUME NEW i \in 1 .. Length - 1 PROVE Items'[i] = Tail(Items)[i]
  <2>1. (First' + i - 1) % Size = (First + (i + 1) - 1) % Size
    <3>1. First' = IF First + 1 < Size THEN First + 1 ELSE 0
      BY <1>1, Modulo DEF Index
    <3>2. CASE First + 1 < Size
      <4>1. First' + i - 1 = First + (i + 1) - 1
        BY <1>1, <3>1, <3>2 DEF Index
      <4> QED
        BY <4>1
    <3>3. CASE First + 1 >= Size
      <4>1. First = Size - 1 /\ First' = 0 /\ i < Size
        BY <1>1, <3>1, <3>3 DEF Index
      <4>2. First' + i - 1 = i - 1 /\ First + (i + 1) - 1 = Size + i - 1
        BY <4>1
      <4>3. (i - 1) % Size = i - 1 /\ (Size + i - 1) % Size = i - 1
        BY <4>1, Modulo
      <4> QED
        BY <4>2, <4>3
    <3> QED
      BY <1>1, <3>2, <3>3 DEF Index
  <2>2. Items'[i] = buf[(First' + i - 1) % Size]
    BY DEF Items
  <2>3. Items[i + 1] = buf[(First + (i + 1) - 1) % Size]
    BY <1>1 DEF Items
  <2>4. Tail(Items)[i] = Items[i + 1]
    BY <1>1
  <2> QED
    BY <2>1, <2>2, <2>3, <2>4
<1>5. Tail(Items) \in Seq(Byte) /\ Len(Tail(Items)) = Length - 1
  BY <1>1, <1>2
<1>6. Items' = Tail(Items)
  BY <1>1, <1>4, <1>5
<1> QED
  BY <1>2, <1>3, <1>6

(***************************************************************************)
(* The ring implements the bounded queue: bytes leave in the order they    *)
(* came, and one is refused only when BufSize bytes are in the queue.      *)
(***************************************************************************)
THEOREM QueueImplementsFifo ==
  ASSUME MaxInWindow <= 1
  PROVE  Spec => ImplementsFifo
<1>1. RingInv /\ [Next]_vars => RingInv'
  BY PutStep, AdvanceStep, ReaderStep DEF Next, q8_de
<1>2. Init => Fifo!Init
  <2> SUFFICES ASSUME Init PROVE Fifo!Init
    OBVIOUS
  <2>1. TypeOK /\ Length = 0
    BY InitRing, LengthRange DEF RingInv, Init, First
  <2>2. Items = << >>
    BY <2>1, ItemsType
  <2> QED
    BY <2>2, QueueAssumption DEF Init, Fifo!Init
<1>3. RingInv /\ RingInv' /\ [Next]_vars => [Fifo!Next]_(Fifo!vars)
  <2> SUFFICES ASSUME RingInv, RingInv', [Next]_vars PROVE [Fifo!Next]_(Fifo!vars)
    OBVIOUS
  <2>1. TypeOK /\ TypeOK' /\ Len(Items) = Length
    BY ItemsType DEF RingInv
  <2>2. ASSUME NEW v \in Byte, q8_in(v) PROVE Fifo!Put(v)
    <3>1. First' = First /\ UNCHANGED last
      BY <2>2, PutStep DEF q8_in
    <3>2. CASE Length = BufSize /\ Length' = Length /\ UNCHANGED buf /\ drop' = drop + 1
      BY <2>1, <3>1, <3>2 DEF Items, Fifo!Put
    <3>3. CASE /\ Length < BufSize /\ Length' = Length + 1
               /\ buf' = [buf EXCEPT ![tail] = v] /\ UNCHANGED drop
      BY <2>1, <3>1, <3>3, PutAppends DEF Fifo!Put
    <3> QED
      BY <2>2, <3>2, <3>3, PutStep
  <2>3. CASE Advance
    BY <2>1, <2>3, AdvanceStep, TakeTails DEF Fifo!Next, Fifo!Take
  <2>4. CASE ReadByte \/ Wrap \/ UNCHANGED vars
    BY <2>4, ReaderStep DEF Items, Fifo!vars
  <2> QED
    BY <2>2, <2>3, <2>4 DEF Next, q8_de, Fifo!Next
<1> QED
  BY InitRing, <1>1, <1>2, <1>3, PTL DEF Spec, ImplementsFifo, Fifo!Spec
=============================================================================
