----------------------------- MODULE Heap_proofs -----------------------------
(***************************************************************************)
(* Proofs about Vmalloc, for every size of the table and of the extent and *)
(* any number of callers, and about Paging, for any number of frames: what *)
(* a page's frame is rests on the blocks that lie apart.  The last part is *)
(* about KernelMap, for any heap pages.                                    *)
(***************************************************************************)
EXTENDS Paging, KernelMap, Integers, Sequences, TLAPS

-----------------------------------------------------------------------------
\* The blocks.
LEMMA Constants ==
  /\ Unit \subseteq Nat /\ Entry \in Unit /\ Null \notin Unit
  /\ Link = Unit \cup {Null}
  /\ Extent \in Nat /\ Sizes \subseteq Nat \ {0}
  /\ Inside \in Nat /\ Inside > Extent
BY HeapAssumption DEF Unit, Entry, Null, Link, Inside

(***************************************************************************)
(* Types.                                                                  *)
(***************************************************************************)
LEMMA InitType == Init => TypeOK
BY Constants DEF Init, TypeOK, None, Block

LEMMA AbsorbType ==
  ASSUME TypeOK, NEW a \in Unit, NEW b \in Unit, Absorb(a, b)
  PROVE  /\ use' \in [Unit -> BOOLEAN] /\ addr' \in [Unit -> Nat]
         /\ size' \in [Unit -> Nat]
         /\ next' \in [Unit -> Link] /\ prev' \in [Unit -> Link]
<1> USE Constants
<1>1. size' \in [Unit -> Nat]
  BY DEF Absorb, TypeOK
<1> QED
  BY <1>1 DEF Absorb, TypeOK

LEMMA NextType == TypeOK /\ [Next]_vars => TypeOK'
<1> SUFFICES ASSUME TypeOK, [Next]_vars PROVE TypeOK'
  OBVIOUS
<1> USE Constants
<1>1. ASSUME NEW t \in Task, NEW n \in Sizes, Call(t, n) PROVE TypeOK'
  BY <1>1 DEF TypeOK, Call, list
<1>2. ASSUME NEW t \in Task, Walk(t) PROVE TypeOK'
  BY <1>2 DEF TypeOK, Walk, Stops, list
<1>3. ASSUME NEW t \in Task, TakeExact(t) PROVE TypeOK'
  <2>1. given' \in [Task -> Block]
    BY <1>3 DEF TypeOK, TakeExact, Return, Block
  <2> QED
    BY <1>3, <2>1 DEF TypeOK, TakeExact, Return
<1>4. ASSUME NEW t \in Task, NEW b \in Link, Split(t, b) PROVE TypeOK'
  <2> DEFINE p == cur[t]
             n == arg[t]
  <2>1. p \in Unit /\ n \in Nat /\ size[p] \in Nat /\ addr[p] \in Nat /\ size[p] >= n
    <3>1. p \in Unit /\ n \in Nat /\ size[p] \in Nat /\ addr[p] \in Nat
      BY <1>4 DEF TypeOK, Split, MapPages
    <3>2. IF next[p] = Null THEN size[p] >= n ELSE size[p] > n
      BY <1>4 DEF Split, MapPages
    <3> QED
      BY <3>1, <3>2
  <2>2. given' \in [Task -> Block]
    BY <1>4, <2>1 DEF TypeOK, Split, Return, Block, MapPages
  <2>3. size' \in [Unit -> Nat]
    <3>1. size[p] - n \in Nat
      BY <2>1
    <3>2. size' = [size EXCEPT ![b] = size[p] - n, ![p] = n]
      BY <1>4 DEF Split, MapPages
    <3> QED
      BY <2>1, <3>1, <3>2 DEF TypeOK
  <2>4. mapped' \subseteq Nat /\ addr' \in [Unit -> Nat]
    <3>1. addr' = [addr EXCEPT ![b] = addr[p] + n] /\ mapped' = mapped \cup Pages(addr[p], n)
      BY <1>4 DEF Split, MapPages
    <3>2. addr[p] + n \in Nat /\ Pages(addr[p], n) \subseteq Nat
      BY <2>1 DEF Pages
    <3> QED
      BY <3>1, <3>2 DEF TypeOK
  <2>5. /\ use' \in [Unit -> BOOLEAN] /\ alloc' \in [Unit -> BOOLEAN]
        /\ next' \in [Unit -> Link] /\ prev' \in [Unit -> Link]
    <3>1. /\ use' = [use EXCEPT ![b] = TRUE] /\ alloc' = [alloc EXCEPT ![p] = TRUE]
          /\ next' = [next EXCEPT ![b] = next[p], ![p] = b]
          /\ prev' = [prev EXCEPT ![b] = p]
      BY <1>4 DEF Split, MapPages
    <3> QED
      BY <2>1, <3>1 DEF TypeOK
  <2>6. flaw' \subseteq {"split", "table"}
    BY <1>4 DEF TypeOK, Split, MapPages
  <2> QED
    BY <1>4, <2>2, <2>3, <2>4, <2>5, <2>6 DEF TypeOK, Split, Return, MapPages
<1>5. ASSUME NEW t \in Task, Retry(t) PROVE TypeOK'
  BY <1>5 DEF TypeOK, Retry, list
<1>6. ASSUME NEW t \in Task, NEW a \in {given[t].addr, Inside}, CallFree(t, a) PROVE TypeOK'
  <2>1. a \in Nat
    BY DEF TypeOK, Block
  <2> QED
    BY <1>6, <2>1 DEF TypeOK, CallFree, list
<1>7. ASSUME NEW t \in Task, Find(t) PROVE TypeOK'
  BY <1>7 DEF TypeOK, Find, Found, list
<1>8. ASSUME NEW t \in Task, NotFound(t) PROVE TypeOK'
  BY <1>8 DEF TypeOK, NotFound, list, None, Block
<1>9. ASSUME NEW t \in Task, MergeNext(t) PROVE TypeOK'
  <2> DEFINE p == cur[t]
             q == next[p]
  <2>1. p \in Unit /\ q \in Link
    BY <1>9 DEF TypeOK, MergeNext, Joinable
  <2>2. given' \in [Task -> Block]
    BY <1>9 DEF TypeOK, MergeNext, None, Block, Joinable
  <2>3. CASE q # Null /\ ~alloc[q] /\ Absorb(p, q) /\ alloc' = [alloc EXCEPT ![p] = FALSE, ![q] = FALSE]
    BY <1>9, <2>1, <2>2, <2>3, AbsorbType DEF TypeOK, MergeNext, Joinable
  <2>4. CASE UNCHANGED <<use, addr, size, next, prev>> /\ alloc' = [alloc EXCEPT ![p] = FALSE]
    BY <1>9, <2>1, <2>2, <2>4 DEF TypeOK, MergeNext, Joinable
  <2> QED
    BY <1>9, <2>3, <2>4 DEF MergeNext, Joinable
<1>10. ASSUME NEW t \in Task, MergePrev(t) PROVE TypeOK'
  <2> DEFINE p == cur[t]
             q == prev[p]
  <2>1. p \in Unit /\ q \in Link
    BY <1>10 DEF TypeOK, MergePrev, Joinable
  <2>2. CASE q # Null /\ ~alloc[q] /\ Absorb(q, p) /\ alloc' = [alloc EXCEPT ![p] = FALSE]
    BY <1>10, <2>1, <2>2, AbsorbType DEF TypeOK, MergePrev, Joinable
  <2>3. CASE UNCHANGED list
    BY <1>10, <2>3 DEF TypeOK, MergePrev, list, Joinable
  <2> QED
    BY <1>10, <2>2, <2>3 DEF MergePrev, Joinable
<1>11. CASE UNCHANGED vars
  BY <1>11 DEF TypeOK, vars, list
<1> QED
  BY <1>1, <1>2, <1>3, <1>4, <1>5, <1>6, <1>7, <1>8, <1>9, <1>10, <1>11
  DEF Next, vmalloc, vfree

(***************************************************************************)
(* The table, the mapping and the callers' state keep their types, also    *)
(* when calls overlap and after the heap was damaged.                      *)
(***************************************************************************)
THEOREM TypeCorrect == Spec => []TypeOK
BY InitType, NextType, PTL DEF Spec

-----------------------------------------------------------------------------
\* The list of blocks on its own: what the two updates preserve.
Heap == Linked /\ Apart /\ Covered /\ Mapped

\* Block b follows block a and a takes it over.
LEMMA AbsorbHeap ==
  ASSUME TypeOK, Heap, NEW a \in Unit, NEW b \in Unit,
         use[a], use[b], next[a] = b, ~alloc[b], Absorb(a, b),
         alloc' \in [Unit -> BOOLEAN], \A c \in Unit : alloc'[c] <=> alloc[c] /\ c # a /\ c # b,
         mapped' = mapped
  PROVE  Heap'
<1> USE Constants DEF Heap
<1> DEFINE c == next[b]
<1>1. /\ a # b /\ b # Entry /\ prev[b] = a
      /\ addr[b] = addr[a] + size[a] /\ size[a] > 0
      /\ addr[a] \in Nat /\ size[a] \in Nat /\ size[b] \in Nat
  BY DEF Linked, TypeOK
<1>2. c \in Link /\ (c # Null => c \in Unit /\ use[c] /\ c # a /\ c # b
                              /\ prev[c] = b /\ addr[c] = addr[b] + size[b] /\ size[b] > 0)
  BY <1>1 DEF Linked, TypeOK
<1>3. /\ \A d \in Unit : use'[d] <=> use[d] /\ d # b
      /\ \A d \in Unit : next'[d] = IF d = a THEN c ELSE IF d = b THEN Null ELSE next[d]
      /\ \A d \in Unit : size'[d] = IF d = a THEN size[a] + size[b]
                                    ELSE IF d = b THEN 0 ELSE size[d]
      /\ \A d \in Unit : prev'[d] = IF d = b THEN Null ELSE IF d = c THEN a ELSE prev[d]
      /\ addr' = addr
  BY <1>1, <1>2 DEF Absorb, TypeOK
<1>4. \A d \in Unit : next[d] = c /\ use[d] /\ c # Null => d = b
  BY <1>2 DEF Linked
<1>5. \A d \in Unit : next[d] = b /\ use[d] => d = a
  BY <1>1 DEF Linked
<1>6. Linked'
  <2>1. use'[Entry] /\ addr'[Entry] = 0
    BY <1>1, <1>3 DEF Linked
  <2>2. ASSUME NEW d \in Unit, use'[d]
        PROVE  /\ prev'[d] = Null <=> d = Entry
               /\ prev'[d] # Null => use'[prev'[d]] /\ next'[prev'[d]] = d
    <3>1. CASE d = c
      BY <1>1, <1>2, <1>3, <2>2, <3>1 DEF Linked
    <3>2. CASE d # c
      <4>1. use[d] /\ d # b /\ prev'[d] = prev[d] /\ (prev[d] = Null <=> d = Entry)
        BY <1>3, <2>2, <3>2 DEF Linked
      <4>2. ASSUME prev[d] # Null PROVE use'[prev[d]] /\ next'[prev[d]] = d
        <5>1. prev[d] \in Unit /\ use[prev[d]] /\ next[prev[d]] = d
          BY <4>1, <4>2 DEF Linked, TypeOK
        <5>2. prev[d] # b /\ prev[d] # a
          BY <5>1, <3>2, <4>1
        <5> QED
          BY <1>3, <5>1, <5>2
      <4> QED
        BY <4>1, <4>2
    <3> QED
      BY <3>1, <3>2
  <2>3. ASSUME NEW d \in Unit, use'[d], next'[d] # Null
        PROVE  /\ use'[next'[d]] /\ prev'[next'[d]] = d
               /\ addr'[next'[d]] = addr'[d] + size'[d]
               /\ size'[d] > 0
    <3>1. CASE d = a
      <4>1. c \in Unit /\ use[c] /\ c # a /\ c # b /\ addr[c] = addr[b] + size[b]
        BY <1>2, <1>3, <2>3, <3>1
      <4>2. next'[a] = c /\ use'[c] /\ prev'[c] = a /\ use'[a]
        BY <1>1, <1>3, <4>1
      <4>3. size'[a] = size[a] + size[b] /\ addr'[c] = addr[b] + size[b] /\ addr'[a] = addr[a]
        BY <1>3, <4>1
      <4> QED
        BY <1>1, <3>1, <4>2, <4>3, SMTT(30)
    <3>2. CASE d # a
      <4>1. use[d] /\ d # b /\ next'[d] = next[d] /\ size'[d] = size[d]
        BY <1>3, <2>3, <3>2
      <4>2. next[d] \in Unit /\ use[next[d]] /\ prev[next[d]] = d /\ next[d] # b /\ next[d] # c
            /\ addr[next[d]] = addr[d] + size[d] /\ size[d] > 0
        BY <1>4, <1>5, <2>3, <3>2, <4>1 DEF Linked, TypeOK
      <4>3. use'[next[d]] /\ prev'[next[d]] = d
        BY <1>3, <4>2
      <4> QED
        BY <1>3, <4>1, <4>2, <4>3, SMTT(30)
    <3> QED
      BY <3>1, <3>2
  <2>4. ASSUME NEW d \in Unit, use'[d], next'[d] = Null
        PROVE  addr'[d] + size'[d] = Extent /\ ~alloc'[d]
    <3>1. CASE d = a
      BY <1>1, <1>2, <1>3, <2>4, <3>1 DEF Linked, TypeOK
    <3>2. CASE d # a
      BY <1>3, <2>4, <3>2 DEF Linked
    <3> QED
      BY <3>1, <3>2
  <2>5. \A d, e \in Unit : use'[d] /\ use'[e] /\ next'[d] = Null /\ next'[e] = Null => d = e
    BY <1>1, <1>3 DEF Linked
  <2>6. \A d \in Unit : ~use'[d] => ~alloc'[d]
    BY <1>3 DEF Linked
  <2> QED
    BY <2>1, <2>2, <2>3, <2>4, <2>5, <2>6 DEF Linked
<1>7. Apart'
  <2>1. \A d \in Unit : use'[d] => addr'[d] + size'[d] <= Extent
    BY <1>1, <1>3 DEF Apart, TypeOK
  <2>2. ASSUME NEW e \in Unit, use[e], e # a, e # b
        PROVE  addr[a] + (size[a] + size[b]) <= addr[e] \/ addr[e] + size[e] <= addr[a]
    <3>1. addr[e] \in Nat /\ size[e] \in Nat
      BY DEF TypeOK
    <3>2. /\ addr[a] + size[a] <= addr[e] \/ addr[e] + size[e] <= addr[a]
          /\ addr[b] + size[b] <= addr[e] \/ addr[e] + size[e] <= addr[b]
      BY <2>2 DEF Apart
    <3>3. CASE next[e] # Null
      <4>1. size[e] > 0
        BY <2>2, <3>3 DEF Linked
      <4> QED
        BY <1>1, <3>1, <3>2, <4>1
    <3>4. CASE next[e] = Null
      <4>1. addr[e] + size[e] = Extent
        BY <2>2, <3>4 DEF Linked
      <4>2. next[b] # Null
        BY <2>2, <3>4 DEF Linked
      <4>3. size[b] > 0 /\ addr[b] + size[b] <= Extent
        BY <1>2, <4>2 DEF Apart
      <4> QED
        BY <1>1, <3>1, <3>2, <4>1, <4>3
    <3> QED
      BY <3>3, <3>4
  <2>3. \A d, e \in Unit : use'[d] /\ use'[e] /\ d # e =>
          addr'[d] + size'[d] <= addr'[e] \/ addr'[e] + size'[e] <= addr'[d]
    BY <1>1, <1>3, <2>2 DEF Apart
  <2> QED
    BY <2>1, <2>3 DEF Apart
<1>8. Covered'
  <2> SUFFICES ASSUME NEW x \in 0 .. Extent - 1
               PROVE  \E d \in Unit : use'[d] /\ addr'[d] <= x /\ x < addr'[d] + size'[d]
    BY DEF Covered
  <2>1. PICK d \in Unit : use[d] /\ addr[d] <= x /\ x < addr[d] + size[d]
    BY DEF Covered
  <2>2. CASE d \in {a, b}
    BY <1>1, <1>3, <2>1, <2>2
  <2>3. CASE d \notin {a, b}
    BY <1>3, <2>1, <2>3
  <2> QED
    BY <2>2, <2>3
<1>9. Mapped'
  <2> SUFFICES ASSUME NEW d \in Unit, use'[d], next'[d] # Null
               PROVE  Pages(addr'[d], size'[d]) \subseteq mapped'
    BY DEF Mapped
  <2>1. CASE d = a
    <3>1. Pages(addr[a], size[a]) \subseteq mapped /\ Pages(addr[b], size[b]) \subseteq mapped
      BY <1>1, <1>2, <1>3, <2>1 DEF Mapped
    <3>2. Pages(addr[a], size[a] + size[b])
            \subseteq Pages(addr[a], size[a]) \cup Pages(addr[b], size[b])
      BY <1>1 DEF Pages
    <3> QED
      BY <1>3, <2>1, <3>1, <3>2
  <2>2. CASE d # a
    BY <1>3, <2>2 DEF Mapped
  <2> QED
    BY <2>1, <2>2
<1> QED
  BY <1>6, <1>7, <1>8, <1>9

\* The last block is cut after its first n pages and an unused entry gets
\* the rest.
LEMMA SplitHeap ==
  ASSUME TypeOK, Heap, NEW t \in Task, NEW b \in Unit, Split(t, b),
         use[cur[t]], next[cur[t]] = Null, arg[t] > 0
  PROVE  Heap'
<1> USE Constants DEF Heap
<1> DEFINE p == cur[t]
           n == arg[t]
<1>1. /\ p \in Unit /\ n \in Nat /\ n > 0 /\ size[p] >= n /\ ~use[b] /\ b # p /\ b # Entry
      /\ addr[p] \in Nat /\ size[p] \in Nat /\ addr[p] + size[p] = Extent
      /\ use[p] /\ next[p] = Null
  <2>1. p \in Unit /\ n \in Nat /\ addr[p] \in Nat /\ size[p] \in Nat
    BY DEF Split, TypeOK
  <2>2. size[p] >= n /\ ~use[b]
    BY <2>1 DEF Split, IsNewBlock
  <2>3. use[Entry] /\ addr[p] + size[p] = Extent
    BY <2>1 DEF Linked
  <2> QED
    BY <2>1, <2>2, <2>3
<1>2. /\ \A d \in Unit : use'[d] <=> use[d] \/ d = b
      /\ \A d \in Unit : alloc'[d] <=> alloc[d] \/ d = p
      /\ \A d \in Unit : next'[d] = IF d = p THEN b ELSE IF d = b THEN Null ELSE next[d]
      /\ \A d \in Unit : prev'[d] = IF d = b THEN p ELSE prev[d]
      /\ \A d \in Unit : size'[d] = IF d = p THEN n ELSE IF d = b THEN size[p] - n ELSE size[d]
      /\ \A d \in Unit : addr'[d] = IF d = b THEN addr[p] + n ELSE addr[d]
      /\ mapped' = mapped \cup Pages(addr[p], n)
  BY <1>1 DEF Split, TypeOK, MapPages
<1>3. \A d \in Unit : use[d] => next[d] # b /\ prev[d] # b
  BY <1>1 DEF Linked
<1>4. Linked'
  <2>1. use'[Entry] /\ addr'[Entry] = 0
    BY <1>1, <1>2 DEF Linked
  <2>2. ASSUME NEW d \in Unit, use'[d]
        PROVE  /\ prev'[d] = Null <=> d = Entry
               /\ prev'[d] # Null => use'[prev'[d]] /\ next'[prev'[d]] = d
    <3>1. CASE d = b
      <4>1. p # Null /\ d # Entry
        BY <1>1, <3>1
      <4>2. prev'[d] = p /\ use'[p] /\ next'[p] = d
        BY <1>1, <1>2, <3>1
      <4> QED
        BY <4>1, <4>2
    <3>2. CASE d # b
      <4>1. use[d] /\ prev'[d] = prev[d] /\ (prev[d] = Null <=> d = Entry)
        BY <1>2, <2>2, <3>2 DEF Linked
      <4>2. ASSUME prev[d] # Null PROVE use'[prev[d]] /\ next'[prev[d]] = d
        <5>1. prev[d] \in Unit /\ use[prev[d]] /\ next[prev[d]] = d
          BY <4>1, <4>2 DEF Linked, TypeOK
        <5>2. prev[d] # b /\ prev[d] # p
          BY <1>1, <5>1
        <5> QED
          BY <1>2, <5>1, <5>2
      <4> QED
        BY <4>1, <4>2
    <3> QED
      BY <3>1, <3>2
  <2>3. ASSUME NEW d \in Unit, use'[d], next'[d] # Null
        PROVE  /\ use'[next'[d]] /\ prev'[next'[d]] = d
               /\ addr'[next'[d]] = addr'[d] + size'[d]
               /\ size'[d] > 0
    <3>1. CASE d = p
      BY <1>1, <1>2, <3>1
    <3>2. CASE d # p
      <4>1. use[d] /\ d # b /\ next'[d] = next[d] /\ size'[d] = size[d] /\ addr'[d] = addr[d]
        BY <1>2, <2>3, <3>2
      <4> DEFINE e == next[d]
      <4>2. e \in Unit /\ e # b /\ use[e] /\ prev[e] = d
            /\ addr[e] = addr[d] + size[d] /\ size[d] > 0
        BY <1>3, <2>3, <4>1 DEF Linked, TypeOK
      <4>3. use'[e] /\ prev'[e] = d /\ addr'[e] = addr[e]
        BY <1>2, <4>2
      <4> QED
        BY <4>1, <4>2, <4>3
    <3> QED
      BY <3>1, <3>2
  <2>4. ASSUME NEW d \in Unit, use'[d], next'[d] = Null
        PROVE  addr'[d] + size'[d] = Extent /\ ~alloc'[d]
    <3>1. d = b
      <4>1. d # p
        BY <1>1, <1>2, <2>4
      <4>2. d # b => use[d] /\ next[d] = Null
        BY <1>2, <2>4, <4>1
      <4> QED
        BY <1>1, <4>1, <4>2 DEF Linked
    <3>2. addr'[b] = addr[p] + n /\ size'[b] = size[p] - n
      BY <1>1, <1>2
    <3> QED
      BY <1>1, <1>2, <3>1, <3>2 DEF Linked
  <2>5. \A d, e \in Unit : use'[d] /\ use'[e] /\ next'[d] = Null /\ next'[e] = Null => d = e
    <3>1. ASSUME NEW d \in Unit, use'[d], next'[d] = Null PROVE d = b
      <4>1. d # p
        BY <1>1, <1>2, <3>1
      <4>2. d # b => use[d] /\ next[d] = Null
        BY <1>2, <3>1, <4>1
      <4> QED
        BY <1>1, <4>1, <4>2 DEF Linked
    <3> QED
      BY <3>1
  <2>6. \A d \in Unit : ~use'[d] => ~alloc'[d]
    BY <1>1, <1>2 DEF Linked
  <2> QED
    BY <2>1, <2>2, <2>3, <2>4, <2>5, <2>6 DEF Linked
<1>5. Apart'
  <2>1. \A d \in Unit : use'[d] => addr'[d] + size'[d] <= Extent
    BY <1>1, <1>2 DEF Apart
  <2>2. ASSUME NEW e \in Unit, use[e], e # p
        PROVE  addr[e] + size[e] <= addr[p]
    <3>1. addr[e] \in Nat /\ size[e] \in Nat /\ addr[e] + size[e] <= Extent
      BY <2>2 DEF Apart, TypeOK
    <3>2. next[e] # Null /\ size[e] > 0
      BY <1>1, <2>2 DEF Linked
    <3>3. addr[p] + size[p] <= addr[e] \/ addr[e] + size[e] <= addr[p]
      BY <1>1, <2>2 DEF Apart
    <3> QED
      BY <1>1, <3>1, <3>2, <3>3
  <2>3. ASSUME NEW d \in Unit, NEW e \in Unit, use'[d], use'[e], d # e
        PROVE  addr'[d] + size'[d] <= addr'[e] \/ addr'[e] + size'[e] <= addr'[d]
    <3>1. ASSUME NEW u \in Unit, use'[u], u \notin {p, b}
          PROVE  /\ addr'[u] \in Nat /\ size'[u] \in Nat
                 /\ addr'[u] + size'[u] <= addr[p]
      <4>1. use[u] /\ addr'[u] = addr[u] /\ size'[u] = size[u]
        BY <1>2, <3>1
      <4> QED
        BY <2>2, <3>1, <4>1 DEF TypeOK
    <3>2. ASSUME NEW u \in {p, b}
          PROVE  addr'[u] \in Nat /\ addr'[u] >= addr[p]
      <4>1. addr'[p] = addr[p] /\ addr'[b] = addr[p] + n
        BY <1>1, <1>2
      <4>2. addr[p] \in Nat /\ n \in Nat
        BY <1>1
      <4> HIDE DEF p, n
      <4> QED
        BY <3>2, <4>1, <4>2
    <3>3. CASE d \in {p, b} /\ e \in {p, b}
      <4>1. addr'[p] + size'[p] = addr'[b]
        BY <1>1, <1>2
      <4>2. addr'[b] \in Nat
        BY <1>1, <1>2
      <4> QED
        BY <2>3, <3>3, <4>1, <4>2
    <3>4. CASE d \in {p, b} /\ e \notin {p, b}
      <4>1. addr'[e] + size'[e] <= addr[p] /\ addr'[e] \in Nat /\ size'[e] \in Nat
        BY <2>3, <3>1, <3>4
      <4>2. addr'[d] \in Nat /\ addr'[d] >= addr[p]
        BY <3>2, <3>4
      <4> QED
        BY <1>1, <4>1, <4>2
    <3>5. CASE d \notin {p, b} /\ e \in {p, b}
      <4>1. addr'[d] + size'[d] <= addr[p] /\ addr'[d] \in Nat /\ size'[d] \in Nat
        BY <2>3, <3>1, <3>5
      <4>2. addr'[e] \in Nat /\ addr'[e] >= addr[p]
        BY <3>2, <3>5
      <4> QED
        BY <1>1, <4>1, <4>2
    <3>6. CASE d \notin {p, b} /\ e \notin {p, b}
      BY <1>2, <2>3, <3>6 DEF Apart
    <3> QED
      BY <3>3, <3>4, <3>5, <3>6
  <2> QED
    BY <2>1, <2>3 DEF Apart
<1>6. Covered'
  <2> SUFFICES ASSUME NEW x \in 0 .. Extent - 1
               PROVE  \E d \in Unit : use'[d] /\ addr'[d] <= x /\ x < addr'[d] + size'[d]
    BY DEF Covered
  <2>1. PICK d \in Unit : use[d] /\ addr[d] <= x /\ x < addr[d] + size[d]
    BY DEF Covered
  <2>2. CASE d = p /\ x < addr[p] + n
    BY <1>1, <1>2, <2>1, <2>2
  <2>3. CASE d = p /\ ~(x < addr[p] + n)
    BY <1>1, <1>2, <2>1, <2>3
  <2>4. CASE d # p
    BY <1>1, <1>2, <2>1, <2>4
  <2> QED
    BY <2>2, <2>3, <2>4
<1>7. Mapped'
  BY <1>1, <1>2 DEF Mapped
<1> QED
  BY <1>4, <1>5, <1>6, <1>7

-----------------------------------------------------------------------------
\* The callers.  A task inside a call is the only one.
LEMMA InitInv == Init => HeapInv
<1> SUFFICES ASSUME Init PROVE HeapInv
  OBVIOUS
<1> USE Constants
<1>1. OneCaller
  BY DEF Init, OneCaller
<1>2. /\ \A b \in Unit : (use[b] <=> b = Entry) /\ ~alloc[b] /\ addr[b] = 0
                         /\ next[b] = Null /\ prev[b] = Null
      /\ size[Entry] = Extent
  BY DEF Init
<1>3. \A b \in Unit : use[b] => b = Entry /\ addr[b] = 0 /\ size[b] = Extent
  BY <1>2
<1>4. Linked /\ Apart
  <2>1. Linked
    BY <1>2, <1>3 DEF Linked
  <2>2. Apart
    BY <1>3 DEF Apart
  <2> QED
    BY <2>1, <2>2
<1>5. Covered /\ Mapped
  <2>1. Covered
    BY <1>2, <1>3 DEF Covered
  <2>2. Mapped
    BY <1>2 DEF Mapped
  <2> QED
    BY <2>1, <2>2
<1>6. Owned /\ Cursors
  BY DEF Init, Owned, Cursors, Holds, None
<1> QED
  BY <1>1, <1>4, <1>5, <1>6 DEF HeapInv

\* Entering a call leaves everyone else outside.
LEMMA EnterAlone ==
  ASSUME TypeOK, Preempt = FALSE, NEW t \in Task, MayEnter(t), NEW s,
         pc' = [pc EXCEPT ![t] = s]
  PROVE  OneCaller' /\ \A u \in Task \ {t} : pc'[u] = "idle"
BY DEF TypeOK, MayEnter, OneCaller

LEMMA StayAlone ==
  ASSUME TypeOK, OneCaller, NEW t \in Task, pc[t] # "idle", NEW s,
         pc' = [pc EXCEPT ![t] = s]
  PROVE  OneCaller' /\ \A u \in Task \ {t} : pc'[u] = "idle"
BY DEF TypeOK, OneCaller

\* A step inside a call that leaves the list alone.
LEMMA ListSame ==
  ASSUME HeapInv, UNCHANGED <<list, mapped>>, Intact
  PROVE  Heap' /\ Heap
BY DEF HeapInv, Heap, list, Linked, Apart, Covered, Mapped

LEMMA CallInv ==
  ASSUME TypeOK, HeapInv, Preempt = FALSE, Intact, NEW t \in Task,
         NEW n \in Sizes, Call(t, n)
  PROVE  HeapInv'
<1> USE Constants
<1>1. OneCaller' /\ \A u \in Task \ {t} : pc'[u] = "idle"
  BY EnterAlone DEF Call
<1>2. Heap'
  BY ListSame DEF Call
<1>3. Owned'
  BY DEF HeapInv, Owned, Holds, Call, list
<1>4. Cursors'
  <2>1. /\ pc'[t] = "walk" /\ cur'[t] = Entry /\ arg'[t] = n /\ given' = given
        /\ given[t] = None /\ use' = use
    BY DEF Call, TypeOK, list
  <2>2. use[Entry] /\ n > 0
    BY DEF HeapInv, Linked
  <2> QED
    BY <1>1, <2>1, <2>2 DEF Cursors, Holds
<1> QED
  BY <1>1, <1>2, <1>3, <1>4 DEF HeapInv, Heap

LEMMA CallFreeInv ==
  ASSUME TypeOK, HeapInv, Preempt = FALSE, Intact, NEW t \in Task,
         NEW a \in {given[t].addr, Inside}, CallFree(t, a)
  PROVE  HeapInv'
<1> USE Constants
<1>1. OneCaller' /\ \A u \in Task \ {t} : pc'[u] = "idle"
  BY EnterAlone DEF CallFree
<1>2. Heap'
  BY ListSame DEF CallFree
<1>3. Owned'
  BY DEF HeapInv, Owned, Holds, CallFree, list
<1>4. Cursors'
  <2>1. /\ pc'[t] = "find" /\ cur'[t] = Entry /\ arg'[t] = a /\ given' = given
        /\ given[t] # None /\ use' = use
    BY DEF CallFree, TypeOK, list
  <2>2. use[Entry]
    BY DEF HeapInv, Linked
  <2> QED
    BY <1>1, <2>1, <2>2 DEF Cursors, Holds
<1> QED
  BY <1>1, <1>2, <1>3, <1>4 DEF HeapInv, Heap

\* One step along the list, in vmalloc and in vfree, and the way back to the
\* entry when nothing fits.
LEMMA WalkInv ==
  ASSUME TypeOK, HeapInv, Intact, NEW t \in Task, Walk(t) \/ Retry(t) \/ Find(t)
  PROVE  HeapInv'
<1> USE Constants
<1>1. /\ pc[t] # "idle" /\ pc'[t] # "idle" /\ pc' = [pc EXCEPT ![t] = pc'[t]]
      /\ UNCHANGED <<list, mapped, arg, given>>
  BY DEF Walk, Retry, Find, TypeOK
<1>2. OneCaller' /\ \A u \in Task \ {t} : pc'[u] = "idle"
  BY <1>1, StayAlone DEF HeapInv
<1>3. Heap'
  BY <1>1, ListSame
<1>4. Owned'
  BY <1>1 DEF HeapInv, Owned, Holds, list
<1>5. Cursors'
  <2>1. UNCHANGED <<use, alloc, addr, size, next, arg, given>> /\ cur[t] \in Link
    BY <1>1 DEF list, TypeOK
  <2>2. use[Entry] /\ \A b \in Unit : use[b] /\ next[b] # Null => use[next[b]]
    BY DEF HeapInv, Linked
  <2>3. CASE Walk(t)
    <3>1. cur[t] \in Unit /\ use[cur[t]] /\ ~Holds(t) /\ arg[t] > 0
      BY <2>3 DEF Walk, TypeOK, HeapInv, Cursors
    <3>2. \/ Stops(t) /\ pc'[t] = "take" /\ cur'[t] = cur[t]
          \/ ~Stops(t) /\ pc'[t] = "walk" /\ cur'[t] = next[cur[t]]
      BY <2>3 DEF Walk, TypeOK
    <3> QED
      BY <1>2, <2>1, <2>2, <3>1, <3>2 DEF Cursors, Holds, Stops
  <2>4. CASE Retry(t)
    <3>1. ~Holds(t) /\ arg[t] > 0 /\ pc'[t] = "walk" /\ cur'[t] = Entry
      BY <2>4 DEF Retry, TypeOK, HeapInv, Cursors
    <3> QED
      BY <1>2, <2>1, <2>2, <3>1 DEF Cursors, Holds
  <2>5. CASE Find(t)
    <3>1. cur[t] \in Unit /\ use[cur[t]] /\ Holds(t) /\ arg[t] \in {given[t].addr, Inside}
      BY <2>1, <2>5 DEF Find, TypeOK, HeapInv, Cursors
    <3>2. \/ Found(t) /\ pc'[t] = "merge" /\ cur'[t] = cur[t]
          \/ ~Found(t) /\ pc'[t] = "find" /\ cur'[t] = next[cur[t]]
      BY <2>5 DEF Find, TypeOK
    <3> QED
      BY <1>2, <2>1, <2>2, <3>1, <3>2 DEF Cursors, Holds, Found
  <2> QED
    BY <2>3, <2>4, <2>5
<1> QED
  BY <1>2, <1>3, <1>4, <1>5 DEF HeapInv, Heap

\* A task gets block p, which was free; the other blocks keep their places.
LEMMA ReturnInv ==
  ASSUME TypeOK, HeapInv, Intact, NEW t \in Task, pc[t] = "take", Return(t), Heap',
         NEW p \in Unit, p = cur[t], ~alloc[p], size[p] >= arg[t],
         alloc'[p], addr'[p] = addr[p], size'[p] = arg[t],
         \A c \in Unit : alloc[c] => alloc'[c] /\ addr'[c] = addr[c] /\ size'[c] = size[c]
  PROVE  HeapInv'
<1> USE Constants
<1>1. OneCaller' /\ \A u \in Task \ {t} : pc'[u] = "idle"
  BY StayAlone DEF HeapInv, Return
<1>2. Cursors'
  <2>1. pc'[t] = "idle"
    BY DEF Return, TypeOK
  <2> QED
    BY <1>1, <2>1 DEF Cursors
<1>3. /\ given'[t] = [addr |-> addr[p], size |-> arg[t]]
      /\ \A u \in Task \ {t} : given'[u] = given[u]
  BY DEF Return, TypeOK
<1>4. use[p] /\ ~Holds(t) /\ arg[t] > 0 /\ size[p] > 0 /\ addr[p] \in Nat /\ arg[t] \in Nat
  BY DEF HeapInv, Cursors, TypeOK
<1>5. \A c \in Unit : alloc[c] => addr[c] # addr[p]
  <2> SUFFICES ASSUME NEW c \in Unit, alloc[c] PROVE addr[c] # addr[p]
    OBVIOUS
  <2>1. use[c] /\ c # p /\ size[c] > 0
    BY DEF HeapInv, Linked
  <2>2. addr[c] \in Nat /\ size[c] \in Nat /\ size[p] \in Nat
    BY DEF TypeOK
  <2>3. addr[c] + size[c] <= addr[p] \/ addr[p] + size[p] <= addr[c]
    BY <1>4, <2>1 DEF HeapInv, Apart
  <2> QED
    BY <1>4, <2>1, <2>2, <2>3
<1>6. Owned'
  <2>1. ASSUME NEW u \in Task, Holds(u)', u # t
        PROVE  /\ \E b \in Unit : alloc'[b] /\ addr'[b] = given'[u].addr /\ size'[b] = given'[u].size
               /\ given'[u].addr # addr[p]
    <3>1. Holds(u) /\ given'[u] = given[u]
      BY <1>3, <2>1 DEF Holds
    <3>2. PICK b \in Unit : alloc[b] /\ addr[b] = given[u].addr /\ size[b] = given[u].size
      BY <3>1 DEF HeapInv, Owned
    <3> QED
      BY <1>5, <3>1, <3>2
  <2>2. \E b \in Unit : alloc'[b] /\ addr'[b] = given'[t].addr /\ size'[b] = given'[t].size
    BY <1>3
  <2>3. \A u, v \in Task \ {t} : Holds(u)' /\ Holds(v)' /\ given'[u].addr = given'[v].addr => u = v
    BY <1>3 DEF HeapInv, Owned, Holds
  <2>4. given'[t].addr = addr[p]
    BY <1>3
  <2>5. ASSUME NEW u \in Task, Holds(u)'
        PROVE  \E c \in Unit : alloc'[c] /\ addr'[c] = given'[u].addr /\ size'[c] = given'[u].size
    BY <2>1, <2>2, <2>5
  <2>6. ASSUME NEW u \in Task, NEW v \in Task, Holds(u)', Holds(v)',
               given'[u].addr = given'[v].addr
        PROVE  u = v
    <3>1. CASE u = t \/ v = t
      BY <2>1, <2>4, <2>6, <3>1
    <3>2. CASE u # t /\ v # t
      BY <2>3, <2>6, <3>2
    <3> QED
      BY <3>1, <3>2
  <2> QED
    BY <2>5, <2>6 DEF Owned
<1> QED
  BY <1>1, <1>2, <1>6 DEF HeapInv, Heap

\* A block's right neighbour, out of the invariant.
LEMMA Neighbour ==
  ASSUME Linked, NEW b \in Unit, use[b], next[b] # Null
  PROVE  /\ use[next[b]] /\ prev[next[b]] = b
         /\ addr[next[b]] = addr[b] + size[b] /\ size[b] > 0
BY DEF Linked

LEMMA TakeInv ==
  ASSUME TypeOK, HeapInv, Intact, NEW t \in Task, TakeExact(t)
  PROVE  HeapInv'
<1> USE Constants
<1> DEFINE p == cur[t]
<1>1. /\ pc[t] = "take" /\ p \in Unit /\ use[p] /\ next[p] # Null /\ size[p] = arg[t]
      /\ ~alloc[p] /\ Return(t) /\ size[p] \in Nat
  BY DEF TakeExact, TypeOK, HeapInv, Cursors, Stops
<1>2. /\ \A c \in Unit : alloc'[c] <=> alloc[c] \/ c = p
      /\ UNCHANGED <<use, addr, size, next, prev, mapped>>
  BY <1>1 DEF TakeExact, TypeOK
<1>3. Heap'
  <2>1. Linked /\ Apart /\ Covered /\ Mapped
    BY DEF HeapInv
  <2>2. Linked'
    <3>1. \A b \in Unit : next[b] = Null => b # p
      BY <1>1
    <3>2. \A b \in Unit : use[b] /\ next[b] = Null => ~alloc'[b]
      BY <1>2, <2>1, <3>1 DEF Linked
    <3>3. \A b \in Unit : ~use[b] => ~alloc'[b]
      BY <1>1, <1>2, <2>1 DEF Linked
    <3> QED
      BY <2>1, <1>2, <3>2, <3>3 DEF Linked
  <2>3. Apart'
    BY <2>1, <1>2 DEF Apart
  <2>4. Covered'
    BY <2>1, <1>2 DEF Covered
  <2>5. Mapped'
    BY <2>1, <1>2 DEF Mapped
  <2> QED
    BY <2>2, <2>3, <2>4, <2>5 DEF Heap
<1>4. /\ alloc'[p] /\ addr'[p] = addr[p] /\ size'[p] = arg[t] /\ size[p] >= arg[t]
      /\ \A c \in Unit : alloc[c] => alloc'[c] /\ addr'[c] = addr[c] /\ size'[c] = size[c]
  <2>1. size[p] >= arg[t] /\ UNCHANGED <<addr, size>>
    BY <1>1, <1>2
  <2>2. alloc'[p] /\ \A c \in Unit : alloc[c] => alloc'[c]
    BY <1>1 DEF TakeExact, TypeOK
  <2> QED
    BY <1>1, <2>1, <2>2
<1> QED
  BY <1>1, <1>3, <1>4, ReturnInv

LEMMA SplitInv ==
  ASSUME TypeOK, HeapInv, Intact, NEW t \in Task, NEW b \in Link, Split(t, b)
  PROVE  HeapInv'
<1> USE Constants
<1> DEFINE p == cur[t]
<1>1. CASE next[p] # Null \/ b = Null
  <2>1. ~Intact'
    BY <1>1 DEF Split, Intact, MapPages
  <2>2. OneCaller'
    BY StayAlone DEF Split, Return, HeapInv, MapPages
  <2> QED
    BY <2>1, <2>2 DEF HeapInv
<1>2. CASE next[p] = Null /\ b \in Unit
  <2>1. /\ pc[t] = "take" /\ p \in Unit /\ use[p] /\ ~alloc[p] /\ arg[t] > 0 /\ arg[t] \in Nat
        /\ size[p] >= arg[t] /\ Return(t) /\ b # p /\ ~use[b]
    <3>1. pc[t] = "take" /\ Return(t) /\ ~use[b] /\ size[p] >= arg[t]
      BY <1>2 DEF Split, IsNewBlock, MapPages
    <3>2. p \in Unit /\ use[p] /\ arg[t] > 0 /\ arg[t] \in Nat
      BY <3>1 DEF TypeOK, HeapInv, Cursors
    <3>3. ~alloc[p]
      BY <1>2, <3>2 DEF HeapInv, Linked
    <3> QED
      BY <3>1, <3>2, <3>3
  <2>2. Heap
    BY DEF HeapInv, Heap
  <2>3. Heap'
    BY <1>2, <2>1, <2>2, SplitHeap
  <2>4. /\ alloc'[p] /\ addr'[p] = addr[p] /\ size'[p] = arg[t]
    BY <2>1 DEF Split, TypeOK, MapPages
  <2>5. \A c \in Unit : alloc[c] => alloc'[c] /\ addr'[c] = addr[c] /\ size'[c] = size[c]
    <3>1. \A c \in Unit : alloc[c] => c # b /\ c # p
      BY <2>1 DEF HeapInv, Linked
    <3> QED
      BY <2>1, <3>1 DEF Split, TypeOK, MapPages
  <2> QED
    BY <2>1, <2>3, <2>4, <2>5, ReturnInv
<1> QED
  BY <1>1, <1>2

LEMMA NotFoundInv ==
  ASSUME TypeOK, HeapInv, Intact, NEW t \in Task, NotFound(t)
  PROVE  HeapInv'
<1>1. OneCaller' /\ \A u \in Task \ {t} : pc'[u] = "idle"
  BY StayAlone DEF HeapInv, NotFound
<1>2. Heap'
  BY ListSame DEF NotFound
<1>3. Cursors'
  BY <1>1 DEF Cursors, NotFound, TypeOK
<1>4. Owned'
  BY DEF Owned, NotFound, HeapInv, Holds, TypeOK, list
<1> QED
  BY <1>1, <1>2, <1>3, <1>4 DEF HeapInv, Heap

LEMMA MergeNextInv ==
  ASSUME TypeOK, HeapInv, Intact, NEW t \in Task, MergeNext(t)
  PROVE  HeapInv'
<1> USE Constants
<1> DEFINE p == cur[t]
           q == next[p]
<1>1. /\ pc[t] = "merge" /\ p \in Unit /\ use[p] /\ alloc[p] /\ Holds(t)
      /\ addr[p] = given[t].addr /\ q \in Unit /\ use[q] /\ q # p
  <2>1. pc[t] = "merge" /\ p \in Unit /\ use[p] /\ alloc[p] /\ Holds(t)
        /\ addr[p] = arg[t] /\ arg[t] \in {given[t].addr, Inside}
    BY DEF MergeNext, TypeOK, HeapInv, Cursors, Found, Joinable
  <2>2. addr[p] + size[p] <= Extent /\ addr[p] \in Nat /\ size[p] \in Nat
    BY <2>1 DEF HeapInv, Apart, TypeOK
  <2>3. q # Null /\ q \in Unit /\ use[q] /\ addr[q] = addr[p] + size[p] /\ size[p] > 0
    <3>1. Linked
      BY DEF HeapInv
    <3>2. q # Null
      BY <2>1, <3>1 DEF Linked
    <3>3. q \in Unit
      BY <2>1, <3>2 DEF TypeOK
    <3> QED
      BY <2>1, <3>1, <3>2, <3>3 DEF Linked
  <2> QED
    BY <2>1, <2>2, <2>3
<1>2. OneCaller' /\ \A u \in Task \ {t} : pc'[u] = "idle"
  BY <1>1, StayAlone DEF HeapInv, MergeNext, Joinable
<1>3. /\ pc'[t] = "back" /\ cur' = cur /\ given'[t] = None
      /\ \A u \in Task \ {t} : given'[u] = given[u]
      /\ mapped' = mapped
  BY DEF MergeNext, TypeOK, Joinable
<1>4. \A c \in Unit, u \in Task : u # t /\ Holds(u) /\ addr[c] = given[u].addr => c # p
  BY <1>1 DEF HeapInv, Owned
<1>5. CASE ~alloc[q] /\ Absorb(p, q) /\ alloc' = [alloc EXCEPT ![p] = FALSE, ![q] = FALSE]
  <2>1. alloc' \in [Unit -> BOOLEAN] /\ \A c \in Unit : alloc'[c] <=> alloc[c] /\ c # p /\ c # q
    BY <1>1, <1>5 DEF TypeOK
  <2>2. Heap'
    <3>1. Heap
      BY DEF HeapInv, Heap
    <3>2. mapped' = mapped /\ ~alloc[q] /\ Absorb(p, q)
      BY <1>3, <1>5
    <3> QED
      BY <1>1, <2>1, <3>1, <3>2, AbsorbHeap
  <2>3. \A c \in Unit : c # p /\ c # q => addr'[c] = addr[c] /\ size'[c] = size[c]
    BY <1>5 DEF Absorb, TypeOK
  <2>4. Owned'
    BY <1>3, <1>4, <1>5, <2>1, <2>3 DEF HeapInv, Owned, Holds
  <2>5. use'[p] /\ ~alloc'[p]
    BY <1>1, <1>5, <2>1 DEF Absorb, TypeOK
  <2>6. Cursors'
    BY <1>2, <1>3, <2>5 DEF Cursors, Holds
  <2> QED
    BY <1>2, <2>2, <2>4, <2>6 DEF HeapInv, Heap
<1>6. CASE UNCHANGED <<use, addr, size, next, prev>> /\ alloc' = [alloc EXCEPT ![p] = FALSE]
  <2>1. \A c \in Unit : alloc'[c] <=> alloc[c] /\ c # p
    BY <1>1, <1>6 DEF TypeOK
  <2>2. Heap'
    BY <1>3, <1>6, <2>1 DEF HeapInv, Heap, Linked, Apart, Covered, Mapped
  <2>3. Owned'
    BY <1>3, <1>4, <1>6, <2>1 DEF HeapInv, Owned, Holds
  <2>4. Cursors'
    BY <1>1, <1>2, <1>3, <1>6, <2>1 DEF Cursors, Holds
  <2> QED
    BY <1>2, <2>2, <2>3, <2>4 DEF HeapInv, Heap
<1> QED
  BY <1>5, <1>6 DEF MergeNext, Joinable

LEMMA MergePrevInv ==
  ASSUME TypeOK, HeapInv, Intact, NEW t \in Task, MergePrev(t)
  PROVE  HeapInv'
<1> USE Constants
<1> DEFINE p == cur[t]
           q == prev[p]
<1>1. pc[t] = "back" /\ p \in Unit /\ use[p] /\ ~alloc[p] /\ q \in Link
  BY DEF MergePrev, TypeOK, HeapInv, Cursors, Joinable
<1>2. OneCaller' /\ \A u \in Task \ {t} : pc'[u] = "idle"
  BY <1>1, StayAlone DEF HeapInv, MergePrev, Joinable
<1>3. pc'[t] = "idle" /\ UNCHANGED <<given, mapped>>
  BY DEF MergePrev, TypeOK, Joinable
<1>4. Cursors'
  BY <1>2, <1>3 DEF Cursors
<1>5. CASE q # Null /\ ~alloc[q] /\ Absorb(q, p) /\ alloc' = [alloc EXCEPT ![p] = FALSE]
  <2>1. q \in Unit /\ use[q] /\ next[q] = p
    BY <1>1, <1>5 DEF HeapInv, Linked
  <2>2. alloc' \in [Unit -> BOOLEAN] /\ \A c \in Unit : alloc'[c] <=> alloc[c] /\ c # q /\ c # p
    BY <1>1, <1>5 DEF TypeOK
  <2>3. Heap'
    BY <1>1, <1>3, <1>5, <2>1, <2>2, AbsorbHeap DEF HeapInv, Heap
  <2>4. \A c \in Unit : c # p /\ c # q => addr'[c] = addr[c] /\ size'[c] = size[c]
    BY <1>5 DEF Absorb, TypeOK
  <2>5. \A c \in Unit : alloc[c] => alloc'[c] /\ addr'[c] = addr[c] /\ size'[c] = size[c]
    BY <1>1, <1>5, <2>2, <2>4
  <2>6. Owned'
    BY <1>3, <2>5 DEF HeapInv, Owned, Holds
  <2> QED
    BY <1>2, <1>4, <2>3, <2>6 DEF HeapInv, Heap
<1>6. CASE UNCHANGED list
  <2>1. Heap'
    BY <1>3, <1>6, ListSame
  <2>2. Owned'
    BY <1>3, <1>6 DEF HeapInv, Owned, Holds, list
  <2> QED
    BY <1>2, <1>4, <2>1, <2>2 DEF HeapInv, Heap
<1> QED
  BY <1>5, <1>6 DEF MergePrev, Joinable

\* A damaged heap stays damaged; only OneCaller is left to keep.
LEMMA DamagedInv ==
  ASSUME TypeOK, HeapInv, Preempt = FALSE, [Next]_vars, ~Intact
  PROVE  HeapInv'
<1>1. ~Intact'
  BY DEF Intact, Next, vars, Call, CallFree, vmalloc, vfree, Walk, TakeExact, Split, Retry,
     Find, NotFound, MergeNext, MergePrev, MapPages, Joinable
<1>2. OneCaller'
  <2>1. ASSUME NEW t \in Task, NEW s, MayEnter(t), pc' = [pc EXCEPT ![t] = s] PROVE OneCaller'
    BY <2>1, EnterAlone
  <2>2. ASSUME NEW t \in Task, NEW s, pc[t] # "idle", pc' = [pc EXCEPT ![t] = s] PROVE OneCaller'
    BY <2>2, StayAlone DEF HeapInv
  <2>3. ASSUME NEW t \in Task, vmalloc(t) \/ vfree(t) PROVE OneCaller'
    <3>1. pc[t] # "idle"
      BY <2>3 DEF vmalloc, vfree, Walk, TakeExact, Split, Retry, Find, NotFound,
         MergeNext, MergePrev, MapPages, Joinable
    <3>2. pc' = pc \/ \E s \in {"idle", "walk", "take", "merge", "back"} : pc' = [pc EXCEPT ![t] = s]
      BY <2>3 DEF vmalloc, vfree, Walk, TakeExact, Split, Retry, Find, NotFound,
         MergeNext, MergePrev, Return, MapPages, Joinable
    <3> QED
      BY <2>2, <3>1, <3>2 DEF HeapInv, OneCaller
  <2>4. ASSUME NEW t \in Task, (\E n \in Sizes : Call(t, n))
                               \/ \E a \in {given[t].addr, Inside} : CallFree(t, a)
        PROVE  OneCaller'
    BY <2>1, <2>4 DEF Call, CallFree
  <2>5. CASE UNCHANGED vars
    BY <2>5 DEF vars, HeapInv, OneCaller
  <2> QED
    BY <2>3, <2>4, <2>5 DEF Next
<1> QED
  BY <1>1, <1>2 DEF HeapInv

LEMMA NextInv ==
  ASSUME TypeOK, HeapInv, Preempt = FALSE, [Next]_vars
  PROVE  HeapInv'
<1>1. CASE ~Intact
  BY <1>1, DamagedInv
<1>2. CASE Intact /\ UNCHANGED vars
  <2>1. Heap'
    BY <1>2, ListSame DEF vars
  <2>2. OneCaller' /\ Owned' /\ Cursors'
    BY <1>2 DEF vars, list, HeapInv, OneCaller, Owned, Cursors, Holds, Stops, Found
  <2> QED
    BY <2>1, <2>2 DEF HeapInv, Heap
<1>3. CASE Intact /\ Next
  BY <1>3, CallInv, CallFreeInv, WalkInv, TakeInv, SplitInv, NotFoundInv,
     MergeNextInv, MergePrevInv DEF Next, vmalloc, vfree
<1> QED
  BY <1>1, <1>2, <1>3

LEMMA InvImplies == TypeOK /\ HeapInv => Sound /\ SoundTiled /\ SoundBacked
<1> SUFFICES ASSUME TypeOK, HeapInv, Intact
             PROVE  Disjoint /\ BlockList /\ Tiled /\ Backed
  BY DEF Sound, SoundTiled, SoundBacked
<1> USE Constants
<1>1. ASSUME NEW t \in Task, Holds(t)
      PROVE  \E b \in Unit : /\ use[b] /\ alloc[b] /\ next[b] # Null
                             /\ addr[b] = given[t].addr /\ size[b] = given[t].size
  BY <1>1 DEF HeapInv, Owned, Linked
<1>2. Disjoint
  <2>1. ASSUME NEW t \in Task, Holds(t) PROVE given[t].addr + given[t].size <= Extent
    BY <1>1, <2>1 DEF HeapInv, Apart
  <2>2. ASSUME NEW t \in Task, NEW u \in Task \ {t}, Holds(t), Holds(u)
        PROVE  \/ given[t].addr + given[t].size <= given[u].addr
               \/ given[u].addr + given[u].size <= given[t].addr
    <3>1. PICK b \in Unit : use[b] /\ addr[b] = given[t].addr /\ size[b] = given[t].size
      BY <1>1, <2>2
    <3>2. PICK c \in Unit : use[c] /\ addr[c] = given[u].addr /\ size[c] = given[u].size
      BY <1>1, <2>2
    <3>3. b # c
      BY <2>2, <3>1, <3>2 DEF HeapInv, Owned
    <3> QED
      BY <3>1, <3>2, <3>3 DEF HeapInv, Apart
  <2> QED
    BY <2>1, <2>2 DEF Disjoint
<1>3. BlockList
  <2> SUFFICES ASSUME NEW p \in Unit, use[p], prev[p] # Null
               PROVE  addr[prev[p]] + size[prev[p]] = addr[p] /\ next[prev[p]] = p
    BY DEF BlockList
  <2>1. Linked /\ prev[p] \in Unit
    BY DEF HeapInv, TypeOK
  <2>2. use[prev[p]] /\ next[prev[p]] = p
    BY <2>1 DEF Linked
  <2> QED
    BY <2>1, <2>2 DEF Linked
<1>4. Tiled
  <2>1. ASSUME NEW t \in Task, Holds(t) PROVE given[t] \in Taken
    <3>1. PICK b \in Unit : alloc[b] /\ addr[b] = given[t].addr /\ size[b] = given[t].size
      BY <1>1, <2>1
    <3>2. given[t] = [addr |-> addr[b], size |-> size[b]]
      BY <3>1 DEF TypeOK, Block
    <3> QED
      BY <3>1, <3>2 DEF Taken
  <2> QED
    BY <2>1 DEF Tiled, Held, HeapInv, Covered
<1>5. Backed
  BY <1>1 DEF Backed, HeapInv, Mapped
<1> QED
  BY <1>2, <1>3, <1>4, <1>5

(***************************************************************************)
(* As long as calls do not overlap, no middle block is split and the table *)
(* is not full: callers never share a page, the list's links agree, its    *)
(* blocks tile the extent, and every page a caller holds is mapped.        *)
(***************************************************************************)
THEOREM HeapSound ==
  ASSUME Preempt = FALSE
  PROVE  Spec => [](Sound /\ SoundTiled /\ SoundBacked)
<1>1. Init => TypeOK /\ HeapInv
  BY InitType, InitInv
<1>2. TypeOK /\ HeapInv /\ [Next]_vars => (TypeOK /\ HeapInv)'
  BY NextType, NextInv
<1> QED
  BY <1>1, <1>2, InvImplies, PTL DEF Spec

-----------------------------------------------------------------------------
\* Every block marked ALLOC has a holder or was freed by an interior address.
Tracked ==
  Intact => \A b \in Unit : alloc[b] =>
    \/ \E t \in Task : Holds(t) /\ given[t].addr = addr[b] /\ given[t].size = size[b]
    \/ [addr |-> addr[b], size |-> size[b]] \in leaked

\* Two free neighbours are left only by a vfree that has not looked back yet.
Joined ==
  Intact => \A b \in Unit : use[b] /\ ~alloc[b] /\ next[b] # Null /\ ~alloc[next[b]] =>
    \E t \in Task : pc[t] = "back" /\ cur[t] = next[b]

\* The steps that neither give, take nor join a block.
Idle(t) ==
  \/ \E n \in Sizes : Call(t, n)
  \/ \E a \in {given[t].addr, Inside} : CallFree(t, a)
  \/ Walk(t) \/ Retry(t) \/ Find(t)

LEMMA IdleSame ==
  ASSUME TypeOK, NEW t \in Task, Idle(t)
  PROVE  /\ UNCHANGED <<list, given, leaked, flaw>> /\ pc[t] # "back"
         /\ \A u \in Task \ {t} : pc'[u] = pc[u] /\ cur'[u] = cur[u]
BY DEF Idle, Call, CallFree, Walk, Retry, Find, MayEnter, TypeOK

LEMMA NotFoundSame ==
  ASSUME TypeOK, NEW t \in Task, NotFound(t)
  PROVE  /\ UNCHANGED list /\ pc[t] # "back"
         /\ \A u \in Task \ {t} : pc'[u] = pc[u] /\ cur'[u] = cur[u]
BY DEF NotFound, TypeOK

\* What the two ways to hand out a block do, and the two ways to join one.
LEMMA Takes ==
  ASSUME TypeOK, HeapInv, Intact', NEW t \in Task,
         TakeExact(t) \/ \E b \in Link : Split(t, b)
  PROVE  LET p == cur[t] IN
         /\ pc[t] = "take" /\ p \in Unit /\ ~Holds(t) /\ Intact
         /\ given'[t].addr = addr'[p] /\ given'[t].size = size'[p] /\ size'[p] > 0
         /\ \A u \in Task \ {t} : given'[u] = given[u] /\ pc'[u] = pc[u] /\ cur'[u] = cur[u]
         /\ \A c \in Unit : alloc'[c] <=> alloc[c] \/ c = p
         /\ \A c \in Unit : alloc[c] => addr'[c] = addr[c] /\ size'[c] = size[c]
         /\ \A c \in Unit : use'[c] /\ c # p /\ next'[c] # Null => use[c] /\ next'[c] = next[c]
<1> USE Constants
<1> DEFINE p == cur[t]
<1>1. Intact /\ pc[t] = "take"
  BY DEF Intact, TakeExact, Split, MapPages
<1>2. p \in Unit /\ use[p] /\ ~Holds(t) /\ arg[t] > 0 /\ arg[t] \in Nat /\ addr[p] \in Nat
  BY <1>1 DEF TypeOK, HeapInv, Cursors
<1>3. CASE TakeExact(t)
  BY <1>1, <1>2, <1>3 DEF TakeExact, Return, TypeOK
<1>4. ASSUME NEW b \in Link, Split(t, b) PROVE b \in Unit /\ next[p] = Null /\ ~use[b] /\ b # p
  <2>1. b # Null /\ next[p] = Null
    BY <1>4 DEF Split, Intact, MapPages
  <2> QED
    BY <1>2, <1>4, <2>1 DEF Split, IsNewBlock
<1>5. ASSUME NEW b \in Link, Split(t, b), NEW c \in Unit, alloc[c] PROVE c # b /\ c # p
  <2>1. ~alloc[b]
    BY <1>1, <1>4, <1>5 DEF HeapInv, Linked
  <2>2. ~alloc[p]
    BY <1>1, <1>2, <1>4, <1>5 DEF HeapInv, Linked
  <2> QED
    BY <1>5, <2>1, <2>2
<1>6. ASSUME NEW b \in Link, Split(t, b)
      PROVE  /\ \A c \in Unit : alloc'[c] <=> alloc[c] \/ c = p
             /\ size'[p] = arg[t] /\ addr'[p] = addr[p]
             /\ given'[t] = [addr |-> addr[p], size |-> arg[t]]
             /\ \A u \in Task \ {t} : given'[u] = given[u] /\ pc'[u] = pc[u] /\ cur'[u] = cur[u]
             /\ \A c \in Unit : c # p /\ c # b =>
                  addr'[c] = addr[c] /\ size'[c] = size[c] /\ use'[c] = use[c] /\ next'[c] = next[c]
             /\ next'[b] = Null
  <2>1. b \in Unit /\ next[p] = Null /\ b # p /\ p \in Unit
    BY <1>2, <1>4, <1>6
  <2>2. \A c \in Unit : alloc'[c] <=> alloc[c] \/ c = p
    BY <1>6, <2>1 DEF Split, TypeOK
  <2>3. given'[t] = [addr |-> addr[p], size |-> arg[t]]
        /\ \A u \in Task \ {t} : given'[u] = given[u] /\ pc'[u] = pc[u] /\ cur'[u] = cur[u]
    BY <1>6 DEF Split, Return, TypeOK
  <2>4. addr' = [addr EXCEPT ![b] = addr[p] + arg[t]] /\ size'[p] = arg[t]
        /\ \A c \in Unit : c # p /\ c # b => size'[c] = size[c]
    BY <1>6, <2>1 DEF Split, TypeOK
  <2>5. addr'[p] = addr[p] /\ \A c \in Unit : c # p /\ c # b => addr'[c] = addr[c]
    BY <2>1, <2>4 DEF TypeOK
  <2>6. /\ \A c \in Unit : c # p /\ c # b => use'[c] = use[c] /\ next'[c] = next[c]
        /\ next'[b] = Null
    BY <1>6, <2>1 DEF Split, TypeOK
  <2> QED
    BY <2>2, <2>3, <2>4, <2>5, <2>6
<1> QED
  BY <1>1, <1>2, <1>3, <1>4, <1>5, <1>6

LEMMA Merges ==
  ASSUME TypeOK, HeapInv, Intact, NEW t \in Task, MergeNext(t)
  PROVE  LET p == cur[t]
             q == next[p]
         IN
         /\ pc[t] = "merge" /\ p \in Unit /\ q \in Unit /\ alloc[p] /\ use[p] /\ use[q] /\ q # p
         /\ size[p] > 0
         /\ addr[p] = given[t].addr /\ pc'[t] = "back" /\ cur' = cur
         /\ \A u \in Task \ {t} : given'[u] = given[u] /\ pc'[u] = pc[u]
         /\ \/ ~alloc[q] /\ Absorb(p, q) /\ alloc' = [alloc EXCEPT ![p] = FALSE, ![q] = FALSE]
            \/ alloc[q] /\ UNCHANGED <<use, addr, size, next, prev>>
               /\ alloc' = [alloc EXCEPT ![p] = FALSE]
<1> USE Constants
<1> DEFINE p == cur[t]
           q == next[p]
<1>1. /\ pc[t] = "merge" /\ p \in Unit /\ use[p] /\ alloc[p]
      /\ addr[p] = arg[t] /\ arg[t] \in {given[t].addr, Inside}
  BY DEF MergeNext, TypeOK, HeapInv, Cursors, Found, Joinable
<1>2. addr[p] + size[p] <= Extent /\ addr[p] \in Nat /\ size[p] \in Nat
  BY <1>1 DEF HeapInv, Apart, TypeOK
<1>3. q # Null /\ q \in Unit /\ use[q] /\ addr[q] = addr[p] + size[p] /\ size[p] > 0
  <2>1. q # Null
    BY <1>1 DEF HeapInv, Linked
  <2>2. q \in Unit
    BY <1>1, <2>1 DEF TypeOK
  <2> QED
    BY <1>1, <2>1, <2>2 DEF HeapInv, Linked
<1>4. q # p /\ addr[p] # Inside
  BY <1>2, <1>3
<1>5. pc'[t] = "back" /\ cur' = cur /\ \A u \in Task \ {t} : given'[u] = given[u] /\ pc'[u] = pc[u]
  BY DEF MergeNext, TypeOK, Joinable
<1> QED
  BY <1>1, <1>3, <1>4, <1>5 DEF MergeNext, Joinable

LEMMA MergesBack ==
  ASSUME TypeOK, HeapInv, Intact, NEW t \in Task, MergePrev(t)
  PROVE  LET p == cur[t]
             q == prev[p]
         IN
         /\ pc[t] = "back" /\ p \in Unit /\ use[p] /\ ~alloc[p] /\ UNCHANGED <<given, leaked, flaw>>
         /\ \A u \in Task \ {t} : pc'[u] = pc[u] /\ cur'[u] = cur[u]
         /\ \/ /\ q \in Unit /\ use[q] /\ next[q] = p /\ ~alloc[q] /\ q # p
               /\ Absorb(q, p) /\ alloc' = [alloc EXCEPT ![p] = FALSE]
            \/ UNCHANGED list /\ \A b \in Unit : use[b] /\ next[b] = p => alloc[b]
<1> USE Constants
<1> DEFINE p == cur[t]
           q == prev[p]
<1>1. /\ pc[t] = "back" /\ p \in Unit /\ use[p] /\ ~alloc[p] /\ q \in Link /\ UNCHANGED <<given, leaked, flaw>>
      /\ \A u \in Task \ {t} : pc'[u] = pc[u] /\ cur'[u] = cur[u]
  BY DEF MergePrev, TypeOK, HeapInv, Cursors, Joinable
<1>2. CASE q # Null /\ ~alloc[q] /\ Absorb(q, p) /\ alloc' = [alloc EXCEPT ![p] = FALSE]
  <2>1. q \in Unit /\ use[q] /\ next[q] = p
    BY <1>1, <1>2 DEF HeapInv, Linked
  <2>2. q # p
    <3>1. p # Null /\ addr[q] \in Nat /\ size[q] \in Nat
      BY <1>1, <2>1 DEF TypeOK, Unit, Null
    <3>2. addr[p] = addr[q] + size[q] /\ size[q] > 0
      <4>1. Linked
        BY DEF HeapInv
      <4>2. next[q] # Null
        BY <2>1, <3>1
      <4> QED
        BY <2>1, <4>1, <4>2, Neighbour
    <3> QED
      BY <3>1, <3>2
  <2> QED
    BY <1>1, <1>2, <2>1, <2>2
<1>3. CASE UNCHANGED list /\ (q = Null \/ alloc[q])
  <2>1. ASSUME NEW b \in Unit, use[b], next[b] = p PROVE alloc[b]
    BY <1>1, <1>3, <2>1 DEF HeapInv, Linked
  <2> QED
    BY <1>1, <1>3, <2>1
<1> QED
  BY <1>1, <1>2, <1>3 DEF MergePrev, Joinable

\* Where a search for the block that t holds may be, and what follows.
LEMMA Ahead ==
  ASSUME TypeOK, HeapInv, Intact, NEW t \in Task, Holds(t), NEW p \in Unit, use[p],
         addr[p] <= given[t].addr, ~(addr[p] = given[t].addr /\ alloc[p])
  PROVE  next[p] # Null /\ addr[next[p]] <= given[t].addr
<1> USE Constants
<1>1. PICK h \in Unit : alloc[h] /\ addr[h] = given[t].addr
  BY DEF HeapInv, Owned
<1>2. use[h] /\ size[h] > 0 /\ h # p /\ addr[h] + size[h] <= Extent
  BY <1>1 DEF HeapInv, Linked, Apart
<1>3. /\ addr[p] \in Nat /\ size[p] \in Nat /\ addr[h] \in Nat /\ size[h] \in Nat
  BY DEF TypeOK
<1>4. addr[p] + size[p] <= addr[h]
  <2>1. addr[p] + size[p] <= addr[h] \/ addr[h] + size[h] <= addr[p]
    BY <1>2 DEF HeapInv, Apart
  <2> QED
    BY <1>1, <1>2, <1>3, <2>1
<1>5. next[p] # Null
  <2>1. next[p] = Null => addr[p] + size[p] = Extent
    BY DEF HeapInv, Linked
  <2> QED
    BY <1>2, <1>3, <1>4, <2>1
<1> QED
  BY <1>1, <1>4, <1>5 DEF HeapInv, Linked

\* What lies before the next block lies before this one, or is this one.
LEMMA Before ==
  ASSUME TypeOK, HeapInv, Intact, NEW p \in Unit, use[p], next[p] # Null,
         NEW b \in Unit, use[b], addr[b] < addr[next[p]]
  PROVE  b = p \/ addr[b] < addr[p]
<1> USE Constants
<1>1. addr[next[p]] = addr[p] + size[p] /\ use[next[p]] /\ next[p] \in Unit
  BY DEF HeapInv, Linked, TypeOK
<1>2. /\ addr[p] \in Nat /\ size[p] \in Nat /\ addr[b] \in Nat /\ size[b] \in Nat
      /\ addr[next[p]] + size[next[p]] <= Extent /\ size[next[p]] \in Nat
  BY <1>1 DEF TypeOK, HeapInv, Apart
<1>3. size[b] > 0
  <2>1. next[b] = Null => addr[b] + size[b] = Extent
    BY DEF HeapInv, Linked
  <2>2. next[b] # Null => size[b] > 0
    BY DEF HeapInv, Linked
  <2> QED
    BY <1>1, <1>2, <2>1, <2>2
<1>4. b # p => addr[b] + size[b] <= addr[p] \/ addr[p] + size[p] <= addr[b]
  BY DEF HeapInv, Apart
<1> QED
  BY <1>1, <1>2, <1>3, <1>4

\* Every other block lies before the last one.
LEMMA Last ==
  ASSUME TypeOK, HeapInv, Intact, NEW p \in Unit, use[p], next[p] = Null,
         NEW b \in Unit, use[b], b # p
  PROVE  addr[b] < addr[p]
<1> USE Constants
<1>1. next[b] # Null /\ size[b] > 0 /\ addr[p] + size[p] = Extent
  BY DEF HeapInv, Linked
<1>2. /\ addr[b] + size[b] <= Extent
      /\ addr[b] + size[b] <= addr[p] \/ addr[p] + size[p] <= addr[b]
  BY DEF HeapInv, Apart
<1>3. addr[p] \in Nat /\ addr[b] \in Nat /\ size[b] \in Nat /\ size[p] \in Nat
  BY DEF TypeOK
<1> QED
  BY <1>1, <1>2, <1>3

\* Nobody but the task that takes a step is inside a call.
LEMMA OthersIdle ==
  ASSUME TypeOK, HeapInv, Preempt = FALSE, NEW t \in Task, NEW u \in Task \ {t},
         \/ \E n \in Sizes : Call(t, n)
         \/ \E a \in {given[t].addr, Inside} : CallFree(t, a)
         \/ vmalloc(t) \/ vfree(t)
  PROVE  pc[u] = "idle" /\ pc'[u] = "idle"
<1>1. pc[u] = "idle"
  <2>1. CASE MayEnter(t)
    BY <2>1 DEF MayEnter
  <2>2. CASE pc[t] # "idle"
    BY <2>2 DEF HeapInv, OneCaller
  <2> QED
    BY <2>1, <2>2 DEF Call, CallFree, vmalloc, vfree, Walk, TakeExact, Split, Retry, Find,
       NotFound, MergeNext, MergePrev
<1>2. pc'[u] = pc[u]
  BY DEF Call, CallFree, vmalloc, vfree, Walk, TakeExact, Split, Retry, Find,
     NotFound, MergeNext, MergePrev, Return, TypeOK
<1> QED
  BY <1>1, <1>2

LEMMA SearchesStep ==
  ASSUME TypeOK, HeapInv, Preempt = FALSE, Searches, [Next]_vars
  PROVE  Searches'
<1> USE Constants
<1> SUFFICES ASSUME Intact', NEW t \in Task
             PROVE  /\ pc'[t] \in {"walk", "take"} =>
                         \A b \in Unit : use'[b] /\ addr'[b] < addr'[cur'[t]] =>
                           alloc'[b] \/ size'[b] < arg'[t]
                    /\ pc'[t] = "find" /\ arg'[t] = given'[t].addr =>
                         cur'[t] # Null /\ addr'[cur'[t]] <= arg'[t]
  BY DEF Searches
<1>1. Intact
  BY DEF Intact, Next, vars, Call, CallFree, vmalloc, vfree, Walk, TakeExact, Split, Retry,
     Find, NotFound, MergeNext, MergePrev
<1>2. CASE UNCHANGED vars
  BY <1>1, <1>2 DEF Searches, vars, list
<1>3. ASSUME NEW u \in Task \ {t},
             \/ \E n \in Sizes : Call(u, n)
             \/ \E a \in {given[u].addr, Inside} : CallFree(u, a)
             \/ vmalloc(u) \/ vfree(u)
      PROVE  pc'[t] = "idle"
  BY <1>3, OthersIdle
<1>4. use[Entry] /\ addr[Entry] = 0 /\ \A b \in Unit : addr[b] \in Nat /\ ~(addr[b] < 0)
  BY <1>1 DEF HeapInv, Linked, TypeOK
<1>5. ASSUME NEW n \in Sizes, Call(t, n)
      PROVE  pc'[t] = "walk" /\ cur'[t] = Entry /\ UNCHANGED list
  BY <1>5 DEF Call, TypeOK
<1>6. ASSUME NEW a \in {given[t].addr, Inside}, CallFree(t, a)
      PROVE  pc'[t] = "find" /\ cur'[t] = Entry /\ arg'[t] \in Nat /\ UNCHANGED list
  <2>1. a \in Nat
    BY DEF TypeOK, Block
  <2> QED
    BY <1>6, <2>1 DEF CallFree, TypeOK
<1>7. CASE Walk(t)
  <2>1. /\ cur[t] \in Unit /\ use[cur[t]] /\ pc[t] = "walk"
        /\ UNCHANGED <<list, arg>>
    BY <1>1, <1>7 DEF Walk, TypeOK, HeapInv, Cursors
  <2>2. \A b \in Unit : use[b] /\ addr[b] < addr[cur[t]] => alloc[b] \/ size[b] < arg[t]
    BY <1>1, <2>1 DEF Searches
  <2>3. CASE pc'[t] = "take" /\ cur'[t] = cur[t]
    BY <2>1, <2>2, <2>3 DEF list
  <2>4. CASE ~Stops(t) /\ pc'[t] = "walk" /\ cur'[t] = next[cur[t]]
    <3>1. next[cur[t]] # Null /\ (alloc[cur[t]] \/ size[cur[t]] < arg[t])
      <4>1. next[cur[t]] # Null /\ (alloc[cur[t]] \/ ~(size[cur[t]] >= arg[t]))
        BY <2>4 DEF Stops
      <4>2. size[cur[t]] \in Nat /\ arg[t] \in Nat
        BY <2>1 DEF TypeOK
      <4> QED
        BY <4>1, <4>2
    <3>2. \A b \in Unit : use[b] /\ addr[b] < addr[next[cur[t]]] => alloc[b] \/ size[b] < arg[t]
      BY <1>1, <2>1, <2>2, <3>1, Before
    <3> QED
      BY <2>1, <2>4, <3>2 DEF list
  <2> QED
    BY <1>7, <2>3, <2>4 DEF Walk, TypeOK
<1>8. CASE Retry(t)
  <2>1. pc'[t] = "walk" /\ cur'[t] = Entry /\ UNCHANGED list
    BY <1>8 DEF Retry, TypeOK
  <2> QED
    BY <1>4, <2>1 DEF list
<1>9. CASE Find(t)
  <2>1. /\ cur[t] \in Unit /\ use[cur[t]] /\ pc[t] = "find" /\ Holds(t)
        /\ UNCHANGED <<list, arg, given>>
    BY <1>1, <1>9 DEF Find, TypeOK, HeapInv, Cursors, Link
  <2>2. pc'[t] = "merge" \/ (pc'[t] = "find" /\ ~Found(t) /\ cur'[t] = next[cur[t]])
    BY <1>9 DEF Find, TypeOK
  <2>3. ASSUME arg[t] = given[t].addr, ~Found(t)
        PROVE  next[cur[t]] # Null /\ addr[next[cur[t]]] <= arg[t]
    <3>1. addr[cur[t]] <= given[t].addr /\ ~(addr[cur[t]] = given[t].addr /\ alloc[cur[t]])
      BY <1>1, <2>1, <2>3 DEF Searches, Found
    <3> QED
      BY <1>1, <2>1, <2>3, <3>1, Ahead
  <2> QED
    BY <2>1, <2>2, <2>3 DEF list
<1>10. CASE TakeExact(t) \/ (\E b \in Link : Split(t, b)) \/ NotFound(t)
            \/ MergeNext(t) \/ MergePrev(t)
  <2>1. pc'[t] \in {"idle", "back"}
    BY <1>10 DEF TakeExact, Split, Return, NotFound, MergeNext, MergePrev, TypeOK
  <2> QED
    BY <2>1
<1>11. ASSUME \/ \E n \in Sizes : Call(t, n)
              \/ \E a \in {given[t].addr, Inside} : CallFree(t, a)
       PROVE  /\ pc'[t] \in {"walk", "find"} /\ cur'[t] = Entry /\ UNCHANGED list
              /\ pc'[t] = "find" => arg'[t] \in Nat
  BY <1>5, <1>6, <1>11
<1>12. ASSUME \/ \E n \in Sizes : Call(t, n)
              \/ \E a \in {given[t].addr, Inside} : CallFree(t, a)
       PROVE  /\ \A b \in Unit : ~(addr'[b] < addr'[cur'[t]])
              /\ pc'[t] = "find" => cur'[t] # Null /\ addr'[cur'[t]] <= arg'[t]
  BY <1>4, <1>11, <1>12 DEF list
<1> QED
  BY <1>2, <1>3, <1>7, <1>8, <1>9, <1>10, <1>11, <1>12 DEF Next, vmalloc, vfree

\* So vfree finds the block whose start it is given: what it does not find was
\* freed by an interior address.
LEMMA NotFoundLeaks ==
  ASSUME TypeOK, HeapInv, Searches, Intact, NEW t \in Task, NotFound(t)
  PROVE  leaked' = leaked \cup {given[t]}
<1>1. pc[t] = "find" /\ cur[t] = Null /\ arg[t] \in {given[t].addr, Inside}
  BY DEF NotFound, HeapInv, Cursors
<1>2. arg[t] = Inside
  BY <1>1 DEF Searches
<1> QED
  BY <1>2 DEF NotFound

LEMMA TrackedStep ==
  ASSUME TypeOK, HeapInv, Searches, Tracked, [Next]_vars
  PROVE  Tracked'
<1> USE Constants
<1> DEFINE Tracks(b) ==
      \/ \E t \in Task : Holds(t) /\ given[t].addr = addr[b] /\ given[t].size = size[b]
      \/ [addr |-> addr[b], size |-> size[b]] \in leaked
<1> SUFFICES ASSUME Intact', NEW b \in Unit, alloc'[b] PROVE Tracks(b)'
  BY DEF Tracked
<1>1. Intact
  BY DEF Intact, Next, vars, Call, CallFree, vmalloc, vfree, Walk, TakeExact, Split, Retry,
     Find, NotFound, MergeNext, MergePrev
<1>2. ASSUME alloc[b] PROVE Tracks(b)
  BY <1>1, <1>2 DEF Tracked
<1> HIDE DEF Tracks
<1>3. CASE UNCHANGED <<list, given, leaked>>
  BY <1>2, <1>3 DEF Tracks, Holds, list
<1>4. ASSUME NEW t \in Task, TakeExact(t) \/ \E c \in Link : Split(t, c)
      PROVE  Tracks(b)'
  <2>1. /\ ~Holds(t) /\ \A u \in Task \ {t} : given'[u] = given[u]
        /\ \A c \in Unit : alloc'[c] <=> alloc[c] \/ c = cur[t]
        /\ \A c \in Unit : alloc[c] => addr'[c] = addr[c] /\ size'[c] = size[c]
    BY <1>4, Takes, ZenonT(120)
  <2>2. leaked' = leaked
    BY <1>4 DEF TakeExact, Split
  <2>3. CASE b = cur[t]
    <3>1. given'[t].addr = addr'[b] /\ given'[t].size = size'[b] /\ size'[b] > 0
      BY <1>4, <2>3, Takes
    <3> QED
      BY <3>1 DEF Tracks, Holds, None
  <2>4. CASE b # cur[t]
    <3>1. alloc[b] /\ addr'[b] = addr[b] /\ size'[b] = size[b]
      BY <2>1, <2>4
    <3>2. CASE [addr |-> addr[b], size |-> size[b]] \in leaked
      BY <2>2, <3>1, <3>2 DEF Tracks
    <3>3. ASSUME NEW u \in Task, Holds(u), given[u].addr = addr[b], given[u].size = size[b]
          PROVE  Tracks(b)'
      <4>1. u # t /\ given'[u] = given[u]
        BY <2>1, <3>3
      <4> QED
        BY <3>1, <3>3, <4>1 DEF Tracks, Holds
    <3> QED
      BY <1>2, <3>1, <3>2, <3>3 DEF Tracks
  <2> QED
    BY <2>3, <2>4
<1>5. ASSUME NEW t \in Task, MergeNext(t) PROVE Tracks(b)'
  <2> DEFINE p == cur[t]
  <2>1. b # p /\ alloc[b] /\ addr'[b] = addr[b] /\ size'[b] = size[b]
    BY <1>1, <1>5, Merges DEF Absorb, TypeOK
  <2>2. leaked' = leaked
    BY <1>5 DEF MergeNext
  <2>3. p \in Unit /\ use[p] /\ use[b] /\ size[p] > 0 /\ addr[p] = given[t].addr
    BY <1>1, <1>5, <2>1, Merges DEF HeapInv, Linked
  <2>4. size[b] > 0
    BY <1>1, <2>1, <2>3 DEF HeapInv, Linked
  <2>5. addr[b] # addr[p]
    <3>1. /\ addr[b] + size[b] <= addr[p] \/ addr[p] + size[p] <= addr[b]
          /\ addr[b] \in Nat /\ addr[p] \in Nat /\ size[b] \in Nat /\ size[p] \in Nat
      BY <1>1, <2>1, <2>3 DEF HeapInv, Apart, TypeOK
    <3> QED
      BY <2>3, <2>4, <3>1
  <2>6. CASE [addr |-> addr[b], size |-> size[b]] \in leaked
    BY <2>1, <2>2, <2>6 DEF Tracks
  <2>7. ASSUME NEW u \in Task, Holds(u), given[u].addr = addr[b], given[u].size = size[b]
        PROVE  Tracks(b)'
    <3>1. u # t
      BY <2>3, <2>5, <2>7
    <3>2. given'[u] = given[u]
      BY <1>5, <3>1 DEF MergeNext, TypeOK
    <3> QED
      BY <2>1, <2>7, <3>2 DEF Tracks, Holds
  <2> QED
    BY <1>2, <2>1, <2>6, <2>7 DEF Tracks
<1>6. ASSUME NEW t \in Task, MergePrev(t) PROVE Tracks(b)'
  <2>1. /\ alloc[b] /\ addr'[b] = addr[b] /\ size'[b] = size[b]
        /\ given' = given /\ leaked' = leaked
    BY <1>1, <1>6, MergesBack DEF Absorb, list, TypeOK
  <2> QED
    BY <1>2, <2>1 DEF Tracks, Holds
<1>7. ASSUME NEW t \in Task, Idle(t) PROVE Tracks(b)'
  BY <1>3, <1>7, IdleSame
<1>8. ASSUME NEW t \in Task, NotFound(t) PROVE Tracks(b)'
  <2>1. UNCHANGED list /\ \A u \in Task \ {t} : given'[u] = given[u]
    BY <1>8 DEF NotFound, TypeOK
  <2>2. leaked' = leaked \cup {given[t]} /\ given[t] = [addr |-> given[t].addr, size |-> given[t].size]
    BY <1>1, <1>8, NotFoundLeaks DEF TypeOK, Block
  <2>3. Tracks(b) /\ addr' = addr /\ size' = size
    BY <1>2, <2>1 DEF list
  <2>4. CASE [addr |-> addr[b], size |-> size[b]] \in leaked
    BY <2>2, <2>3, <2>4 DEF Tracks
  <2>5. ASSUME NEW u \in Task, Holds(u), given[u].addr = addr[b], given[u].size = size[b]
        PROVE  Tracks(b)'
    <3>1. CASE u = t
      BY <2>2, <2>3, <2>5, <3>1 DEF Tracks
    <3>2. CASE u # t
      BY <2>1, <2>3, <2>5, <3>2 DEF Tracks, Holds
    <3> QED
      BY <3>1, <3>2
  <2> QED
    BY <2>3, <2>4, <2>5 DEF Tracks
<1> QED
  BY <1>3, <1>4, <1>5, <1>6, <1>7, <1>8 DEF Next, vars, vmalloc, vfree, Idle

LEMMA JoinedStep ==
  ASSUME TypeOK, HeapInv, Joined, [Next]_vars
  PROVE  Joined'
<1> USE Constants
<1> SUFFICES ASSUME Intact', NEW b \in Unit,
                    use'[b], ~alloc'[b], next'[b] # Null, ~alloc'[next'[b]]
             PROVE  \E t \in Task : pc'[t] = "back" /\ cur'[t] = next'[b]
  BY DEF Joined
<1>1. Intact
  BY DEF Intact, Next, vars, Call, CallFree, vmalloc, vfree, Walk, TakeExact, Split, Retry,
     Find, NotFound, MergeNext, MergePrev, MapPages, Joinable
<1>2. CASE UNCHANGED vars
  BY <1>1, <1>2 DEF Joined, vars, list
<1>3. ASSUME NEW t \in Task, Idle(t) \/ NotFound(t)
      PROVE  \E u \in Task : pc'[u] = "back" /\ cur'[u] = next'[b]
  <2>1. /\ UNCHANGED list /\ pc[t] # "back"
        /\ \A u \in Task \ {t} : pc'[u] = pc[u] /\ cur'[u] = cur[u]
    BY <1>3, IdleSame, NotFoundSame
  <2>2. PICK u \in Task : pc[u] = "back" /\ cur[u] = next[b]
    BY <1>1, <2>1 DEF Joined, list
  <2>3. u # t /\ next' = next
    BY <2>1, <2>2 DEF list
  <2> QED
    BY <2>1, <2>2, <2>3
<1>4. ASSUME NEW t \in Task, TakeExact(t) \/ \E c \in Link : Split(t, c)
      PROVE  \E u \in Task : pc'[u] = "back" /\ cur'[u] = next'[b]
  <2>1. b # cur[t] /\ ~alloc[b] /\ use[b] /\ next'[b] = next[b] /\ pc[t] = "take"
        /\ \A u \in Task \ {t} : pc'[u] = pc[u] /\ cur'[u] = cur[u]
    <3>1. /\ pc[t] = "take"
          /\ \A u \in Task \ {t} : pc'[u] = pc[u] /\ cur'[u] = cur[u]
      BY <1>4, Takes
    <3>2. \A c \in Unit : alloc'[c] <=> alloc[c] \/ c = cur[t]
      BY <1>4, Takes
    <3>3. \A c \in Unit : use'[c] /\ c # cur[t] /\ next'[c] # Null => use[c] /\ next'[c] = next[c]
      BY <1>4, Takes
    <3> QED
      BY <3>1, <3>2, <3>3
  <2>2. next[b] \in Unit /\ next[b] # Null
    BY <2>1 DEF TypeOK
  <2>3. ~alloc[next[b]]
    <3>1. \A c \in Unit : alloc'[c] <=> alloc[c] \/ c = cur[t]
      BY <1>4, Takes
    <3> QED
      BY <2>1, <2>2, <3>1
  <2>4. PICK u \in Task : pc[u] = "back" /\ cur[u] = next[b]
    BY <1>1, <2>1, <2>2, <2>3 DEF Joined
  <2> QED
    BY <2>1, <2>4
<1>5. ASSUME NEW t \in Task, MergeNext(t)
      PROVE  \E u \in Task : pc'[u] = "back" /\ cur'[u] = next'[b]
  <2> DEFINE p == cur[t]
             q == next[p]
  <2>1. \A u \in Task : pc[u] # "back"
    <3>1. pc[t] = "merge"
      BY <1>1, <1>5, Merges
    <3> QED
      BY <3>1 DEF HeapInv, OneCaller
  <2>2. \A d \in Unit : use[d] /\ ~alloc[d] /\ next[d] # Null => alloc[next[d]]
    BY <1>1, <2>1 DEF Joined
  <2>3. /\ p \in Unit /\ q \in Unit /\ alloc[p] /\ use[p] /\ use[q] /\ q # p
        /\ pc'[t] = "back" /\ cur'[t] = p
    BY <1>1, <1>5, Merges
  <2>4. next'[b] = p
    <3>1. CASE ~alloc[q] /\ Absorb(p, q) /\ alloc' = [alloc EXCEPT ![p] = FALSE, ![q] = FALSE]
      <4>1. \A d \in Unit : alloc'[d] <=> alloc[d] /\ d # p /\ d # q
        BY <2>3, <3>1 DEF TypeOK
      <4>2. /\ \A d \in Unit : use'[d] <=> use[d] /\ d # q
            /\ \A d \in Unit : next'[d] = IF d = p THEN next[q] ELSE IF d = q THEN Null ELSE next[d]
        BY <2>3, <3>1 DEF Absorb, TypeOK
      <4>3. CASE b = p
        <5>1. next[q] \in Unit /\ alloc[next[q]] /\ next'[b] = next[q]
          <6>1. next'[b] = next[q] /\ next[q] \in Link
            BY <2>3, <4>2, <4>3 DEF TypeOK
          <6>2. next[q] # Null /\ next[q] \in Unit
            BY <6>1 DEF Link
          <6> QED
            BY <2>2, <2>3, <3>1, <6>1, <6>2
        <5>2. next[q] # p /\ next[q] # q
          <6>1. prev[q] = p /\ prev[next[q]] = q
            BY <1>1, <2>3, <5>1 DEF HeapInv, Linked
          <6>2. next[q] # q
            BY <2>3, <6>1
          <6>3. next[q] # p
            <7>1. /\ q # Null /\ next[q] # Null
                  /\ addr[p] \in Nat /\ size[p] \in Nat /\ addr[q] \in Nat /\ size[q] \in Nat
              BY <2>3, <5>1 DEF TypeOK, Unit, Null
            <7>2. addr[q] = addr[p] + size[p] /\ size[p] > 0
              BY <1>1, <2>3, <7>1 DEF HeapInv, Linked
            <7>3. addr[next[q]] = addr[q] + size[q]
              BY <1>1, <2>3, <7>1 DEF HeapInv, Linked
            <7> QED
              BY <7>1, <7>2, <7>3
          <6> QED
            BY <6>2, <6>3
        <5> QED
          BY <4>1, <5>1, <5>2
      <4>4. CASE b # p
        <5>1. b # q /\ use[b] /\ next'[b] = next[b] /\ ~alloc[b] /\ next[b] \in Unit
          BY <4>1, <4>2, <4>4 DEF TypeOK
        <5>2. alloc[next[b]] /\ next[b] # q
          <6>1. next[b] # Null /\ q # Null
            BY <2>3, <5>1 DEF Unit, Null
          <6>2. alloc[next[b]]
            BY <2>2, <5>1, <6>1
          <6>3. prev[next[b]] = b /\ prev[q] = p
            BY <1>1, <2>3, <5>1, <6>1 DEF HeapInv, Linked
          <6> QED
            BY <4>4, <6>2, <6>3
        <5> QED
          BY <4>1, <5>1, <5>2
      <4> QED
        BY <4>3, <4>4
    <3>2. CASE /\ alloc[q] /\ UNCHANGED <<use, addr, size, next, prev>>
               /\ alloc' = [alloc EXCEPT ![p] = FALSE]
      <4>1. \A d \in Unit : alloc'[d] <=> alloc[d] /\ d # p
        BY <2>3, <3>2 DEF TypeOK
      <4>2. next[b] \in Unit /\ use[b] /\ next'[b] = next[b]
        BY <3>2 DEF TypeOK
      <4>3. b # p
        BY <2>3, <3>2, <4>1, <4>2
      <4> QED
        BY <2>2, <4>1, <4>2, <4>3
    <3> QED
      BY <1>1, <1>5, <3>1, <3>2, Merges
  <2> QED
    BY <2>3, <2>4
<1>6. ASSUME NEW t \in Task, MergePrev(t) PROVE FALSE
  <2> DEFINE p == cur[t]
             q == prev[p]
  <2>1. pc[t] = "back" /\ p \in Unit /\ use[p] /\ ~alloc[p]
    BY <1>1, <1>6, MergesBack
  <2>2. \A d \in Unit : use[d] /\ ~alloc[d] /\ next[d] # Null /\ ~alloc[next[d]] => next[d] = p
    BY <1>1, <2>1 DEF Joined, HeapInv, OneCaller
  <2>3. CASE /\ q \in Unit /\ use[q] /\ next[q] = p /\ ~alloc[q] /\ q # p
             /\ Absorb(q, p) /\ alloc' = [alloc EXCEPT ![p] = FALSE]
    <3>1. \A d \in Unit : alloc'[d] <=> alloc[d]
      BY <2>1, <2>3 DEF TypeOK
    <3>2. /\ \A d \in Unit : use'[d] <=> use[d] /\ d # p
          /\ \A d \in Unit : next'[d] = IF d = q THEN next[p] ELSE IF d = p THEN Null ELSE next[d]
      BY <2>1, <2>3 DEF Absorb, TypeOK
    <3>3. CASE b = q
      <4>1. next[p] \in Unit /\ next'[b] = next[p]
        BY <2>3, <3>2, <3>3, <2>1 DEF TypeOK
      <4>2. next[p] = p
        <5>1. next[p] # Null
          BY <4>1 DEF Unit, Null
        <5>2. ~alloc[next[p]]
          BY <3>1, <4>1
        <5> QED
          BY <2>1, <2>2, <5>1, <5>2
      <4>3. prev[p] = p
        BY <1>1, <2>1, <4>1, <4>2 DEF HeapInv, Linked, Unit, Null
      <4> QED
        BY <2>3, <4>3
    <3>4. CASE b # q
      <4>1. b # p /\ use[b] /\ next'[b] = next[b] /\ next[b] \in Unit
        BY <3>2, <3>4 DEF TypeOK
      <4>2. next[b] = p
        BY <2>2, <3>1, <4>1
      <4>3. prev[p] = b
        BY <1>1, <4>1, <4>2 DEF HeapInv, Linked
      <4> QED
        BY <3>4, <4>3
    <3> QED
      BY <3>3, <3>4
  <2>4. CASE UNCHANGED list /\ \A d \in Unit : use[d] /\ next[d] = p => alloc[d]
    BY <2>2, <2>4 DEF list
  <2> QED
    BY <1>1, <1>6, <2>3, <2>4, MergesBack
<1> QED
  BY <1>2, <1>3, <1>4, <1>5, <1>6 DEF Next, vmalloc, vfree, Idle

(***************************************************************************)
(* With calls that do not overlap, and until the code damages its list:    *)
(* nothing stays ALLOC that nobody holds, but for what was freed by an     *)
(* interior address, so a vfree of a block's start never fails; between    *)
(* calls no two free blocks are neighbours; and vmalloc calls itself only  *)
(* when no free block is large enough.                                     *)
(***************************************************************************)
THEOREM HeapTidy ==
  ASSUME Preempt = FALSE
  PROVE  Spec => [](SoundLeak /\ SoundCoalesced /\ RecursesOnlyFull)
<1> DEFINE Inv == TypeOK /\ HeapInv /\ Searches /\ Tracked /\ Joined
<1>1. Init => Inv
  <2>1. Init => Tracked /\ Joined /\ Searches
    BY DEF Init, Tracked, Joined, Searches
  <2> QED
    BY <2>1, InitType, InitInv
<1>2. Inv /\ [Next]_vars => Inv'
  BY NextType, NextInv, SearchesStep, TrackedStep, JoinedStep
<1>3. Inv => SoundLeak /\ SoundCoalesced /\ RecursesOnlyFull
  <2> SUFFICES ASSUME Inv PROVE SoundLeak /\ SoundCoalesced /\ RecursesOnlyFull
    OBVIOUS
  <2>1. SoundLeak
    <3> SUFFICES ASSUME Intact, NEW b \in Unit, alloc[b]
                 PROVE  [addr |-> addr[b], size |-> size[b]] \in Held \cup leaked
      BY DEF SoundLeak, NoLeak, Taken
    <3>1. CASE [addr |-> addr[b], size |-> size[b]] \in leaked
      BY <3>1
    <3>2. ASSUME NEW t \in Task, Holds(t), given[t].addr = addr[b], given[t].size = size[b]
          PROVE  [addr |-> addr[b], size |-> size[b]] \in Held
      <4>1. given[t] = [addr |-> addr[b], size |-> size[b]]
        BY <3>2 DEF TypeOK, Block
      <4> QED
        BY <3>2, <4>1 DEF Held
    <3> QED
      BY <3>1, <3>2 DEF Tracked
  <2>2. SoundCoalesced
    BY DEF SoundCoalesced, Coalesced, Joined
  <2>3. RecursesOnlyFull
    <3> SUFFICES ASSUME Intact, NEW t \in Task, pc[t] = "take", size[cur[t]] < arg[t],
                        NEW b \in Unit, use[b], ~alloc[b]
                 PROVE  size[b] < arg[t]
      BY DEF RecursesOnlyFull, Room, TypeOK
    <3> DEFINE p == cur[t]
    <3>1. p \in Unit /\ use[p] /\ next[p] = Null
      <4>1. p \in Unit /\ use[p] /\ Stops(t)
        BY DEF TypeOK, HeapInv, Cursors, Link
      <4> QED
        BY <4>1 DEF Stops, TypeOK
    <3>2. b = p \/ addr[b] < addr[p]
      BY <3>1, Last
    <3> QED
      BY <3>2 DEF Searches
  <2> QED
    BY <2>1, <2>2, <2>3
<1> QED
  BY <1>1, <1>2, <1>3, PTL DEF Spec

-----------------------------------------------------------------------------
\* A caller inside vmalloc holds nothing yet and asked for something.
Empty == \A t \in Task : pc[t] \in {"walk", "take"} => given[t] = None /\ arg[t] > 0

\* As long as there are frames, what a page can reach is marked as taken, and
\* by no other page.
Backing ==
  ~exhausted => /\ \A x \in Page : Targets(x) \subseteq flags
                /\ Exclusive

\* Where no translation was overtaken, the cache agrees with the page table,
\* and so does what was written.
Agrees ==
  ~exhausted => \A x \in Page \ stale :
    /\ tlb[x] \in {NoFrame, pte[x]}
    /\ wrote[x] # Nobody => pte[x] # NoFrame
    /\ CoherentAt(x)

PInv == TypeOK /\ PTypeOK /\ Empty /\ Backing /\ Agrees

LEMMA FrameFacts ==
  /\ Frame \subseteq Nat /\ NoFrame \notin Frame /\ NoFrame \in Nat /\ Page \subseteq Nat
  /\ \A f \in Frame : f < NoFrame
BY FrameAssumption, Constants DEF Frame, NoFrame, Page

LEMMA InitPInv == PInit => PInv
<1> SUFFICES ASSUME PInit PROVE PInv
  OBVIOUS
<1>1. TypeOK /\ Empty
  BY InitType DEF PInit, Init, Empty
<1>2. PTypeOK
  BY DEF PInit, PTypeOK
<1>3. Backing /\ Agrees
  BY DEF PInit, Backing, Agrees, Exclusive, Targets, CoherentAt
<1> QED
  BY <1>1, <1>2, <1>3 DEF PInv

\* To the heap, everything the CPU and the page table do is a stutter.
LEMMA StepIsHeapStep == [PNext]_pvars => [Next]_vars
BY DEF PNext, pvars, Next, HeapStep, SplitAndMap, Write, Evict, vmalloc

LEMMA StepKeepsEmpty == TypeOK /\ Empty /\ [Next]_vars => Empty'
<1> SUFFICES ASSUME TypeOK, Empty, [Next]_vars PROVE Empty'
  OBVIOUS
<1> USE Constants
<1>1. ASSUME NEW t \in Task, NEW n \in Sizes, Call(t, n) PROVE Empty'
  BY <1>1 DEF Call, Empty, TypeOK
<1>2. ASSUME NEW t \in Task, Walk(t) \/ Retry(t) PROVE Empty'
  BY <1>2 DEF Walk, Retry, Empty, TypeOK
<1>3. ASSUME NEW t \in Task, TakeExact(t) \/ \E b \in Link : Split(t, b) PROVE Empty'
  BY <1>3 DEF TakeExact, Split, Return, Empty, TypeOK
<1>4. ASSUME NEW t \in Task, NEW a \in {given[t].addr, Inside}, CallFree(t, a) PROVE Empty'
  BY <1>4 DEF CallFree, Empty, TypeOK
<1>5. ASSUME NEW t \in Task, vfree(t) PROVE Empty'
  BY <1>5 DEF vfree, Find, NotFound, MergeNext, MergePrev, Empty, TypeOK
<1>6. CASE UNCHANGED vars
  BY <1>6 DEF vars, Empty
<1> QED
  BY <1>1, <1>2, <1>3, <1>4, <1>5, <1>6 DEF Next, vmalloc

\* What a block's pages get is fresh: taken by nobody, each by one page.
LEMMA FreshFrames ==
  ASSUME PTypeOK, NEW a \in Nat, NEW n \in Nat,
         NEW m \in [Pages(a, n) -> Frame \cup {NoFrame}], PageByPage(m, a, n)
  PROVE  /\ \A x \in Pages(a, n) : m[x] # NoFrame => m[x] \in Frame \ flags
         /\ \A x, y \in Pages(a, n) : x # y /\ m[x] # NoFrame => m[x] # m[y]
<1> USE FrameFacts
<1>1. ASSUME NEW x \in Pages(a, n), m[x] # NoFrame
      PROVE  m[x] \in Frame /\ m[x] \notin flags \cup {m[y] : y \in a .. x - 1}
  BY <1>1 DEF PageByPage, GivesPage
<1>2. ASSUME NEW x \in Pages(a, n), NEW y \in Pages(a, n), x < y, m[y] # NoFrame
      PROVE  m[x] # m[y]
  <2>1. x \in a .. y - 1
    BY <1>2 DEF Pages
  <2> QED
    BY <2>1, <1>1, <1>2
<1>3. ASSUME NEW x \in Pages(a, n), NEW y \in Pages(a, n), x # y, m[x] # NoFrame
      PROVE  m[x] # m[y]
  <2>1. x < y \/ y < x
    BY <1>3 DEF Pages
  <2> QED
    BY <2>1, <1>2, <1>3
<1> QED
  BY <1>1, <1>3

LEMMA MapStep ==
  ASSUME PInv, NEW t \in Task, NEW b \in Link, NEW g \in Frame,
         NEW m \in [Pages(addr[cur[t]], arg[t]) -> Frame \cup {NoFrame}],
         SplitAndMap(t, b, m, g)
  PROVE  PTypeOK' /\ Backing' /\ Agrees'
<1> DEFINE a == addr[cur[t]]
           n == arg[t]
<1> USE FrameFacts
<1>1. /\ pc[t] = "take" /\ given[t] = None /\ n > 0 /\ n \in Nat /\ a \in Nat
      /\ cur[t] \in Unit
  BY DEF SplitAndMap, Split, PInv, TypeOK, Empty, Link, Unit, Null
<1>2. given' = [given EXCEPT ![t] = [addr |-> a, size |-> n]]
  BY DEF SplitAndMap, Split, Return
<1>3. /\ \A x \in Page \cap Pages(a, n) : wrote'[x] = Nobody
      /\ \A x \in Page : wrote'[x] \in {wrote[x], Nobody}
  <2>1. given'[t] # given[t] /\ given'[t].addr = a /\ given'[t].size = n
    BY <1>1, <1>2 DEF PInv, TypeOK, None
  <2> QED
    BY <2>1 DEF SplitAndMap, Unwritten
<1>4. PTypeOK'
  <2>1. flags' \subseteq Frame
    BY DEF SplitAndMap, NowTaken, PInv, PTypeOK
  <2>2. pte' \in [Page -> Frame \cup {NoFrame}]
    BY DEF SplitAndMap, Mapping, PInv, PTypeOK
  <2>3. wrote' \in [Page -> Task \cup {Nobody}]
    BY DEF SplitAndMap, Unwritten, PInv, PTypeOK
  <2>4. exhausted' \in BOOLEAN
    BY DEF SplitAndMap, PInv, PTypeOK
  <2> QED
    BY <2>1, <2>2, <2>3, <2>4 DEF SplitAndMap, PInv, PTypeOK
<1>5. SUFFICES ASSUME ~exhausted'
               PROVE  Backing' /\ Agrees'
  BY <1>4 DEF Backing, Agrees
<1>6. ~exhausted /\ \A x \in Pages(a, n) : m[x] # NoFrame
  BY <1>5 DEF SplitAndMap, PInv, PTypeOK
<1>7. /\ \A x \in Pages(a, n) : m[x] \in Frame \ flags
      /\ \A x, y \in Pages(a, n) : x # y => m[x] # m[y]
  BY <1>1, <1>6, FreshFrames DEF SplitAndMap, PInv
<1>8. \A x \in Page : pte'[x] = IF x \in Pages(a, n) THEN m[x] ELSE pte[x]
  BY <1>6 DEF SplitAndMap, Mapping
<1>9. flags' = flags \cup {m[x] : x \in Pages(a, n)} /\ tlb' = tlb /\ mem' = mem
  BY <1>6 DEF SplitAndMap, NowTaken
<1>10. Backing'
  <2>1. \A x \in Page : Targets(x) \subseteq flags
    BY <1>6 DEF PInv, Backing
  <2>2. \A x, y \in Page : x # y => Targets(x) \cap Targets(y) = {}
    BY <1>6 DEF PInv, Backing, Exclusive
  <2>3. \A x \in Page : Targets(x)' \subseteq flags'
    BY <2>1, <1>8, <1>9 DEF Targets
  <2>4. \A x \in Page : \A f \in Targets(x)' :
           \/ f \in Targets(x)
           \/ x \in Pages(a, n) /\ f = m[x] /\ f \notin flags
    BY <1>7, <1>8, <1>9 DEF Targets
  <2>5. \A x, y \in Page : x # y => Targets(x)' \cap Targets(y)' = {}
    <3> SUFFICES ASSUME NEW x \in Page, NEW y \in Page, x # y,
                        NEW f \in Targets(x)', f \in Targets(y)'
                 PROVE  FALSE
      OBVIOUS
    <3>1. CASE f \in Targets(x) /\ f \in Targets(y)
      BY <3>1, <2>2
    <3>2. CASE f \notin Targets(x)
      BY <3>2, <2>1, <2>4, <1>7
    <3>3. CASE f \notin Targets(y)
      BY <3>3, <2>1, <2>4, <1>7
    <3> QED
      BY <3>1, <3>2, <3>3
  <2> QED
    BY <2>3, <2>5 DEF Backing, Exclusive
<1>11. Agrees'
  <2> SUFFICES ASSUME NEW x \in Page \ stale'
               PROVE  /\ tlb'[x] \in {NoFrame, pte'[x]}
                      /\ wrote'[x] # Nobody => pte'[x] # NoFrame
                      /\ CoherentAt(x)'
    BY DEF Agrees
  <2>1. x \in Page \ stale /\ (x \in Pages(a, n) => tlb[x] = NoFrame)
    BY DEF SplitAndMap
  <2>2. CASE x \in Pages(a, n)
    BY <2>1, <2>2, <1>3, <1>9 DEF CoherentAt
  <2>3. CASE x \notin Pages(a, n)
    <3>1. /\ tlb[x] \in {NoFrame, pte[x]}
          /\ wrote[x] # Nobody => pte[x] # NoFrame /\ mem[pte[x]] = wrote[x]
      BY <2>1, <1>6 DEF PInv, Agrees, CoherentAt
    <3> QED
      BY <3>1, <2>3, <1>3, <1>8, <1>9 DEF CoherentAt
  <2> QED
    BY <2>2, <2>3
<1> QED
  BY <1>10, <1>11

LEMMA HeapStepKeeps ==
  ASSUME PInv, NEW t \in Task, HeapStep(t)
  PROVE  PTypeOK' /\ Backing' /\ Agrees'
<1>1. /\ \A x \in Page : wrote'[x] \in {wrote[x], Nobody}
      /\ wrote' \in [Page -> Task \cup {Nobody}]
  BY DEF HeapStep, Unwritten, PInv, PTypeOK
<1>2. UNCHANGED <<flags, pte, tlb, mem, exhausted, stale>>
  BY DEF HeapStep
<1> QED
  BY <1>1, <1>2 DEF PInv, PTypeOK, Backing, Exclusive, Targets, Agrees, CoherentAt

LEMMA WriteKeeps ==
  ASSUME PInv, NEW t \in Task, NEW x \in Page, Write(t, x)
  PROVE  PTypeOK' /\ Backing' /\ Agrees'
<1> USE FrameFacts
<1> DEFINE f == Reaches(x)
<1>1. /\ f \in Frame /\ f \in Targets(x)
      /\ mem' = [mem EXCEPT ![f] = t] /\ tlb' = [tlb EXCEPT ![x] = f]
      /\ wrote' = [wrote EXCEPT ![x] = t]
      /\ UNCHANGED <<flags, pte, exhausted, stale>>
  BY DEF Write, Reaches, Targets, PInv, PTypeOK
<1>2. PTypeOK'
  BY <1>1 DEF PInv, PTypeOK
<1>3. \A y \in Page : Targets(y)' \subseteq Targets(y)
  BY <1>1 DEF Targets, PInv, PTypeOK
<1>4. Backing'
  BY <1>1, <1>3 DEF PInv, Backing, Exclusive
<1>5. Agrees'
  <2> SUFFICES ASSUME ~exhausted', NEW y \in Page \ stale'
               PROVE  /\ tlb'[y] \in {NoFrame, pte'[y]}
                      /\ wrote'[y] # Nobody => pte'[y] # NoFrame
                      /\ CoherentAt(y)'
    BY DEF Agrees
  <2>1. /\ tlb[y] \in {NoFrame, pte[y]}
        /\ wrote[y] # Nobody => pte[y] # NoFrame /\ mem[pte[y]] = wrote[y]
    BY <1>1 DEF PInv, Agrees, CoherentAt
  <2>2. CASE y = x
    <3>1. f = pte[x]
      BY <2>1, <2>2 DEF Reaches
    <3> QED
      BY <3>1, <1>1, <2>2 DEF CoherentAt, PInv, PTypeOK
  <2>3. CASE y # x
    <3>1. pte[y] # NoFrame => pte[y] # f
      BY <2>3, <1>1 DEF PInv, Backing, Exclusive, Targets
    <3> QED
      BY <3>1, <2>1, <2>3, <1>1 DEF CoherentAt, PInv, PTypeOK
  <2> QED
    BY <2>2, <2>3
<1> QED
  BY <1>2, <1>4, <1>5

LEMMA EvictKeeps ==
  ASSUME PInv, NEW x \in Page, Evict(x)
  PROVE  PTypeOK' /\ Backing' /\ Agrees'
<1>1. /\ tlb' = [tlb EXCEPT ![x] = NoFrame]
      /\ UNCHANGED <<flags, pte, mem, wrote, exhausted, stale>>
  BY DEF Evict
<1>2. PTypeOK'
  BY <1>1 DEF PInv, PTypeOK
<1>3. \A y \in Page : Targets(y)' \subseteq Targets(y)
  BY <1>1 DEF Targets, PInv, PTypeOK
<1>4. Backing'
  BY <1>1, <1>3 DEF PInv, Backing, Exclusive
<1>5. Agrees'
  BY <1>1 DEF PInv, PTypeOK, Agrees, CoherentAt
<1> QED
  BY <1>2, <1>4, <1>5

LEMMA NextPInv == PInv /\ [PNext]_pvars => PInv'
<1> SUFFICES ASSUME PInv, [PNext]_pvars PROVE PInv'
  OBVIOUS
<1>1. TypeOK' /\ Empty'
  BY StepIsHeapStep, NextType, StepKeepsEmpty DEF PInv
<1>2. PTypeOK' /\ Backing' /\ Agrees'
  <2>1. CASE UNCHANGED pvars
    BY <2>1 DEF pvars, frames, PInv, PTypeOK, Backing, Exclusive, Targets, Agrees, CoherentAt
  <2> QED
    BY <2>1, MapStep, HeapStepKeeps, WriteKeeps, EvictKeeps DEF PNext
<1> QED
  BY <1>1, <1>2 DEF PInv

(***************************************************************************)
(* Every state is well typed; while there are frames no two pages share    *)
(* one, in the page table or in the CPU's cache; and a task reads back     *)
(* what it wrote on every page that was not mapped anew under a cached     *)
(* translation.  Calls to the heap do not overlap: the test and set of     *)
(* pmalloc_4k_page is no single step for callers that can be preempted.    *)
(***************************************************************************)
THEOREM PagingSafe ==
  ASSUME Preempt = FALSE
  PROVE  PSpec => [](PTypeOK /\ Exclusive /\ CoherentUntilStale)
<1>1. PInv => PTypeOK /\ Exclusive /\ CoherentUntilStale
  BY DEF PInv, Backing, Exclusive, Agrees, CoherentUntilStale
<1> QED
  BY <1>1, InitPInv, NextPInv, PTL DEF PSpec

-----------------------------------------------------------------------------
\* A block that is cut is nobody's, so the pages mapped anew are nobody's.
LEMMA MapsNobodysPages ==
  ASSUME PInv, HeapInv, Intact, NEW t \in Task, NEW b \in Link, NEW g \in Frame,
         NEW m \in [Pages(addr[cur[t]], arg[t]) -> Frame \cup {NoFrame}],
         SplitAndMap(t, b, m, g),
         NEW u \in Task, NEW x \in Page, x \in Pages(given[u].addr, given[u].size)
  PROVE  pte'[x] = pte[x]
<1> USE Constants
<1> DEFINE p == cur[t]
<1>1. pc[t] = "take" /\ p \in Unit /\ use[p] /\ Stops(t) /\ given[t] = None
  BY DEF SplitAndMap, Split, PInv, TypeOK, Empty, HeapInv, Cursors, Link, Unit, Null
<1>2. ~alloc[p] /\ size[p] >= arg[t]
  BY <1>1 DEF Stops, HeapInv, Linked, SplitAndMap, Split, PInv, TypeOK
<1>3. Holds(u) /\ given[u] \in Block /\ x \in Nat
  BY DEF Holds, None, Pages, PInv, TypeOK, Page
<1>4. PICK c \in Unit : alloc[c] /\ addr[c] = given[u].addr /\ size[c] = given[u].size
  BY <1>3 DEF HeapInv, Owned
<1>5. c # p /\ use[c]
  BY <1>2, <1>4 DEF HeapInv, Linked
<1>6. addr[c] + size[c] <= addr[p] \/ addr[p] + size[p] <= addr[c]
  BY <1>1, <1>5 DEF HeapInv, Apart
<1>7. x \notin Pages(addr[p], arg[t])
  <2>1. /\ addr[c] \in Nat /\ size[c] \in Nat /\ addr[p] \in Nat /\ size[p] \in Nat
        /\ arg[t] \in Nat
    BY <1>1 DEF PInv, TypeOK
  <2>2. addr[c] <= x /\ x < addr[c] + size[c]
    BY <2>1, <1>3, <1>4, SMTT(30) DEF Pages
  <2>3. arg[t] <= size[p]
    BY <2>1, <1>2
  <2>4. ~(addr[p] <= x /\ x < addr[p] + arg[t])
    BY <2>1, <2>2, <2>3, <1>3, <1>6
  <2> QED
    BY <2>1, <2>4, <1>3 DEF Pages
<1>8. pte' = Mapping(m, addr[cur[t]], arg[t], g)
  BY DEF SplitAndMap
<1> QED
  BY <1>7, <1>8 DEF Mapping

(***************************************************************************)
(* As long as calls do not overlap and the list is intact, no step changes *)
(* the page table entry of a page somebody holds.                          *)
(***************************************************************************)
THEOREM HeldPagesStay ==
  ASSUME Preempt = FALSE
  PROVE  PSpec => HeldKeepsFrame
<1>1. PInit => PInv /\ HeapInv
  BY InitPInv, InitInv DEF PInit
<1>2. PInv /\ HeapInv /\ [PNext]_pvars => (PInv /\ HeapInv)'
  BY NextPInv, StepIsHeapStep, NextInv DEF PInv
<1>3. PInv /\ HeapInv /\ [PNext]_pvars
        => [Intact' => \A x \in Page : HeldBy(x) \cap HeldBy(x)' # {} => pte'[x] = pte[x]]_pvars
  <2> SUFFICES ASSUME PInv, HeapInv, [PNext]_pvars, Intact', NEW x \in Page,
                      NEW u \in HeldBy(x)
               PROVE  pte'[x] = pte[x]
    OBVIOUS
  <2>1. Intact
    BY StepIsHeapStep DEF Intact, Next, vars, Call, CallFree, vmalloc, vfree, Walk, TakeExact,
       Split, Retry, Find, NotFound, MergeNext, MergePrev
  <2>2. u \in Task /\ x \in Pages(given[u].addr, given[u].size)
    BY DEF HeldBy
  <2>3. CASE UNCHANGED pte
    BY <2>3
  <2>4. ASSUME NEW t \in Task, NEW b \in Link, NEW g \in Frame,
               NEW m \in [Pages(addr[cur[t]], arg[t]) -> Frame \cup {NoFrame}],
               SplitAndMap(t, b, m, g)
        PROVE  pte'[x] = pte[x]
    BY <2>1, <2>2, <2>4, MapsNobodysPages
  <2> QED
    BY <2>3, <2>4 DEF PNext, pvars, frames, HeapStep, Write, Evict
<1> QED
  BY <1>1, <1>2, <1>3, PTL DEF PSpec, HeldKeepsFrame

-----------------------------------------------------------------------------
(***************************************************************************)
(* KernelMap.  The areas of config.h, in pages; what a loop or a later     *)
(* mapping leaves alone; and what each loop has set up.                    *)
(***************************************************************************)
\* The ends of the areas, and how many pages their loops map.
AreaPages ==
  /\ Pg(KERNEL_ADDR) = 256 /\ Pg(VRAM_ADDR_V) = 0 /\ Pg(VRAM_ADDR) = 160
  /\ Pg(PMALLOC_MAN_ADDR_V) = 2305 /\ Pg(PMALLOC_MAN_ADDR_P) = 2305
  /\ Pg(KERNEL_PDT) = 1280 /\ Pg(KERNEL_PT0) = 1281 /\ Pg(GDT_IDT_HEAD_ADDR) = 3840
  /\ Pg(KERNEL_STACK_TOP_V) = 4096 /\ Pg(VMALLOC_MAN_ADDR) = 2561
  /\ Pg(PMALLOC_START) = 4096 /\ Pg(FD_BUFFER_V) = 2817 /\ Pg(FD_BUFFER_P) = 0
  /\ Pg(KERNEL_STACK_V - 4) = 12287 /\ Pg(KERNEL_STACK_SIZE - 4) = 8191
  /\ KPage = 0 .. 16383 /\ HeapArea = 12288 .. 16383 /\ ImagePage = 0 .. 1023

AreaSizes ==
  /\ Iterations(KERNEL_SIZE) = 1024 /\ Iterations(VRAM_SIZE) = 16
  /\ Iterations(P_MEMMAN_size) = 1537 /\ Iterations(KERNEL_PT_SIZE) = 1024
  /\ Iterations(KERNEL_STACK_SIZE) = 8192 /\ Iterations(V_MEMMAN_size) = 2

LEMMA MapNumbers == AreaPages
<1> USE DEF Pg, MEM_PAGE_SIZE
<1>1. Pg(KERNEL_ADDR) = 256 /\ Pg(VRAM_ADDR_V) = 0 /\ Pg(VRAM_ADDR) = 160
  BY DEF KERNEL_ADDR, VRAM_ADDR_V, VRAM_ADDR
<1>2. Pg(PMALLOC_MAN_ADDR_V) = 2305 /\ Pg(PMALLOC_MAN_ADDR_P) = 2305
  BY DEF PMALLOC_MAN_ADDR_V, PMALLOC_MAN_ADDR_P
<1>3. Pg(KERNEL_PDT) = 1280 /\ Pg(KERNEL_PT0) = 1281 /\ Pg(GDT_IDT_HEAD_ADDR) = 3840
  BY DEF KERNEL_PDT, KERNEL_PT0, GDT_IDT_HEAD_ADDR
<1>4. Pg(KERNEL_STACK_TOP_V) = 4096 /\ Pg(VMALLOC_MAN_ADDR) = 2561
  BY DEF KERNEL_STACK_TOP_V, VMALLOC_MAN_ADDR
<1>5. Pg(PMALLOC_START) = 4096 /\ Pg(FD_BUFFER_V) = 2817 /\ Pg(FD_BUFFER_P) = 0
  BY DEF PMALLOC_START, FD_BUFFER_V, FD_BUFFER_P
<1>6. Pg(KERNEL_STACK_V - 4) = 12287 /\ Pg(KERNEL_STACK_SIZE - 4) = 8191
  BY DEF KERNEL_STACK_V, KERNEL_STACK_TOP_V, KERNEL_STACK_SIZE
<1>7. KPage = 0 .. 16383 /\ HeapArea = 12288 .. 16383
  BY DEF KPage, HeapArea, VMALLOC_MAX_END, VMALLOC_START
<1>8. ImagePage = 0 .. 1023
  BY DEF ImagePage, KERNEL_SIZE, mem_npage, roundup
<1> QED BY <1>1, <1>2, <1>3, <1>4, <1>5, <1>6, <1>7, <1>8 DEF AreaPages

LEMMA MapSizes == AreaSizes
<1> USE DEF Iterations, mem_npage, roundup, MEM_PAGE_SIZE
<1>1. Iterations(KERNEL_SIZE) = 1024 /\ Iterations(VRAM_SIZE) = 16
  BY DEF KERNEL_SIZE, VRAM_SIZE
<1>2. Iterations(P_MEMMAN_size) = 1537 /\ Iterations(KERNEL_PT_SIZE) = 1024
  BY DEF P_MEMMAN_size, KERNEL_PT_SIZE, P_MEM_PAGE_size
<1>3. Iterations(KERNEL_STACK_SIZE) = 8192 /\ Iterations(V_MEMMAN_size) = 2
  BY DEF KERNEL_STACK_SIZE, V_MEMMAN_size, KERNEL_STACK_V, KERNEL_STACK_TOP_V
<1> QED BY <1>1, <1>2, <1>3 DEF AreaSizes

LEMMA MapLoops ==
  /\ Len(Loops) = 8
  /\ Loops[1] = [at |-> 256, n |-> 1024, to |-> Fresh]
  /\ Loops[2] = [at |-> 0, n |-> 16, to |-> 160]
  /\ Loops[3] = [at |-> 2305, n |-> 1537, to |-> 2305]
  /\ Loops[4] = [at |-> 1280, n |-> 1, to |-> 1280]
  /\ Loops[5] = [at |-> 1280, n |-> 1024, to |-> 1280]
  /\ Loops[6] = [at |-> 3840, n |-> 1, to |-> 3840]
  /\ Loops[7] = [at |-> 4096, n |-> 8192, to |-> Fresh]
  /\ Loops[8] = [at |-> 2561, n |-> 2, to |-> Fresh]
BY MapNumbers, MapSizes DEF AreaPages, AreaSizes, Loops, Loop

LEMMA LoopCount == Len(Loops) = 8
BY MapLoops

LEMMA InPage == \A w : w \in KPage <=> w \in Int /\ 0 <= w /\ w <= 16383
<1>1. Pg(VMALLOC_MAX_END) = 16384
  BY DEF Pg, VMALLOC_MAX_END, MEM_PAGE_SIZE
<1>2. ASSUME NEW w \in Int PROVE w \in KPage <=> 0 <= w /\ w <= 16383
  BY <1>1 DEF KPage
<1>3. \A w \in KPage : w \in Int
  BY <1>1 DEF KPage
<1> QED
  BY <1>2, <1>3

LEMMA InHeap == \A w : w \in HeapArea <=> w \in Int /\ 12288 <= w /\ w <= 16383
<1>1. Pg(VMALLOC_MAX_END) = 16384 /\ Pg(VMALLOC_START) = 12288
  BY DEF Pg, VMALLOC_MAX_END, VMALLOC_START, MEM_PAGE_SIZE
<1>2. ASSUME NEW w \in Int PROVE w \in HeapArea <=> 12288 <= w /\ w <= 16383
  BY <1>1 DEF HeapArea
<1>3. \A w \in HeapArea : w \in Int
  BY <1>1 DEF HeapArea
<1> QED
  BY <1>2, <1>3

LEMMA InImage == \A k : k \in ImagePage <=> k \in Int /\ 0 <= k /\ k <= 1023
<1>1. ImagePage = 0 .. 1023
  BY MapNumbers DEF AreaPages
<1> QED
  BY <1>1

\* The table of frames keeps its own pages up to 2560: the heap's table of blocks
\* is mapped over the next.  So many more frames may be handed out.
MostCuts == 78162

\* Pages lo to hi go to the frames from f on, or nowhere.
MapsTo(lo, hi, f) == \A a \in Int : lo <= a /\ a <= hi => entry[a] = f + (a - lo)
Free(lo, hi) == \A a \in Int : lo <= a /\ a <= hi => entry[a] = Absent
CopiedTo(f) == \A k \in ImagePage : image[k] = f + k

\* The inductive invariant, by what is set up when each loop is done.
Counted ==
  /\ loop \in Nat /\ 1 <= loop /\ loop <= 9
  /\ cuts \in Nat /\ cuts <= MaxCuts
  /\ loop <= 8 => cuts = 0
  /\ handed = IF loop = 1 THEN 0 ELSE IF loop <= 7 THEN 1024
             ELSE IF loop = 8 THEN 9216 ELSE 9218 + cuts
  /\ entry \in [KPage -> Int]
Moved ==
  /\ loop > 1 => MapsTo(256, 1279, 4096) /\ CopiedTo(4096)
  /\ loop > 7 => new_stack_p = 5120 /\ MapsTo(4096, 12287, 5120)
  /\ paging => loop >= 8 /\ live_stack = 13311
Identity ==
  /\ loop > 3 => MapsTo(2305, 2560, 2305) /\ MapsTo(3840, 3840, 3840)
  /\ loop > 4 => MapsTo(1280, 1280, 1280)
  /\ loop > 5 => MapsTo(1280, 2303, 1280)
Unmapped ==
  /\ loop <= 1 => Free(256, 1279)
  /\ loop <= 2 => Free(0, 15)
  /\ loop <= 3 => Free(2305, 3841)
  /\ loop <= 4 => Free(1280, 1280)
  /\ loop <= 5 => Free(1281, 2303)
  /\ loop <= 7 => Free(4096, 12287)
KInv == Counted /\ Moved /\ Identity /\ Unmapped

LEMMA InitKInv == KInit => KInv
<1> SUFFICES ASSUME KInit PROVE KInv
  OBVIOUS
<1>1. loop = 1 /\ ~paging /\ handed = 0 /\ cuts = 0 /\ entry = [v \in KPage |-> Absent]
  BY DEF KInit
<1>2. \A a \in KPage : entry[a] = Absent
  BY <1>1
<1>3. Counted
  <2>1. Absent \in Int
    BY DEF Absent
  <2>2. entry \in [KPage -> Int]
    BY <1>1, <2>1
  <2>3. MaxCuts \in Nat
    BY MapAssumption
  <2>4. loop = 1 /\ handed = 0 /\ cuts = 0
    BY <1>1
  <2> QED
    BY <2>2, <2>3, <2>4 DEF Counted
<1>4. Moved
  BY <1>1 DEF Moved
<1>5. Identity
  BY <1>1 DEF Identity
<1>6. ASSUME NEW lo \in Nat, NEW hi \in Nat, hi <= 16383 PROVE Free(lo, hi)
  BY <1>2, <1>6, InPage DEF Free
<1>7. Unmapped
  BY <1>6 DEF Unmapped
<1> QED
  BY <1>3, <1>4, <1>5, <1>7 DEF KInv

\* What map_memory_4k() does to the table: pages v to v + n - 1 go to the frames
\* from f on.
Laid(v, n, f) ==
  /\ entry' \in [KPage -> Int]
  /\ \A w \in KPage : w < v \/ w >= v + n => entry'[w] = entry[w]
  /\ \A w \in KPage : v <= w /\ w < v + n => entry'[w] = f + (w - v)

LEMMA Lays ==
  ASSUME NEW v \in Int, NEW n \in Nat, NEW f \in Int, Counted, handed \in Nat,
         map_memory_4k(v, n, f), NEW g \in Int,
         f = Fresh => g = 4096 + handed, f # Fresh => g = f
  PROVE  Laid(v, n, g) /\ handed' = IF f = Fresh THEN handed + n ELSE handed
<1>1. Pg(PMALLOC_START) = 4096
  BY MapNumbers DEF AreaPages
<1>2. entry \in [KPage -> Int]
  BY DEF Counted
<1>3. \A k : pmalloc_4k(k) = 4096 + handed + k
  BY <1>1 DEF pmalloc_4k
<1>4. entry' = [w \in KPage |-> IF w \notin v .. v + n - 1 THEN entry[w]
                           ELSE IF f = Fresh THEN pmalloc_4k(w - v)
                           ELSE f + (w - v)]
  BY DEF map_memory_4k
<1>5. \A w \in KPage : entry'[w] = IF w \notin v .. v + n - 1 THEN entry[w]
                           ELSE IF f = Fresh THEN pmalloc_4k(w - v)
                           ELSE f + (w - v)
  BY <1>4
<1>6. ASSUME NEW w \in KPage
      PROVE  /\ w < v \/ w >= v + n => entry'[w] = entry[w]
             /\ v <= w /\ w < v + n => entry'[w] = g + (w - v)
             /\ entry'[w] \in Int
  <2>1. w \in Int /\ entry[w] \in Int
    BY <1>2, InPage
  <2>2. w \in v .. v + n - 1 <=> v <= w /\ w < v + n
    BY <2>1
  <2>3. g + (w - v) \in Int
    BY <2>1
  <2>4. CASE w \in v .. v + n - 1 /\ f = Fresh
    BY <1>3, <1>5, <2>1, <2>2, <2>3, <2>4
  <2>5. CASE w \in v .. v + n - 1 /\ f # Fresh
    BY <1>5, <2>1, <2>2, <2>3, <2>5
  <2>6. CASE w \notin v .. v + n - 1
    BY <1>5, <2>1, <2>2, <2>6
  <2> QED
    BY <2>4, <2>5, <2>6
<1>7. entry' \in [KPage -> Int]
  BY <1>4, <1>6
<1>8. Laid(v, n, g)
  BY <1>6, <1>7 DEF Laid
<1>9. handed' = IF f = Fresh THEN handed + n ELSE handed
  BY DEF map_memory_4k
<1> QED
  BY <1>8, <1>9

LEMMA Keeps ==
  ASSUME NEW v \in Int, NEW n \in Nat, NEW g \in Int, Laid(v, n, g),
         NEW lo \in Nat, NEW hi \in Nat, hi <= 16383, hi < v \/ v + n <= lo, NEW f \in Int
  PROVE  /\ MapsTo(lo, hi, f) => MapsTo(lo, hi, f)'
         /\ Free(lo, hi) => Free(lo, hi)'
<1>1. ASSUME NEW a \in Int, lo <= a, a <= hi PROVE entry'[a] = entry[a]
  <2>1. a \in KPage
    BY <1>1, InPage
  <2>2. a < v \/ a >= v + n
    BY <1>1
  <2> QED
    BY <2>1, <2>2 DEF Laid
<1>2. MapsTo(lo, hi, f) => MapsTo(lo, hi, f)'
  BY <1>1 DEF MapsTo
<1>3. Free(lo, hi) => Free(lo, hi)'
  BY <1>1 DEF Free, Absent
<1> QED
  BY <1>2, <1>3

LEMMA Puts ==
  ASSUME NEW v \in Int, NEW n \in Nat, NEW g \in Int, Laid(v, n, g),
         NEW lo \in Nat, NEW hi \in Nat, hi <= 16383, v <= lo, hi < v + n
  PROVE  MapsTo(lo, hi, g + (lo - v))'
<1>1. ASSUME NEW a \in Int, lo <= a, a <= hi PROVE entry'[a] = g + (a - v)
  <2>1. a \in KPage
    BY <1>1, InPage
  <2>2. v <= a /\ a < v + n
    BY <1>1
  <2> QED
    BY <2>1, <2>2 DEF Laid
<1>2. ASSUME NEW a \in Int, lo <= a, a <= hi PROVE entry'[a] = (g + (lo - v)) + (a - lo)
  BY <1>1, <1>2
<1> QED
  BY <1>2 DEF MapsTo
LEMMA GivenNat ==
  ASSUME Counted
  PROVE  handed \in Nat /\ cuts \in Nat /\ MaxCuts \in Nat
<1>1. cuts \in Nat /\ MaxCuts \in Nat
  BY MapAssumption DEF Counted
<1>2. handed = 0 \/ handed = 1024 \/ handed = 9216 \/ handed = 9218 + cuts
  BY DEF Counted
<1> QED
  BY <1>1, <1>2

\* The step of the l-th loop: pages v to v + n - 1, to the frames from g on.
LoopIs(l, v, n, g) ==
  /\ loop = l /\ loop' = l + 1 /\ cuts = 0 /\ cuts' = 0
  /\ paging' = paging /\ live_stack' = live_stack
  /\ l = 8 => paging
  /\ Laid(v, n, g)
  /\ handed' = IF (l = 1 \/ l >= 7) THEN handed + n ELSE handed
  /\ l = 1 => \A k \in ImagePage : image'[k] = 4096 + handed + k
  /\ l # 1 => image' = image
  /\ l = 7 => new_stack_p' = 4096 + handed
  /\ l # 7 => new_stack_p' = new_stack_p

LEMMA OneOfTheLoops ==
  ASSUME KInv, MapLoop
  PROVE  \/ LoopIs(1, 256, 1024, 4096) \/ LoopIs(2, 0, 16, 160) \/ LoopIs(3, 2305, 1537, 2305)
         \/ LoopIs(4, 1280, 1, 1280) \/ LoopIs(5, 1280, 1024, 1280) \/ LoopIs(6, 3840, 1, 3840)
         \/ LoopIs(7, 4096, 8192, 5120) \/ LoopIs(8, 2561, 2, 13312)
<1>1. handed \in Nat /\ loop \in Nat /\ 1 <= loop /\ loop <= 8 /\ cuts = 0 /\ Counted
  <2>1. Counted /\ handed \in Nat
    BY GivenNat DEF KInv
  <2>2. loop <= 8
    BY LoopCount DEF MapLoop
  <2>3. loop \in Nat /\ 1 <= loop /\ (loop <= 8 => cuts = 0)
    BY <2>1 DEF Counted
  <2> QED
    BY <2>1, <2>2, <2>3
<1>2. ASSUME NEW l \in Nat, 1 <= l, l <= 8, loop = l, NEW v \in Int,
             NEW n \in Nat, NEW f \in Int,
             Loops[l] = [at |-> v, n |-> n, to |-> f],
             NEW g \in Int, f = Fresh => g = 4096 + handed, f # Fresh => g = f,
             f = Fresh <=> (l = 1 \/ l >= 7)
      PROVE  LoopIs(l, v, n, g)
  <2>1. map_memory_4k(v, n, f)
    BY <1>2 DEF MapLoop
  <2>2. Laid(v, n, g) /\ handed' = IF f = Fresh THEN handed + n ELSE handed
    BY <1>1, <1>2, <2>1, Lays
  <2>3. Pg(PMALLOC_START) = 4096 /\ STACK = 7 /\ VMALLOCMAN = 8
    BY MapNumbers DEF AreaPages, STACK, VMALLOCMAN
  <2>4. \A k : pmalloc_4k(k) = 4096 + handed + k
    BY <2>3 DEF pmalloc_4k
  <2>5. l = 1 => \A k \in ImagePage : image'[k] = 4096 + handed + k
    <3> HAVE l = 1
    <3>1. image' = [k \in ImagePage |-> pmalloc_4k(k)]
      BY <1>2 DEF MapLoop
    <3>2. \A k \in ImagePage : image'[k] = pmalloc_4k(k)
      BY <3>1
    <3> QED
      BY <2>4, <3>2 
  <2>6. l # 1 => image' = image
    BY <1>2 DEF MapLoop
  <2>7. l = 7 => new_stack_p' = 4096 + handed
    BY <1>1, <1>2, <2>3, <2>4 DEF MapLoop
  <2>8. l # 7 => new_stack_p' = new_stack_p
    BY <1>2, <2>3 DEF MapLoop
  <2>9. loop' = l + 1 /\ paging' = paging /\ live_stack' = live_stack /\ cuts' = 0
    BY <1>1, <1>2 DEF MapLoop
  <2>10. l = 8 => paging
    BY <1>2, <2>3 DEF MapLoop
  <2>11. handed' = IF (l = 1 \/ l >= 7) THEN handed + n ELSE handed
    BY <1>2, <2>2
  <2>12. loop = l /\ cuts = 0
    BY <1>1, <1>2
  <2> QED
    BY <2>2, <2>5, <2>6, <2>7, <2>8, <2>9, <2>10, <2>11, <2>12 DEF LoopIs
<1>3. Counted
  BY <1>1
<1>4. CASE loop = 1 BY <1>2, <1>3, <1>4, MapLoops DEF Fresh, Counted
<1>5. CASE loop = 2 BY <1>2, <1>5, MapLoops DEF Fresh
<1>6. CASE loop = 3 BY <1>2, <1>6, MapLoops DEF Fresh
<1>7. CASE loop = 4 BY <1>2, <1>7, MapLoops DEF Fresh
<1>8. CASE loop = 5 BY <1>2, <1>8, MapLoops DEF Fresh
<1>9. CASE loop = 6 BY <1>2, <1>9, MapLoops DEF Fresh
<1>10. CASE loop = 7 BY <1>2, <1>3, <1>10, MapLoops DEF Fresh, Counted
<1>11. CASE loop = 8 BY <1>2, <1>3, <1>11, MapLoops DEF Fresh, Counted
<1> QED BY <1>1, <1>4, <1>5, <1>6, <1>7, <1>8, <1>9, <1>10, <1>11

LEMMA Loop1 == KInv /\ LoopIs(1, 256, 1024, 4096) => KInv'
<1> SUFFICES ASSUME KInv, LoopIs(1, 256, 1024, 4096) PROVE KInv'
  OBVIOUS
<1>1. Laid(256, 1024, 4096) /\ loop = 1 /\ loop' = 2
  BY DEF LoopIs
<1>2. Counted'
  BY GivenNat, <1>1 DEF KInv, Counted, LoopIs, Laid
<1>3. MapsTo(256, 1279, 4096)'
  <2>1. MapsTo(256, 1279, 4096 + (256 - 256))'
    BY <1>1, Puts
  <2>2. 4096 + (256 - 256) = 4096
    OBVIOUS
  <2> QED
    BY <2>1, <2>2
<1>4. Free(0, 15)'
  <2>1. Free(0, 15)
    BY <1>1 DEF KInv, Unmapped
  <2> QED
    BY <1>1, <2>1, Keeps
<1>5. Free(2305, 3841)'
  <2>1. Free(2305, 3841)
    BY <1>1 DEF KInv, Unmapped
  <2> QED
    BY <1>1, <2>1, Keeps
<1>6. Free(1280, 1280)'
  <2>1. Free(1280, 1280)
    BY <1>1 DEF KInv, Unmapped
  <2> QED
    BY <1>1, <2>1, Keeps
<1>7. Free(1281, 2303)'
  <2>1. Free(1281, 2303)
    BY <1>1 DEF KInv, Unmapped
  <2> QED
    BY <1>1, <2>1, Keeps
<1>8. Free(4096, 12287)'
  <2>1. Free(4096, 12287)
    BY <1>1 DEF KInv, Unmapped
  <2> QED
    BY <1>1, <2>1, Keeps
<1>9. Moved'
  BY <1>1, <1>3 DEF Moved, KInv, Counted, LoopIs, CopiedTo
<1>10. Identity'
  BY <1>1 DEF Identity
<1>11. Unmapped'
  BY <1>1, <1>4, <1>5, <1>6, <1>7, <1>8 DEF Unmapped
<1> QED
  BY <1>2, <1>9, <1>10, <1>11 DEF KInv

LEMMA Loop2 == KInv /\ LoopIs(2, 0, 16, 160) => KInv'
<1> SUFFICES ASSUME KInv, LoopIs(2, 0, 16, 160) PROVE KInv'
  OBVIOUS
<1>1. Laid(0, 16, 160) /\ loop = 2 /\ loop' = 3
  BY DEF LoopIs
<1>2. Counted'
  BY GivenNat, <1>1 DEF KInv, Counted, LoopIs, Laid
<1>3. MapsTo(256, 1279, 4096)'
  <2>1. MapsTo(256, 1279, 4096)
    BY <1>1 DEF KInv, Moved
  <2> QED
    BY <1>1, <2>1, Keeps
<1>4. Free(2305, 3841)'
  <2>1. Free(2305, 3841)
    BY <1>1 DEF KInv, Unmapped
  <2> QED
    BY <1>1, <2>1, Keeps
<1>5. Free(1280, 1280)'
  <2>1. Free(1280, 1280)
    BY <1>1 DEF KInv, Unmapped
  <2> QED
    BY <1>1, <2>1, Keeps
<1>6. Free(1281, 2303)'
  <2>1. Free(1281, 2303)
    BY <1>1 DEF KInv, Unmapped
  <2> QED
    BY <1>1, <2>1, Keeps
<1>7. Free(4096, 12287)'
  <2>1. Free(4096, 12287)
    BY <1>1 DEF KInv, Unmapped
  <2> QED
    BY <1>1, <2>1, Keeps
<1>8. Moved'
  BY <1>1, <1>3 DEF Moved, KInv, Counted, LoopIs, CopiedTo
<1>9. Identity'
  BY <1>1 DEF Identity
<1>10. Unmapped'
  BY <1>1, <1>4, <1>5, <1>6, <1>7 DEF Unmapped
<1> QED
  BY <1>2, <1>8, <1>9, <1>10 DEF KInv

LEMMA Loop3 == KInv /\ LoopIs(3, 2305, 1537, 2305) => KInv'
<1> SUFFICES ASSUME KInv, LoopIs(3, 2305, 1537, 2305) PROVE KInv'
  OBVIOUS
<1>1. Laid(2305, 1537, 2305) /\ loop = 3 /\ loop' = 4
  BY DEF LoopIs
<1>2. Counted'
  BY GivenNat, <1>1 DEF KInv, Counted, LoopIs, Laid
<1>3. MapsTo(256, 1279, 4096)'
  <2>1. MapsTo(256, 1279, 4096)
    BY <1>1 DEF KInv, Moved
  <2> QED
    BY <1>1, <2>1, Keeps
<1>4. MapsTo(2305, 2560, 2305)'
  <2>1. MapsTo(2305, 2560, 2305 + (2305 - 2305))'
    BY <1>1, Puts
  <2>2. 2305 + (2305 - 2305) = 2305
    OBVIOUS
  <2> QED
    BY <2>1, <2>2
<1>5. MapsTo(3840, 3840, 3840)'
  <2>1. MapsTo(3840, 3840, 2305 + (3840 - 2305))'
    BY <1>1, Puts
  <2>2. 2305 + (3840 - 2305) = 3840
    OBVIOUS
  <2> QED
    BY <2>1, <2>2
<1>6. Free(1280, 1280)'
  <2>1. Free(1280, 1280)
    BY <1>1 DEF KInv, Unmapped
  <2> QED
    BY <1>1, <2>1, Keeps
<1>7. Free(1281, 2303)'
  <2>1. Free(1281, 2303)
    BY <1>1 DEF KInv, Unmapped
  <2> QED
    BY <1>1, <2>1, Keeps
<1>8. Free(4096, 12287)'
  <2>1. Free(4096, 12287)
    BY <1>1 DEF KInv, Unmapped
  <2> QED
    BY <1>1, <2>1, Keeps
<1>9. Moved'
  BY <1>1, <1>3 DEF Moved, KInv, Counted, LoopIs, CopiedTo
<1>10. Identity'
  BY <1>1, <1>4, <1>5 DEF Identity
<1>11. Unmapped'
  BY <1>1, <1>6, <1>7, <1>8 DEF Unmapped
<1> QED
  BY <1>2, <1>9, <1>10, <1>11 DEF KInv

LEMMA Loop4 == KInv /\ LoopIs(4, 1280, 1, 1280) => KInv'
<1> SUFFICES ASSUME KInv, LoopIs(4, 1280, 1, 1280) PROVE KInv'
  OBVIOUS
<1>1. Laid(1280, 1, 1280) /\ loop = 4 /\ loop' = 5
  BY DEF LoopIs
<1>2. Counted'
  BY GivenNat, <1>1 DEF KInv, Counted, LoopIs, Laid
<1>3. MapsTo(256, 1279, 4096)'
  <2>1. MapsTo(256, 1279, 4096)
    BY <1>1 DEF KInv, Moved
  <2> QED
    BY <1>1, <2>1, Keeps
<1>4. MapsTo(2305, 2560, 2305)'
  <2>1. MapsTo(2305, 2560, 2305)
    BY <1>1 DEF KInv, Identity
  <2> QED
    BY <1>1, <2>1, Keeps
<1>5. MapsTo(3840, 3840, 3840)'
  <2>1. MapsTo(3840, 3840, 3840)
    BY <1>1 DEF KInv, Identity
  <2> QED
    BY <1>1, <2>1, Keeps
<1>6. MapsTo(1280, 1280, 1280)'
  <2>1. MapsTo(1280, 1280, 1280 + (1280 - 1280))'
    BY <1>1, Puts
  <2>2. 1280 + (1280 - 1280) = 1280
    OBVIOUS
  <2> QED
    BY <2>1, <2>2
<1>7. Free(1281, 2303)'
  <2>1. Free(1281, 2303)
    BY <1>1 DEF KInv, Unmapped
  <2> QED
    BY <1>1, <2>1, Keeps
<1>8. Free(4096, 12287)'
  <2>1. Free(4096, 12287)
    BY <1>1 DEF KInv, Unmapped
  <2> QED
    BY <1>1, <2>1, Keeps
<1>9. Moved'
  BY <1>1, <1>3 DEF Moved, KInv, Counted, LoopIs, CopiedTo
<1>10. Identity'
  BY <1>1, <1>4, <1>5, <1>6 DEF Identity
<1>11. Unmapped'
  BY <1>1, <1>7, <1>8 DEF Unmapped
<1> QED
  BY <1>2, <1>9, <1>10, <1>11 DEF KInv

LEMMA Loop5 == KInv /\ LoopIs(5, 1280, 1024, 1280) => KInv'
<1> SUFFICES ASSUME KInv, LoopIs(5, 1280, 1024, 1280) PROVE KInv'
  OBVIOUS
<1>1. Laid(1280, 1024, 1280) /\ loop = 5 /\ loop' = 6
  BY DEF LoopIs
<1>2. Counted'
  BY GivenNat, <1>1 DEF KInv, Counted, LoopIs, Laid
<1>3. MapsTo(256, 1279, 4096)'
  <2>1. MapsTo(256, 1279, 4096)
    BY <1>1 DEF KInv, Moved
  <2> QED
    BY <1>1, <2>1, Keeps
<1>4. MapsTo(2305, 2560, 2305)'
  <2>1. MapsTo(2305, 2560, 2305)
    BY <1>1 DEF KInv, Identity
  <2> QED
    BY <1>1, <2>1, Keeps
<1>5. MapsTo(3840, 3840, 3840)'
  <2>1. MapsTo(3840, 3840, 3840)
    BY <1>1 DEF KInv, Identity
  <2> QED
    BY <1>1, <2>1, Keeps
<1>6. MapsTo(1280, 1280, 1280)'
  <2>1. MapsTo(1280, 1280, 1280 + (1280 - 1280))'
    BY <1>1, Puts
  <2>2. 1280 + (1280 - 1280) = 1280
    OBVIOUS
  <2> QED
    BY <2>1, <2>2
<1>7. MapsTo(1280, 2303, 1280)'
  <2>1. MapsTo(1280, 2303, 1280 + (1280 - 1280))'
    BY <1>1, Puts
  <2>2. 1280 + (1280 - 1280) = 1280
    OBVIOUS
  <2> QED
    BY <2>1, <2>2
<1>8. Free(4096, 12287)'
  <2>1. Free(4096, 12287)
    BY <1>1 DEF KInv, Unmapped
  <2> QED
    BY <1>1, <2>1, Keeps
<1>9. Moved'
  BY <1>1, <1>3 DEF Moved, KInv, Counted, LoopIs, CopiedTo
<1>10. Identity'
  BY <1>1, <1>4, <1>5, <1>6, <1>7 DEF Identity
<1>11. Unmapped'
  BY <1>1, <1>8 DEF Unmapped
<1> QED
  BY <1>2, <1>9, <1>10, <1>11 DEF KInv

LEMMA Loop6 == KInv /\ LoopIs(6, 3840, 1, 3840) => KInv'
<1> SUFFICES ASSUME KInv, LoopIs(6, 3840, 1, 3840) PROVE KInv'
  OBVIOUS
<1>1. Laid(3840, 1, 3840) /\ loop = 6 /\ loop' = 7
  BY DEF LoopIs
<1>2. Counted'
  BY GivenNat, <1>1 DEF KInv, Counted, LoopIs, Laid
<1>3. MapsTo(256, 1279, 4096)'
  <2>1. MapsTo(256, 1279, 4096)
    BY <1>1 DEF KInv, Moved
  <2> QED
    BY <1>1, <2>1, Keeps
<1>4. MapsTo(2305, 2560, 2305)'
  <2>1. MapsTo(2305, 2560, 2305)
    BY <1>1 DEF KInv, Identity
  <2> QED
    BY <1>1, <2>1, Keeps
<1>5. MapsTo(3840, 3840, 3840)'
  <2>1. MapsTo(3840, 3840, 3840 + (3840 - 3840))'
    BY <1>1, Puts
  <2>2. 3840 + (3840 - 3840) = 3840
    OBVIOUS
  <2> QED
    BY <2>1, <2>2
<1>6. MapsTo(1280, 1280, 1280)'
  <2>1. MapsTo(1280, 1280, 1280)
    BY <1>1 DEF KInv, Identity
  <2> QED
    BY <1>1, <2>1, Keeps
<1>7. MapsTo(1280, 2303, 1280)'
  <2>1. MapsTo(1280, 2303, 1280)
    BY <1>1 DEF KInv, Identity
  <2> QED
    BY <1>1, <2>1, Keeps
<1>8. Free(4096, 12287)'
  <2>1. Free(4096, 12287)
    BY <1>1 DEF KInv, Unmapped
  <2> QED
    BY <1>1, <2>1, Keeps
<1>9. Moved'
  BY <1>1, <1>3 DEF Moved, KInv, Counted, LoopIs, CopiedTo
<1>10. Identity'
  BY <1>1, <1>4, <1>5, <1>6, <1>7 DEF Identity
<1>11. Unmapped'
  BY <1>1, <1>8 DEF Unmapped
<1> QED
  BY <1>2, <1>9, <1>10, <1>11 DEF KInv

LEMMA Loop7 == KInv /\ LoopIs(7, 4096, 8192, 5120) => KInv'
<1> SUFFICES ASSUME KInv, LoopIs(7, 4096, 8192, 5120) PROVE KInv'
  OBVIOUS
<1>1. Laid(4096, 8192, 5120) /\ loop = 7 /\ loop' = 8
  BY DEF LoopIs
<1>2. Counted'
  BY GivenNat, <1>1 DEF KInv, Counted, LoopIs, Laid
<1>3. MapsTo(256, 1279, 4096)'
  <2>1. MapsTo(256, 1279, 4096)
    BY <1>1 DEF KInv, Moved
  <2> QED
    BY <1>1, <2>1, Keeps
<1>4. MapsTo(4096, 12287, 5120)'
  <2>1. MapsTo(4096, 12287, 5120 + (4096 - 4096))'
    BY <1>1, Puts
  <2>2. 5120 + (4096 - 4096) = 5120
    OBVIOUS
  <2> QED
    BY <2>1, <2>2
<1>5. MapsTo(2305, 2560, 2305)'
  <2>1. MapsTo(2305, 2560, 2305)
    BY <1>1 DEF KInv, Identity
  <2> QED
    BY <1>1, <2>1, Keeps
<1>6. MapsTo(3840, 3840, 3840)'
  <2>1. MapsTo(3840, 3840, 3840)
    BY <1>1 DEF KInv, Identity
  <2> QED
    BY <1>1, <2>1, Keeps
<1>7. MapsTo(1280, 1280, 1280)'
  <2>1. MapsTo(1280, 1280, 1280)
    BY <1>1 DEF KInv, Identity
  <2> QED
    BY <1>1, <2>1, Keeps
<1>8. MapsTo(1280, 2303, 1280)'
  <2>1. MapsTo(1280, 2303, 1280)
    BY <1>1 DEF KInv, Identity
  <2> QED
    BY <1>1, <2>1, Keeps
<1>9. Moved'
  BY <1>1, <1>3, <1>4 DEF Moved, KInv, Counted, LoopIs, CopiedTo
<1>10. Identity'
  BY <1>1, <1>5, <1>6, <1>7, <1>8 DEF Identity
<1>11. Unmapped'
  BY <1>1 DEF Unmapped
<1> QED
  BY <1>2, <1>9, <1>10, <1>11 DEF KInv

LEMMA Loop8 == KInv /\ LoopIs(8, 2561, 2, 13312) => KInv'
<1> SUFFICES ASSUME KInv, LoopIs(8, 2561, 2, 13312) PROVE KInv'
  OBVIOUS
<1>1. Laid(2561, 2, 13312) /\ loop = 8 /\ loop' = 9
  BY DEF LoopIs
<1>2. Counted'
  BY GivenNat, <1>1 DEF KInv, Counted, LoopIs, Laid
<1>3. MapsTo(256, 1279, 4096)'
  <2>1. MapsTo(256, 1279, 4096)
    BY <1>1 DEF KInv, Moved
  <2> QED
    BY <1>1, <2>1, Keeps
<1>4. MapsTo(4096, 12287, 5120)'
  <2>1. MapsTo(4096, 12287, 5120)
    BY <1>1 DEF KInv, Moved
  <2> QED
    BY <1>1, <2>1, Keeps
<1>5. MapsTo(2305, 2560, 2305)'
  <2>1. MapsTo(2305, 2560, 2305)
    BY <1>1 DEF KInv, Identity
  <2> QED
    BY <1>1, <2>1, Keeps
<1>6. MapsTo(3840, 3840, 3840)'
  <2>1. MapsTo(3840, 3840, 3840)
    BY <1>1 DEF KInv, Identity
  <2> QED
    BY <1>1, <2>1, Keeps
<1>7. MapsTo(1280, 1280, 1280)'
  <2>1. MapsTo(1280, 1280, 1280)
    BY <1>1 DEF KInv, Identity
  <2> QED
    BY <1>1, <2>1, Keeps
<1>8. MapsTo(1280, 2303, 1280)'
  <2>1. MapsTo(1280, 2303, 1280)
    BY <1>1 DEF KInv, Identity
  <2> QED
    BY <1>1, <2>1, Keeps
<1>9. Moved'
  BY <1>1, <1>3, <1>4 DEF Moved, KInv, Counted, LoopIs, CopiedTo
<1>10. Identity'
  BY <1>1, <1>5, <1>6, <1>7, <1>8 DEF Identity
<1>11. Unmapped'
  BY <1>1 DEF Unmapped
<1> QED
  BY <1>2, <1>9, <1>10, <1>11 DEF KInv

\* The pages that must stay, after the boot, when another is mapped.
LEMMA LatePage ==
  ASSUME KInv, loop = 9, NEW v \in Nat, v = 2817 \/ v >= 12288,
         NEW g \in Int, Laid(v, 1, g),
         UNCHANGED <<loop, paging, image, new_stack_p, live_stack>>
  PROVE  Moved' /\ Identity' /\ Unmapped'
<1>1. MapsTo(256, 1279, 4096)'
  <2>1. MapsTo(256, 1279, 4096)
    BY DEF KInv, Moved
  <2> QED
    BY <2>1, Keeps
<1>2. MapsTo(4096, 12287, 5120)'
  <2>1. MapsTo(4096, 12287, 5120)
    BY DEF KInv, Moved
  <2> QED
    BY <2>1, Keeps
<1>3. MapsTo(2305, 2560, 2305)'
  <2>1. MapsTo(2305, 2560, 2305)
    BY DEF KInv, Identity
  <2> QED
    BY <2>1, Keeps
<1>4. MapsTo(3840, 3840, 3840)'
  <2>1. MapsTo(3840, 3840, 3840)
    BY DEF KInv, Identity
  <2> QED
    BY <2>1, Keeps
<1>5. MapsTo(1280, 1280, 1280)'
  <2>1. MapsTo(1280, 1280, 1280)
    BY DEF KInv, Identity
  <2> QED
    BY <2>1, Keeps
<1>6. MapsTo(1280, 2303, 1280)'
  <2>1. MapsTo(1280, 2303, 1280)
    BY DEF KInv, Identity
  <2> QED
    BY <2>1, Keeps
<1>7. Moved'
  BY <1>1, <1>2 DEF KInv, Moved, CopiedTo
<1>8. Identity'
  BY <1>3, <1>4, <1>5, <1>6 DEF Identity
<1>9. Unmapped'
  BY DEF Unmapped
<1> QED
  BY <1>7, <1>8, <1>9

LEMMA AfterBoot == KInv /\ loop > Len(Loops) => loop = 9
BY LoopCount DEF KInv, Counted

LEMMA FdKInv ==
  ASSUME KInv, MapFdBuffer
  PROVE  KInv' /\ Laid(2817, 1, 0) /\ handed' = handed /\ loop = 9
<1>1. loop = 9 /\ Counted /\ handed \in Nat
  <2>1. loop > Len(Loops)
    BY DEF MapFdBuffer
  <2>2. Counted
    BY DEF KInv
  <2> QED
    BY <2>1, <2>2, AfterBoot, GivenNat
<1>2. Pg(FD_BUFFER_V) = 2817 /\ Pg(FD_BUFFER_P) = 0
  BY MapNumbers DEF AreaPages
<1>3. map_memory_4k(2817, 1, 0)
  BY <1>2 DEF MapFdBuffer
<1>4. Laid(2817, 1, 0) /\ handed' = handed
  BY <1>1, <1>3, Lays DEF Fresh
<1>5. UNCHANGED <<loop, paging, image, new_stack_p, live_stack, cuts>>
  BY DEF MapFdBuffer
<1>6. Counted'
  BY <1>1, <1>4, <1>5 DEF Counted, Laid
<1>7. Moved' /\ Identity' /\ Unmapped'
  BY <1>1, <1>4, <1>5, LatePage
<1> QED
  BY <1>1, <1>4, <1>6, <1>7 DEF KInv

LEMMA HeapKInv ==
  ASSUME KInv, NEW v \in HeapPages, MapHeap(v)
  PROVE  /\ KInv' /\ Laid(v, 1, 4096 + handed)
         /\ handed' = handed + 1 /\ handed \in Nat /\ loop = 9
<1>1. loop = 9 /\ Counted /\ handed \in Nat
  <2>1. loop > Len(Loops)
    BY DEF MapHeap
  <2>2. Counted
    BY DEF KInv
  <2> QED
    BY <2>1, <2>2, AfterBoot, GivenNat
<1>2. v \in Nat /\ v >= 12288
  BY InHeap, MapAssumption
<1>3. map_memory_4k(v, 1, Fresh) /\ Fresh \in Int
  BY DEF MapHeap, Fresh
<1>4. Laid(v, 1, 4096 + handed) /\ handed' = handed + 1
  BY <1>1, <1>2, <1>3, Lays
<1>5. /\ UNCHANGED <<loop, paging, image, new_stack_p, live_stack>>
      /\ cuts < MaxCuts /\ cuts' = cuts + 1
  BY DEF MapHeap
<1>6. Counted'
  <2>1. cuts \in Nat /\ MaxCuts \in Nat /\ handed = 9218 + cuts
    BY <1>1, GivenNat DEF Counted
  <2>2. handed' = 9218 + cuts'
    BY <1>4, <1>5, <2>1
  <2>3. entry' \in [KPage -> Int]
    BY <1>4 DEF Laid
  <2> QED
    BY <1>1, <1>5, <2>1, <2>2, <2>3 DEF Counted
<1>7. Moved' /\ Identity' /\ Unmapped'
  BY <1>1, <1>2, <1>4, <1>5, LatePage
<1> QED
  BY <1>1, <1>4, <1>6, <1>7 DEF KInv

LEMMA EnableKInv == KInv /\ enable_paging => KInv'
<1> SUFFICES ASSUME KInv, enable_paging PROVE KInv'
  OBVIOUS
<1>1. loop = 8 /\ loop' = 8 /\ UNCHANGED <<entry, handed, image, new_stack_p, cuts>>
  BY DEF enable_paging, VMALLOCMAN
<1>2. Pg(KERNEL_STACK_SIZE - 4) = 8191
  BY MapNumbers DEF AreaPages
<1>3. live_stack' = 13311
  BY <1>1, <1>2 DEF enable_paging, KInv, Moved
<1>4. Counted'
  BY <1>1 DEF KInv, Counted
<1>5. Moved'
  BY <1>1, <1>3 DEF KInv, Moved, MapsTo, CopiedTo
<1>6. Identity'
  BY <1>1 DEF KInv, Identity, MapsTo
<1>7. Unmapped'
  BY <1>1 DEF KInv, Unmapped, Free
<1> QED
  BY <1>4, <1>5, <1>6, <1>7 DEF KInv

LEMMA NextKInv == KInv /\ [KNext]_(kvars) => KInv'
<1> SUFFICES ASSUME KInv, [KNext]_(kvars) PROVE KInv'
  OBVIOUS
<1>1. CASE MapLoop
  BY <1>1, OneOfTheLoops, Loop1, Loop2, Loop3, Loop4, Loop5, Loop6, Loop7, Loop8
<1>2. CASE enable_paging
  BY <1>2, EnableKInv
<1>3. CASE MapFdBuffer
  BY <1>3, FdKInv
<1>4. CASE \E v \in HeapPages : MapHeap(v)
  BY <1>4, HeapKInv
<1>5. CASE UNCHANGED kvars
  BY <1>5 DEF kvars, KInv, Counted, Moved, Identity, Unmapped, MapsTo, Free, CopiedTo
<1> QED
  BY <1>1, <1>2, <1>3, <1>4, <1>5 DEF KNext

\* The entries of the frame table that pmalloc_4k() reads are in pages 2305 to 2560
\* as long as no more than MostCuts heap pages are cut.
LEMMA GivenMost ==
  ASSUME Counted, MaxCuts <= MostCuts
  PROVE  handed \in Nat /\ handed <= 87380
<1>1. cuts \in Nat /\ MaxCuts \in Nat /\ cuts <= MaxCuts
  BY GivenNat DEF Counted
<1>2. handed = 0 \/ handed = 1024 \/ handed = 9216 \/ handed = 9218 + cuts
  BY DEF Counted
<1> QED
  BY <1>1, <1>2 DEF MostCuts

LEMMA Scanned ==
  ASSUME NEW n \in Nat, n <= 87380,
         NEW a \in Pg(PMALLOC_MAN_ADDR_V) ..
                   Pg(PMALLOC_MAN_ADDR_V + (n * P_MEM_PAGE_size) + 11)
  PROVE  a \in Int /\ 2305 <= a /\ a <= 2560
<1>1. Pg(PMALLOC_MAN_ADDR_V) = 2305
  BY MapNumbers DEF AreaPages
<1>2. Pg(PMALLOC_MAN_ADDR_V + (n * P_MEM_PAGE_size) + 11) <= 2560
  <2>1. (9441280 + n * 12 + 11) \div 4096 <= 2560
    OBVIOUS
  <2> QED
    BY <2>1 DEF Pg, MEM_PAGE_SIZE, PMALLOC_MAN_ADDR_V, P_MEM_PAGE_size
<1>3. Pg(PMALLOC_MAN_ADDR_V + (n * P_MEM_PAGE_size) + 11) \in Int
  BY DEF Pg, MEM_PAGE_SIZE, PMALLOC_MAN_ADDR_V, P_MEM_PAGE_size
<1> QED
  BY <1>1, <1>2, <1>3

LEMMA EntryOf ==
  ASSUME NEW lo \in Nat, NEW hi \in Nat, NEW f \in Int, MapsTo(lo, hi, f),
         NEW a \in Int, lo <= a, a <= hi
  PROVE  entry[a] = f + (a - lo)
BY DEF MapsTo

LEMMA Reach ==
  ASSUME MaxCuts <= MostCuts, KInv
  PROVE  KernelReachable
<1> SUFFICES ASSUME paging
             PROVE  /\ \A k \in ImagePage : entry[Pg(KERNEL_ADDR) + k] = image[k]
                    /\ entry[Pg(KERNEL_STACK_V - 4)] = live_stack
                    /\ \A v \in KPage : v % 1024 = 0 => Stores(v)
                    /\ \A a \in ScanPages : entry[a] = a
                    /\ entry[Pg(GDT_IDT_HEAD_ADDR)] = Pg(GDT_IDT_HEAD_ADDR)
  BY DEF KernelReachable
<1>1. /\ Pg(KERNEL_ADDR) = 256 /\ Pg(KERNEL_STACK_V - 4) = 12287
      /\ Pg(KERNEL_PDT) = 1280 /\ Pg(KERNEL_PT0) = 1281 /\ Pg(GDT_IDT_HEAD_ADDR) = 3840
  BY MapNumbers DEF AreaPages
<1>2. /\ MapsTo(256, 1279, 4096) /\ CopiedTo(4096) /\ live_stack = 13311
      /\ MapsTo(4096, 12287, 5120) /\ MapsTo(2305, 2560, 2305) /\ MapsTo(3840, 3840, 3840)
      /\ MapsTo(1280, 1280, 1280) /\ MapsTo(1280, 2303, 1280) /\ Counted
  <2>1. loop \in Nat /\ loop >= 8
    BY DEF KInv, Counted, Moved
  <2> QED
    BY <2>1 DEF KInv, Moved, Identity
<1>3. ASSUME NEW k \in ImagePage PROVE entry[256 + k] = image[k]
  <2>1. k \in Int /\ 0 <= k /\ k <= 1023
    BY InImage
  <2>2. entry[256 + k] = 4096 + ((256 + k) - 256)
    BY <1>2, <2>1, EntryOf
  <2>3. image[k] = 4096 + k
    BY <1>2 DEF CopiedTo
  <2> QED
    BY <2>1, <2>2, <2>3
<1>4. entry[12287] = live_stack
  <2>1. entry[12287] = 5120 + (12287 - 4096)
    BY <1>2, EntryOf
  <2> QED
    BY <1>2, <2>1
<1>5. ASSUME NEW v \in KPage PROVE Stores(v)
  <2>1. v \in Int /\ 0 <= v /\ v <= 16383
    BY InPage
  <2> DEFINE t == v \div 1024
  <2>2. t \in Int /\ 0 <= t /\ t <= 15
    BY <2>1
  <2> HIDE DEF t
  <2>3. entry[1281 + t] = 1280 + ((1281 + t) - 1280)
    BY <1>2, <2>2, EntryOf
  <2>4. TableOf(v) = 1281 + t
    BY <1>1 DEF TableOf, t
  <2>5. entry[1280] = 1280 + (1280 - 1280)
    BY <1>2, EntryOf
  <2> QED
    BY <1>1, <2>2, <2>3, <2>4, <2>5 DEF Stores, Translated
<1>6. ASSUME NEW a \in ScanPages PROVE entry[a] = a
  <2>1. a \in Int /\ 2305 <= a /\ a <= 2560
    BY <1>2, GivenMost, Scanned DEF ScanPages
  <2>2. entry[a] = 2305 + (a - 2305)
    BY <1>2, <2>1, EntryOf
  <2> QED
    BY <2>1, <2>2
<1>7. entry[3840] = 3840
  <2>1. entry[3840] = 3840 + (3840 - 3840)
    BY <1>2, EntryOf
  <2> QED
    BY <2>1
<1> QED
  BY <1>1, <1>3, <1>4, <1>5, <1>6, <1>7

(***************************************************************************)
(* With paging on, the kernel finds its code, its stack, the page tables,  *)
(* the entries of the frame table it scans, and the GDT and IDT, as long   *)
(* as the heap cuts at most MostCuts pages (init_kernel_mem,               *)
(* enable_paging, map_memory_4k, pmalloc_4k_page).                         *)
(***************************************************************************)
THEOREM KernelFound ==
  ASSUME MaxCuts <= MostCuts
  PROVE  KSpec => []KernelReachable
<1>1. KInit => KInv
  BY InitKInv
<1>2. KInv /\ [KNext]_(kvars) => KInv'
  BY NextKInv
<1>3. KInv => KernelReachable
  BY Reach
<1> QED
  BY <1>1, <1>2, <1>3, PTL DEF KSpec

\* The kernel's own memory is below frame 4096.
LEMMA OwnLow ==
  ASSUME NEW area \in Own, NEW a \in area
  PROVE  a \in Int /\ a <= 4095
<1>0. \/ area = Area(0, KERNEL_ADDR)
      \/ area = Area(KERNEL_ADDR, KERNEL_SIZE)
      \/ area = Area(KERNEL_PDT, 4096)
      \/ area = Area(KERNEL_PT0, KERNEL_PT_SIZE)
      \/ area = Area(PMALLOC_MAN_ADDR_P, P_MEMMAN_size)
      \/ area = Area(GDT_IDT_HEAD_ADDR, 4096)
  BY DEF Own
<1> USE DEF Area, Pg, mem_npage, roundup, MEM_PAGE_SIZE, KERNEL_ADDR,
            KERNEL_SIZE, KERNEL_PDT, KERNEL_PT0, KERNEL_PT_SIZE,
            PMALLOC_MAN_ADDR_P, P_MEMMAN_size, P_MEM_PAGE_size, GDT_IDT_HEAD_ADDR
<1>1. CASE area = Area(0, KERNEL_ADDR)
  BY <1>1
<1>2. CASE area = Area(KERNEL_ADDR, KERNEL_SIZE)
  BY <1>2
<1>3. CASE area = Area(KERNEL_PDT, 4096)
  BY <1>3
<1>4. CASE area = Area(KERNEL_PT0, KERNEL_PT_SIZE)
  BY <1>4
<1>5. CASE area = Area(PMALLOC_MAN_ADDR_P, P_MEMMAN_size)
  BY <1>5
<1>6. CASE area = Area(GDT_IDT_HEAD_ADDR, 4096)
  BY <1>6
<1> QED
  BY ONLY <1>0, <1>1, <1>2, <1>3, <1>4, <1>5, <1>6

\* What MapKept asks of the step for page v.
KeptAt(v) ==
  entry'[v] # entry[v] =>
    /\ entry[v] = Absent \/ v \in HeapArea \/ v \in TableEnd \ ScanPages'
    /\ handed' # handed => \A area \in Own : entry'[v] \notin area

LEMMA HighFrame ==
  ASSUME NEW v, entry'[v] \in Int, entry'[v] >= 4096
  PROVE  \A area \in Own : entry'[v] \notin area
<1> SUFFICES ASSUME NEW area \in Own, entry'[v] \in area PROVE FALSE
  OBVIOUS
<1>1. entry'[v] <= 4095
  BY OwnLow
<1> QED
  BY <1>1

LEMMA BeyondScan ==
  ASSUME MaxCuts <= MostCuts, KInv, handed' = handed \/ handed' = 9218,
         NEW v \in Int, 2561 <= v, v <= 3839
  PROVE  v \in TableEnd \ ScanPages'
<1>1. handed' \in Nat /\ handed' <= 87380
  BY GivenMost DEF KInv
<1>2. PICK n \in Nat : n = handed' /\ n <= 87380
  BY <1>1
<1>3. v \notin Pg(PMALLOC_MAN_ADDR_V) ..
                Pg(PMALLOC_MAN_ADDR_V + (n * P_MEM_PAGE_size) + 11)
  BY <1>2, Scanned
<1>4. v \notin ScanPages'
  BY <1>2, <1>3 DEF ScanPages
<1>5. v \in TableEnd
  <2>1. Pg(PMALLOC_MAN_ADDR_V) = 2305 /\ Pg(GDT_IDT_HEAD_ADDR) = 3840
    BY MapNumbers DEF AreaPages
  <2> QED
    BY <2>1 DEF TableEnd
<1> QED
  BY <1>4, <1>5

LEMMA Outside ==
  ASSUME NEW v \in Int, NEW n \in Nat, NEW g \in Int, Laid(v, n, g), NEW w \in KPage
  PROVE  /\ w < v \/ w >= v + n => entry'[w] = entry[w]
         /\ v <= w /\ w < v + n => entry'[w] = g + (w - v)
BY DEF Laid

\* The pages of a loop.
LEMMA LoopPages ==
  ASSUME KInv, NEW l \in Nat, 1 <= l, l <= 8,
         NEW at \in Nat, NEW n \in Nat, NEW to \in Int,
         Loops[l] = [at |-> at, n |-> n, to |-> to], loop = l, NEW v \in MayMap
  PROVE  v \in Int /\ at <= v /\ v < at + n
<1>1. loop <= Len(Loops) /\ Loops[loop].at = at /\ Loops[loop].n = n
  BY MapLoops
<1>2. MayMap = at .. at + n - 1
  BY <1>1 DEF MayMap
<1> QED
  BY <1>2

LEMMA LoopKept ==
  ASSUME MaxCuts <= MostCuts, KInv, MapLoop, NEW v \in MayMap
  PROVE  KeptAt(v)
<1>1. CASE LoopIs(1, 256, 1024, 4096)
  <2>1. loop = 1 /\ Laid(256, 1024, 4096)
    BY <1>1 DEF LoopIs
  <2>2. v \in Int /\ 256 <= v /\ v < 256 + 1024
    BY <2>1, MapLoops, LoopPages DEF Fresh
  <2>3. v \in KPage
    BY <2>2, InPage
  <2>4. entry'[v] = 4096 + (v - 256)
    BY <2>1, <2>2, <2>3, Outside
  <2>5. \A area \in Own : entry'[v] \notin area
    BY <2>2, <2>4, HighFrame
  <2>6. entry[v] = Absent
    BY <2>1, <2>2 DEF KInv, Unmapped, Free
  <2> QED
    BY <2>5, <2>6 DEF KeptAt
<1>2. CASE LoopIs(2, 0, 16, 160)
  <2>1. loop = 2 /\ Laid(0, 16, 160)
    BY <1>2 DEF LoopIs
  <2>2. v \in Int /\ 0 <= v /\ v < 0 + 16
    BY <2>1, MapLoops, LoopPages DEF Fresh
  <2>3. v \in KPage
    BY <2>2, InPage
  <2>4. entry'[v] = 160 + (v - 0)
    BY <2>1, <2>2, <2>3, Outside
  <2>5. handed' = handed
    BY <1>2 DEF LoopIs
  <2>6. entry[v] = Absent
    BY <2>1, <2>2 DEF KInv, Unmapped, Free
  <2> QED
    BY <2>5, <2>6 DEF KeptAt
<1>3. CASE LoopIs(3, 2305, 1537, 2305)
  <2>1. loop = 3 /\ Laid(2305, 1537, 2305)
    BY <1>3 DEF LoopIs
  <2>2. v \in Int /\ 2305 <= v /\ v < 2305 + 1537
    BY <2>1, MapLoops, LoopPages DEF Fresh
  <2>3. v \in KPage
    BY <2>2, InPage
  <2>4. entry'[v] = 2305 + (v - 2305)
    BY <2>1, <2>2, <2>3, Outside
  <2>5. handed' = handed
    BY <1>3 DEF LoopIs
  <2>6. entry[v] = Absent
    BY <2>1, <2>2 DEF KInv, Unmapped, Free
  <2> QED
    BY <2>5, <2>6 DEF KeptAt
<1>4. CASE LoopIs(4, 1280, 1, 1280)
  <2>1. loop = 4 /\ Laid(1280, 1, 1280)
    BY <1>4 DEF LoopIs
  <2>2. v \in Int /\ 1280 <= v /\ v < 1280 + 1
    BY <2>1, MapLoops, LoopPages DEF Fresh
  <2>3. v \in KPage
    BY <2>2, InPage
  <2>4. entry'[v] = 1280 + (v - 1280)
    BY <2>1, <2>2, <2>3, Outside
  <2>5. handed' = handed
    BY <1>4 DEF LoopIs
  <2>6. entry[v] = Absent
    BY <2>1, <2>2 DEF KInv, Unmapped, Free
  <2> QED
    BY <2>5, <2>6 DEF KeptAt
<1>5. CASE LoopIs(5, 1280, 1024, 1280)
  <2>1. loop = 5 /\ Laid(1280, 1024, 1280)
    BY <1>5 DEF LoopIs
  <2>2. v \in Int /\ 1280 <= v /\ v < 1280 + 1024
    BY <2>1, MapLoops, LoopPages DEF Fresh
  <2>3. v \in KPage
    BY <2>2, InPage
  <2>4. entry'[v] = 1280 + (v - 1280)
    BY <2>1, <2>2, <2>3, Outside
  <2>5. handed' = handed
    BY <1>5 DEF LoopIs
  <2>6. CASE v = 1280
    <3>1. entry[v] = 1280 + (v - 1280)
      BY <2>1, <2>6 DEF KInv, Identity, MapsTo
    <3> QED
      BY <2>4, <3>1 DEF KeptAt
  <2>7. CASE v # 1280
    <3>1. entry[v] = Absent
      BY <2>1, <2>2, <2>7 DEF KInv, Unmapped, Free
    <3> QED
      BY <2>5, <3>1 DEF KeptAt
  <2> QED
    BY <2>6, <2>7
<1>6. CASE LoopIs(6, 3840, 1, 3840)
  <2>1. loop = 6 /\ Laid(3840, 1, 3840)
    BY <1>6 DEF LoopIs
  <2>2. v \in Int /\ 3840 <= v /\ v < 3840 + 1
    BY <2>1, MapLoops, LoopPages DEF Fresh
  <2>3. v \in KPage
    BY <2>2, InPage
  <2>4. entry'[v] = 3840 + (v - 3840)
    BY <2>1, <2>2, <2>3, Outside
  <2>6. entry[v] = 3840 + (v - 3840)
    BY <2>1, <2>2 DEF KInv, Identity, MapsTo
  <2> QED
    BY <2>4, <2>6 DEF KeptAt
<1>7. CASE LoopIs(7, 4096, 8192, 5120)
  <2>1. loop = 7 /\ Laid(4096, 8192, 5120)
    BY <1>7 DEF LoopIs
  <2>2. v \in Int /\ 4096 <= v /\ v < 4096 + 8192
    BY <2>1, MapLoops, LoopPages DEF Fresh
  <2>3. v \in KPage
    BY <2>2, InPage
  <2>4. entry'[v] = 5120 + (v - 4096)
    BY <2>1, <2>2, <2>3, Outside
  <2>5. \A area \in Own : entry'[v] \notin area
    BY <2>2, <2>4, HighFrame
  <2>6. entry[v] = Absent
    BY <2>1, <2>2 DEF KInv, Unmapped, Free
  <2> QED
    BY <2>5, <2>6 DEF KeptAt
<1>8. CASE LoopIs(8, 2561, 2, 13312)
  <2>1. loop = 8 /\ Laid(2561, 2, 13312)
    BY <1>8 DEF LoopIs
  <2>2. v \in Int /\ 2561 <= v /\ v < 2561 + 2
    BY <2>1, MapLoops, LoopPages DEF Fresh
  <2>3. v \in KPage
    BY <2>2, InPage
  <2>4. entry'[v] = 13312 + (v - 2561)
    BY <2>1, <2>2, <2>3, Outside
  <2>5. \A area \in Own : entry'[v] \notin area
    BY <2>2, <2>4, HighFrame
  <2>6. handed' = 9218
    BY <1>8 DEF LoopIs, KInv, Counted
  <2>7. v \in TableEnd \ ScanPages'
    BY <2>2, <2>6, BeyondScan
  <2> QED
    BY <2>5, <2>7 DEF KeptAt
<1> QED
  BY OneOfTheLoops, <1>1, <1>2, <1>3, <1>4, <1>5, <1>6, <1>7, <1>8

\* The pages that a step after the boot maps.
LEMMA LatePages ==
  ASSUME loop = 9, NEW v \in MayMap
  PROVE  \/ v \in HeapPages /\ v \in HeapArea /\ v \in KPage /\ v >= 12288
         \/ v = 2817 /\ v \in KPage
<1>1. Pg(FD_BUFFER_V) = 2817
  BY MapNumbers DEF AreaPages
<1>2. v \in HeapPages \/ v = 2817
  BY <1>1, LoopCount DEF MayMap
<1>3. HeapPages \subseteq HeapArea
  BY MapAssumption
<1> QED
  BY <1>2, <1>3, InHeap, InPage

LEMMA FdKept ==
  ASSUME MaxCuts <= MostCuts, KInv, MapFdBuffer, NEW v \in MayMap
  PROVE  KeptAt(v)
<1>1. Laid(2817, 1, 0) /\ handed' = handed /\ loop = 9
  BY FdKInv
<1>2. CASE v \in KPage /\ v >= 12288
  <2>1. v \in Int
    BY <1>2, InPage
  <2>2. entry'[v] = entry[v]
    BY <1>1, <1>2, <2>1, Outside
  <2> QED
    BY <2>2 DEF KeptAt
<1>3. CASE v = 2817
  <2>1. v \in TableEnd \ ScanPages'
    BY <1>1, <1>3, BeyondScan
  <2> QED
    BY <1>1, <2>1 DEF KeptAt
<1> QED
  BY <1>1, <1>2, <1>3, LatePages

LEMMA HeapKept ==
  ASSUME MaxCuts <= MostCuts, KInv,
         NEW u \in HeapPages, MapHeap(u), NEW v \in MayMap
  PROVE  KeptAt(v)
<1>1. Laid(u, 1, 4096 + handed) /\ handed \in Nat /\ loop = 9
  BY HeapKInv
<1>2. u \in Int /\ u >= 12288
  BY InHeap, MapAssumption
<1>3. v \in KPage /\ v \in Int
  BY <1>1, LatePages, InPage
<1>4. CASE v = u
  <2>1. v \in HeapArea
    BY <1>4, MapAssumption
  <2>2. entry'[v] = (4096 + handed) + (v - u)
    BY <1>1, <1>2, <1>3, <1>4, Outside
  <2>3. \A area \in Own : entry'[v] \notin area
    BY <1>1, <1>2, <1>4, <2>2, HighFrame
  <2> QED
    BY <2>1, <2>3 DEF KeptAt
<1>5. CASE v # u
  <2>1. entry'[v] = entry[v]
    BY <1>1, <1>2, <1>3, <1>5, Outside
  <2> QED
    BY <2>1 DEF KeptAt
<1> QED
  BY <1>4, <1>5

(***************************************************************************)
(* A mapping is replaced only in the heap or where the frame table is not  *)
(* read, and never by a frame the kernel uses itself (map_memory_4k).      *)
(***************************************************************************)
THEOREM MapStays ==
  ASSUME MaxCuts <= MostCuts
  PROVE  KSpec => MapKept
<1>1. KInit => KInv
  BY InitKInv
<1>2. KInv /\ [KNext]_(kvars) => KInv'
  BY NextKInv
<1>3. KInv /\ [KNext]_(kvars) => [\A v \in MayMap : KeptAt(v)]_(kvars)
  <2> SUFFICES ASSUME KInv, KNext, NEW v \in MayMap PROVE KeptAt(v)
    OBVIOUS
  <2>1. CASE MapLoop
    BY <2>1, LoopKept
  <2>2. CASE enable_paging
    BY <2>2 DEF enable_paging, KeptAt
  <2>3. CASE MapFdBuffer
    BY <2>3, FdKept
  <2>4. CASE \E u \in HeapPages : MapHeap(u)
    BY <2>4, HeapKept
  <2> QED
    BY <2>1, <2>2, <2>3, <2>4 DEF KNext
<1> QED
  BY <1>1, <1>2, <1>3, PTL DEF KSpec, MapKept, KeptAt

\* Past MostCuts the scan would read the heap's table of blocks.
KEnd == loop = 9 => paging /\ MapsTo(2561, 2562, 13312)

LEMMA NextKEnd ==
  ASSUME KInv, KEnd, [KNext]_(kvars)
  PROVE  KEnd'
<1>1. CASE MapLoop
  <2>1. CASE LoopIs(8, 2561, 2, 13312)
    <3>1. Laid(2561, 2, 13312) /\ paging'
      BY <2>1 DEF LoopIs
    <3>2. MapsTo(2561, 2562, 13312 + (2561 - 2561))'
      BY <3>1, Puts
    <3>3. 13312 + (2561 - 2561) = 13312
      OBVIOUS
    <3> QED
      BY <3>1, <3>2, <3>3 DEF KEnd
  <2>2. CASE loop' # 9
    BY <2>2 DEF KEnd
  <2> QED
    BY <1>1, <2>1, <2>2, OneOfTheLoops DEF LoopIs
<1>2. CASE enable_paging
  BY <1>2 DEF enable_paging, VMALLOCMAN, KEnd
<1>3. CASE MapFdBuffer
  <2>1. Laid(2817, 1, 0) /\ loop = 9 /\ paging' = paging
    BY <1>3, FdKInv DEF MapFdBuffer
  <2> QED
    BY <2>1, Keeps DEF KEnd
<1>4. CASE \E v \in HeapPages : MapHeap(v)
  <2>1. PICK v \in HeapPages : MapHeap(v)
    BY <1>4
  <2>2. Laid(v, 1, 4096 + handed) /\ handed \in Nat /\ loop = 9 /\ paging' = paging
    BY <2>1, HeapKInv DEF MapHeap
  <2>3. v \in Int /\ v >= 12288
    BY InHeap, MapAssumption
  <2> QED
    BY <2>2, <2>3, Keeps DEF KEnd
<1>5. CASE UNCHANGED kvars
  BY <1>5 DEF kvars, KEnd, MapsTo
<1> QED
  BY <1>1, <1>2, <1>3, <1>4, <1>5 DEF KNext

LEMMA TooFar ==
  ASSUME KInv, KEnd, cuts > MostCuts
  PROVE  ~KernelReachable
<1>1. loop = 9 /\ handed \in Nat /\ handed > 87380 /\ paging /\ MapsTo(2561, 2562, 13312)
  <2>1. loop = 9 /\ cuts \in Nat /\ handed = 9218 + cuts
    BY GivenNat DEF KInv, Counted, MostCuts
  <2> QED
    BY <2>1 DEF KEnd, MostCuts
<1>2. entry[2561] = 13312 + (2561 - 2561)
  BY <1>1, EntryOf
<1>3. 2561 \in ScanPages
  <2>1. Pg(PMALLOC_MAN_ADDR_V) = 2305
    BY MapNumbers DEF AreaPages
  <2>2. (9441280 + handed * 12 + 11) \div 4096 >= 2561
    BY <1>1
  <2>3. Pg(PMALLOC_MAN_ADDR_V + (handed * P_MEM_PAGE_size) + 11) >= 2561
    BY <2>2 DEF Pg, MEM_PAGE_SIZE, PMALLOC_MAN_ADDR_V, P_MEM_PAGE_size
  <2>4. Pg(PMALLOC_MAN_ADDR_V + (handed * P_MEM_PAGE_size) + 11) \in Int
    BY <1>1 DEF Pg, MEM_PAGE_SIZE, PMALLOC_MAN_ADDR_V, P_MEM_PAGE_size
  <2> QED
    BY <2>1, <2>3, <2>4 DEF ScanPages
<1> QED
  BY <1>1, <1>2, <1>3 DEF KernelReachable

(***************************************************************************)
(* MostCuts is the exact limit: one page more, and pmalloc_4k_page() reads *)
(* the heap's table of blocks as if it were the rest of its own.           *)
(***************************************************************************)
THEOREM LimitIsExact ==
  KSpec => [](cuts > MostCuts => ~KernelReachable)
<1> DEFINE Inv == KInv /\ KEnd
<1>1. KInit => Inv
  BY InitKInv DEF KEnd, KInit
<1>2. Inv /\ [KNext]_(kvars) => Inv'
  BY NextKInv, NextKEnd
<1>3. Inv => (cuts > MostCuts => ~KernelReachable)
  BY TooFar
<1> QED
  BY <1>1, <1>2, <1>3, PTL DEF KSpec
=============================================================================
