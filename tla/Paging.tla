------------------------------- MODULE Paging -------------------------------
(***************************************************************************)
(* The frames under the kernel heap: pmalloc_4k_page() and map_memory_4k() *)
(* of kernel/mem.c, composed with Vmalloc, which calls them for each page  *)
(* of a block it cuts.                                                     *)
(*                                                                         *)
(* The kernel never returns a frame, never removes a mapping and never     *)
(* tells the CPU that one changed: cached translations (the TLB) live      *)
(* until the CPU evicts them.  So the model has three layers: the heap's   *)
(* blocks, the page table, and the translations the CPU really uses.       *)
(***************************************************************************)
EXTENDS Vmalloc, FiniteSets

CONSTANT PMALLOC_MAX_PAGE    \* entries of P_MEMMAN.tbl[]

ASSUME FrameAssumption == PMALLOC_MAX_PAGE \in Nat

Page    == 0 .. Extent - 1
Frame   == 0 .. PMALLOC_MAX_PAGE - 1
NoFrame == PMALLOC_MAX_PAGE
Nobody  == "nobody"

VARIABLES
  flags,   \* the frames whose tbl[].flags is 1
  pte,     \* the page table's entry of each heap page
  tlb,     \* the translation the CPU has cached, if any
  mem,     \* who wrote the frame last
  wrote,   \* history: the holder of the page, once it has written to it
  exhausted, \* history: did pmalloc_4k_page() ever return NULL?
  stale    \* history: pages whose entry was replaced while the CPU had
           \* cached the old one

frames == <<flags, pte, tlb, mem, wrote, exhausted, stale>>
pvars  == <<vars, frames>>

\* init_pmalloc() and init_pt(); the kernel's own frames are left out.
PInit ==
  /\ Init
  /\ flags = {}
  /\ pte = [x \in Page |-> NoFrame]
  /\ tlb = [x \in Page |-> NoFrame]
  /\ mem = [f \in Frame |-> Nobody]
  /\ wrote = [x \in Page |-> Nobody]
  /\ exhausted = FALSE
  /\ stale = {}

-----------------------------------------------------------------------------
\* pmalloc_4k_page() while the frames in busy are taken: the first whose flag
\* is 0, or NULL.
GivesPage(f, busy) ==
  \/ f \in Frame \ busy /\ \A h \in 0 .. f - 1 : h \in busy
  \/ f = NoFrame /\ Frame \subseteq busy

\* Called for each page of the block at a, of n pages, it gives the frames m.
PageByPage(m, a, n) ==
  \A x \in Pages(a, n) : GivesPage(m[x], flags \cup {m[y] : y \in a .. x - 1})

NowTakenNot(m, a, n) == flags                                      \* mutant
NowTaken(m, a, n) == flags \cup ({m[x] : x \in Pages(a, n)} \ {NoFrame})

\* map_memory_4k() for each page of the block at a.  When the frames ran out,
\* the address is read through NULL: g, whatever lies there.
MappingFromStart(m, a, n, g) ==                                    \* mutant
  [x \in Page |-> IF x \notin Pages(0, n) THEN pte[x]
                  ELSE IF m[x + a] = NoFrame THEN g
                  ELSE m[x + a]]
MappingFirst(m, a, n, g) ==                                        \* mutant
  [x \in Page |-> IF x \notin Pages(a, n) THEN pte[x]
                  ELSE IF m[a] = NoFrame THEN g
                  ELSE m[a]]
Mapping(m, a, n, g) ==
  [x \in Page |-> IF x \notin Pages(a, n) THEN pte[x]
                  ELSE IF m[x] = NoFrame THEN g
                  ELSE m[x]]

\* A block that was just handed out has not been written to by its holder.
Unwritten ==
  [x \in Page |-> IF \E t \in Task : /\ given'[t] # given[t]
                                     /\ x \in Pages(given'[t].addr, given'[t].size)
                  THEN Nobody ELSE wrote[x]]

\* vmalloc() cuts a block and maps its pages.  One step, because calls do not
\* overlap (Preempt = FALSE): otherwise a task could be preempted between the
\* test and the set of a frame's flag, or between two pages.
SplitAndMap(t, b, m, g) ==
  LET a == addr[cur[t]]
      n == arg[t]
  IN
  /\ Split(t, b)
  /\ PageByPage(m, a, n)
  /\ flags' = NowTaken(m, a, n)
  /\ pte' = Mapping(m, a, n, g)
  /\ exhausted' = (exhausted \/ \E x \in Pages(a, n) : m[x] = NoFrame)
  /\ stale' = stale \cup {x \in Page : x \in Pages(a, n) /\ tlb[x] # NoFrame}
  /\ wrote' = Unwritten
  /\ UNCHANGED <<tlb, mem>>

\* Every other step of the heap leaves the page table alone.
HeapStep(t) ==
  /\ \/ \E n \in Sizes : Call(t, n)
     \/ \E a \in {given[t].addr, Inside} : CallFree(t, a)
     \/ Walk(t) \/ TakeExact(t) \/ Retry(t)
     \/ vfree(t)
  /\ wrote' = Unwritten
  /\ UNCHANGED <<flags, pte, tlb, mem, exhausted, stale>>

-----------------------------------------------------------------------------
\* The frame an access to page x reaches.
Reaches(x) == IF tlb[x] # NoFrame THEN tlb[x] ELSE pte[x]

\* The CPU: a task that is not kept out by another's call writes to a page
\* of its block,
Write(t, x) ==
  /\ MayEnter(t)
  /\ x \in Pages(given[t].addr, given[t].size)
  /\ Reaches(x) # NoFrame
  /\ mem' = [mem EXCEPT ![Reaches(x)] = t]
  /\ tlb' = [tlb EXCEPT ![x] = Reaches(x)]
  /\ wrote' = [wrote EXCEPT ![x] = t]
  /\ UNCHANGED <<vars, flags, pte, exhausted, stale>>

\* or a translation is evicted.
Evict(x) ==
  /\ tlb[x] # NoFrame
  /\ tlb' = [tlb EXCEPT ![x] = NoFrame]
  /\ UNCHANGED <<vars, flags, pte, mem, wrote, exhausted, stale>>

-----------------------------------------------------------------------------
PNext ==
  \/ \E t \in Task : \/ HeapStep(t)
                     \/ /\ pc[t] = "take"
                        /\ \E b \in Link, g \in Frame :
                             \E m \in [Pages(addr[cur[t]], arg[t]) -> Frame \cup {NoFrame}] :
                               SplitAndMap(t, b, m, g)
                     \/ \E x \in Page : Write(t, x)
  \/ \E x \in Page : Evict(x)

PSpec == PInit /\ [][PNext]_pvars

-----------------------------------------------------------------------------
PTypeOK ==
  /\ flags \subseteq Frame
  /\ pte \in [Page -> Frame \cup {NoFrame}]
  /\ tlb \in [Page -> Frame \cup {NoFrame}]
  /\ mem \in [Frame -> Task \cup {Nobody}]
  /\ wrote \in [Page -> Task \cup {Nobody}]
  /\ exhausted \in BOOLEAN
  /\ stale \subseteq Page

\* The frames an access to x may reach, now or after an eviction.
Targets(x) == {pte[x], tlb[x]} \ {NoFrame}

(***************************************************************************)
(* No two pages of the heap ever share a frame, not even through a         *)
(* translation that is out of date, as long as there are frames: the       *)
(* kernel gives none back, so an old one is never handed out again.        *)
(***************************************************************************)
Exclusive ==
  ~exhausted => \A x, y \in Page : x # y => Targets(x) \cap Targets(y) = {}

(***************************************************************************)
(* The page table entry of a page does not change while a task holds it:   *)
(* what a task finds mapped when it gets a block stays mapped (kvmalloc's  *)
(* callers keep stacks and queues there).                                  *)
(***************************************************************************)
HeldBy(x) == {t \in Task : x \in Pages(given[t].addr, given[t].size)}

HeldKeepsFrame ==
  [][Intact' => \A x \in Page : HeldBy(x) \cap HeldBy(x)' # {} => pte'[x] = pte[x]]_pvars

(***************************************************************************)
(* A task reads back what it wrote, whether or not the translation it      *)
(* wrote through is still cached, on every page that was never mapped anew *)
(* while the CPU had the old translation: no other page's frame gets in    *)
(* between (ktask_init lays out memory that the CPU pops much later).  On  *)
(* a page that was, map_memory_4k invalidates nothing and it may not.      *)
(***************************************************************************)
CoherentAt(x) == wrote[x] # Nobody => mem[pte[x]] = wrote[x]

CoherentUntilStale == ~exhausted => \A x \in Page \ stale : CoherentAt(x)
=============================================================================
