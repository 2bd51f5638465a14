------------------------------ MODULE Vmalloc ------------------------------
(***************************************************************************)
(* The kernel heap (vmalloc and vfree of kernel/mem.c): a doubly linked    *)
(* list of blocks that tiles the virtual extent, kept in a table of        *)
(* VMEM_MAX_UNITS entries.  Addresses and sizes are counted in pages, as   *)
(* vmalloc rounds every size up to MEM_PAGE_SIZE.                          *)
(*                                                                         *)
(* Each task holds at most one block at a time.  A call is a walk along    *)
(* the list, one step per block, then one step that updates the list.  The *)
(* callers that run inside io_cli() complete a call before another task    *)
(* runs; q8_make, q8_free and task_fdc call the heap with interrupts on.   *)
(***************************************************************************)
EXTENDS Naturals

CONSTANTS
  VMEM_MAX_UNITS,  \* entries of memman->blocks[]
  Extent,          \* pages between extent_start and extent_end
  Task,            \* the callers
  Sizes,           \* the sizes, in pages, they ask for
  Preempt          \* can a task be preempted inside a call?

ASSUME HeapAssumption ==
  /\ VMEM_MAX_UNITS \in Nat \ {0}
  /\ Extent \in Nat
  /\ Sizes \subseteq Nat \ {0}
  /\ Preempt \in BOOLEAN

Unit  == 0 .. VMEM_MAX_UNITS - 1
Null  == VMEM_MAX_UNITS
Entry == 0                       \* memman->entry
Link  == Unit \cup {Null}
Block == [addr : Nat, size : Nat]
None  == [addr |-> 0, size |-> 0]   \* a task that holds no block

VARIABLES
  use, alloc,  \* the two flag bits of blocks[b]
  addr, size, next, prev,
  mapped,      \* pages that have a physical frame
  pc, cur,     \* of each task: where in the call it is, its pointer p
  arg,         \* of each task: the size it asked for or the address it frees
  given,       \* of each task: the block it holds
  leaked,      \* history: the blocks whose holder freed an interior address
  flaw         \* history: the steps at which the code damages its list

list == <<use, alloc, addr, size, next, prev>>
vars == <<list, mapped, pc, cur, arg, given, leaked, flaw>>

Pages(a, n) == a .. a + n - 1

\* init_vmalloc(): one free block, the whole extent.
Init ==
  /\ use   = [b \in Unit |-> b = Entry]
  /\ alloc = [b \in Unit |-> FALSE]
  /\ addr  = [b \in Unit |-> 0]
  /\ size  = [b \in Unit |-> IF b = Entry THEN Extent ELSE 0]
  /\ next  = [b \in Unit |-> Null]
  /\ prev  = [b \in Unit |-> Null]
  /\ mapped = {}
  /\ pc    = [t \in Task |-> "idle"]
  /\ cur   = [t \in Task |-> Null]
  /\ arg   = [t \in Task |-> 0]
  /\ given = [t \in Task |-> None]
  /\ leaked = {}
  /\ flaw  = {}

-----------------------------------------------------------------------------
MayEnter(t) == pc[t] = "idle" /\ (Preempt \/ \A u \in Task : pc[u] = "idle")

\* vmalloc(n) starts at the entry.
Call(t, n) ==
  /\ MayEnter(t)
  /\ given[t] = None
  /\ pc'  = [pc EXCEPT ![t] = "walk"]
  /\ cur' = [cur EXCEPT ![t] = Entry]
  /\ arg' = [arg EXCEPT ![t] = n]
  /\ UNCHANGED <<list, mapped, given, leaked, flaw>>

\* The while loop stops at a free block that is large enough, or at the end.
StopsIfLarge(t) == next[cur[t]] = Null \/ size[cur[t]] >= arg[t]  \* mutant
StopsIfFree(t) == next[cur[t]] = Null \/ ~alloc[cur[t]]           \* mutant
Stops(t) == \/ next[cur[t]] = Null
            \/ size[cur[t]] >= arg[t] /\ ~alloc[cur[t]]

Walk(t) ==
  /\ pc[t] = "walk"
  /\ \/ Stops(t)  /\ pc' = [pc EXCEPT ![t] = "take"] /\ UNCHANGED cur
     \/ ~Stops(t) /\ cur' = [cur EXCEPT ![t] = next[cur[t]]] /\ UNCHANGED pc
  /\ UNCHANGED <<list, mapped, arg, given, leaked, flaw>>

Return(t) ==
  /\ pc' = [pc EXCEPT ![t] = "idle"]
  /\ cur' = [cur EXCEPT ![t] = Null]
  /\ given' = [given EXCEPT ![t] = [addr |-> addr[cur[t]], size |-> arg[t]]]
  /\ arg' = [arg EXCEPT ![t] = 0]

\* A block in the middle fits exactly: it is handed out as it is.
TakeExact(t) ==
  LET p == cur[t] IN
  /\ pc[t] = "take"
  /\ next[p] # Null
  /\ size[p] = arg[t]
  /\ alloc' = [alloc EXCEPT ![p] = TRUE]
  /\ Return(t)
  /\ UNCHANGED <<use, addr, size, next, prev, mapped, leaked, flaw>>

\* get_new_block(): the first unused entry of the table, NULL if there is none.
IsNewBlock(b) ==
  \/ b \in Unit /\ ~use[b] /\ \A c \in 0 .. b - 1 : use[c]
  \/ b = Null /\ \A c \in Unit : use[c]

\* The pages that are mapped after map_memory_4k() was called for each page
\* of a block.
MapAllButLast(a, n) == mapped \cup Pages(a, n - 1)     \* mutant
MapPages(a, n) == mapped \cup Pages(a, n)

\* Block p is cut at the size asked for, b becomes the rest.  A write through
\* a NULL b goes to page 0 and changes nothing here.  The next block's prev is
\* left as it was.
Split(t, b) ==
  LET p == cur[t]
      n == arg[t]
  IN
  /\ pc[t] = "take"
  /\ IF next[p] = Null THEN size[p] >= n ELSE size[p] > n
  /\ IsNewBlock(b)
  /\ use'   = [use EXCEPT ![b] = TRUE]
  /\ alloc' = [alloc EXCEPT ![p] = TRUE]
  /\ next'  = [next EXCEPT ![b] = next[p], ![p] = b]
  /\ prev'  = [prev EXCEPT ![b] = p]
  /\ size'  = [size EXCEPT ![b] = size[p] - n, ![p] = n]
  /\ addr'  = [addr EXCEPT ![b] = addr[p] + n]
  /\ mapped' = MapPages(addr[p], n)
  /\ flaw' = flaw \cup (IF next[p] # Null THEN {"split"} ELSE {})
                  \cup (IF b = Null THEN {"table"} ELSE {})
  /\ Return(t)
  /\ UNCHANGED leaked

\* Nothing fits: vmalloc() calls itself, with nothing changed.
Retry(t) ==
  /\ pc[t] = "take"
  /\ size[cur[t]] < arg[t]
  /\ pc'  = [pc EXCEPT ![t] = "walk"]
  /\ cur' = [cur EXCEPT ![t] = Entry]
  /\ UNCHANGED <<list, mapped, arg, given, leaked, flaw>>

-----------------------------------------------------------------------------
\* An address inside a block, the start of no block.
Inside == Extent + 1

\* vfree(a) starts at the entry.  q8_free() passes the address of the buffer,
\* which lies behind the Queue8 at the start of the block.
CallFree(t, a) ==
  /\ MayEnter(t)
  /\ given[t] # None
  /\ pc'  = [pc EXCEPT ![t] = "find"]
  /\ cur' = [cur EXCEPT ![t] = Entry]
  /\ arg' = [arg EXCEPT ![t] = a]
  /\ UNCHANGED <<list, mapped, given, leaked, flaw>>

FoundAlloc(t) == alloc[cur[t]]                         \* mutant
Found(t) == addr[cur[t]] = arg[t] /\ alloc[cur[t]]

Find(t) ==
  /\ pc[t] = "find"
  /\ cur[t] # Null
  /\ \/ Found(t)  /\ pc' = [pc EXCEPT ![t] = "merge"] /\ UNCHANGED cur
     \/ ~Found(t) /\ cur' = [cur EXCEPT ![t] = next[cur[t]]] /\ UNCHANGED pc
  /\ UNCHANGED <<list, mapped, arg, given, leaked, flaw>>

\* No block has this address: vfree() returns.  The caller has dropped its
\* pointer, so its block stays allocated for ever: leaked, if the address it
\* passed was not the block's own.
NotFound(t) ==
  /\ pc[t] = "find"
  /\ cur[t] = Null
  /\ pc' = [pc EXCEPT ![t] = "idle"]
  /\ given' = [given EXCEPT ![t] = None]
  /\ arg' = [arg EXCEPT ![t] = 0]
  /\ leaked' = leaked \cup (IF arg[t] = Inside THEN {given[t]} ELSE {})
  /\ UNCHANGED <<list, mapped, cur, flaw>>

\* A neighbour the freed block is joined with.
JoinableUnused(q) == q # Null /\ ~use[q]               \* mutant
Joinable(q) == q # Null /\ ~alloc[q]

\* Block a takes over block b, which init_vmem_block() then clears.
AbsorbLinks(a, b) ==                                   \* mutant
  /\ next' = [next EXCEPT ![a] = next[b], ![b] = Null]
  /\ size' = [size EXCEPT ![b] = 0]
  /\ prev' = [prev EXCEPT ![next[b]] = a, ![b] = Null]
  /\ use'  = [use EXCEPT ![b] = FALSE]
  /\ UNCHANGED addr

Absorb(a, b) ==
  /\ next' = [next EXCEPT ![a] = next[b], ![b] = Null]
  /\ size' = [size EXCEPT ![a] = size[a] + size[b], ![b] = 0]
  /\ prev' = [prev EXCEPT ![next[b]] = a, ![b] = Null]
  /\ use'  = [use EXCEPT ![b] = FALSE]
  /\ UNCHANGED addr

\* The block is free again, and takes over the next one if that is free too.
MergeNext(t) ==
  LET p == cur[t]
      q == next[p]
  IN
  /\ pc[t] = "merge"
  /\ \/ /\ Joinable(q)
        /\ Absorb(p, q)
        /\ alloc' = [alloc EXCEPT ![p] = FALSE, ![q] = FALSE]
     \/ /\ ~Joinable(q)
        /\ alloc' = [alloc EXCEPT ![p] = FALSE]
        /\ UNCHANGED <<use, addr, size, next, prev>>
  /\ pc' = [pc EXCEPT ![t] = "back"]
  /\ given' = [given EXCEPT ![t] = None]
  /\ arg' = [arg EXCEPT ![t] = 0]
  /\ UNCHANGED <<mapped, cur, leaked, flaw>>

\* If the previous block is free, that one takes over the block.
MergePrev(t) ==
  LET p == cur[t]
      q == prev[p]
  IN
  /\ pc[t] = "back"
  /\ \/ /\ Joinable(q)
        /\ Absorb(q, p)
        /\ alloc' = [alloc EXCEPT ![p] = FALSE]
     \/ /\ ~Joinable(q)
        /\ UNCHANGED list
  /\ pc' = [pc EXCEPT ![t] = "idle"]
  /\ cur' = [cur EXCEPT ![t] = Null]
  /\ UNCHANGED <<mapped, arg, given, leaked, flaw>>

-----------------------------------------------------------------------------
\* The steps of a call that was made.
vmalloc(t) == Walk(t) \/ TakeExact(t) \/ (\E b \in Link : Split(t, b)) \/ Retry(t)
vfree(t)   == Find(t) \/ NotFound(t) \/ MergeNext(t) \/ MergePrev(t)

Next == \E t \in Task : \/ \E n \in Sizes : Call(t, n)
                        \/ \E a \in {given[t].addr, Inside} : CallFree(t, a)
                        \/ vmalloc(t)
                        \/ vfree(t)

Spec == Init /\ [][Next]_vars

\* A task inside a call is scheduled again and again.
FairSpec == Spec /\ \A t \in Task : WF_vars(vmalloc(t) \/ vfree(t))

-----------------------------------------------------------------------------
TypeOK ==
  /\ use \in [Unit -> BOOLEAN] /\ alloc \in [Unit -> BOOLEAN]
  /\ addr \in [Unit -> Nat] /\ size \in [Unit -> Nat]
  /\ next \in [Unit -> Link] /\ prev \in [Unit -> Link]
  /\ mapped \subseteq Nat
  /\ pc \in [Task -> {"idle", "walk", "take", "find", "merge", "back"}]
  /\ cur \in [Task -> Link]
  /\ \A t \in Task : pc[t] \in {"walk", "take", "merge", "back"} => cur[t] # Null
  /\ arg \in [Task -> Nat]
  /\ given \in [Task -> Block]
  /\ leaked \subseteq Block
  /\ flaw \subseteq {"split", "table"}

Holds(t) == given[t] # None

(***************************************************************************)
(* Two tasks never hold overlapping blocks, and every block lies in the    *)
(* extent (what every caller of kvmalloc relies on).                       *)
(***************************************************************************)
Disjoint ==
  \A t \in Task : Holds(t) =>
    /\ given[t].addr + given[t].size <= Extent
    /\ \A u \in Task \ {t} : Holds(u) =>
         \/ given[t].addr + given[t].size <= given[u].addr
         \/ given[u].addr + given[u].size <= given[t].addr

(***************************************************************************)
(* The assertion of experiment/malloc/memman.c, the program the kernel's   *)
(* heap was tried out in: the block before p in the list ends where p      *)
(* starts; and the links agree in both directions.                         *)
(***************************************************************************)
BlockList ==
  \A p \in Unit : use[p] /\ prev[p] # Null =>
    /\ addr[prev[p]] + size[prev[p]] = addr[p]
    /\ next[prev[p]] = p

(***************************************************************************)
(* No page is lost: the blocks in use tile the extent, and every block a   *)
(* task holds is marked ALLOC.                                             *)
(***************************************************************************)
Taken == {[addr |-> addr[b], size |-> size[b]] : b \in {c \in Unit : alloc[c]}}
Held  == {given[t] : t \in {u \in Task : Holds(u)}}

Tiled ==
  /\ \A x \in 0 .. Extent - 1 :
       \E b \in Unit : use[b] /\ addr[b] <= x /\ x < addr[b] + size[b]
  /\ Held \subseteq Taken

(***************************************************************************)
(* The comment in ktask_exit: a task cleans up the memory it allocated.    *)
(* A block is marked ALLOC only while somebody can still free it, or after *)
(* its holder gave vfree an address inside it: a vfree of the address that *)
(* vmalloc returned always finds the block.                                *)
(***************************************************************************)
NoLeak == Taken \subseteq Held \cup leaked

(***************************************************************************)
(* vfree coalesces: between calls no two neighbours are both free, so free *)
(* memory is as little fragmented as it can be.                            *)
(***************************************************************************)
Coalesced ==
  (\A t \in Task : pc[t] = "idle") =>
    \A b \in Unit : use[b] /\ ~alloc[b] /\ next[b] # Null => alloc[next[b]]

(***************************************************************************)
(* Every page of a block a task holds has a frame, though vmalloc maps     *)
(* nothing when a middle block fits exactly.                               *)
(***************************************************************************)
Backed ==
  \A t \in Task : Holds(t) => Pages(given[t].addr, given[t].size) \subseteq mapped

\* What holds until the code splits a block in the middle of the list or
\* finds its table full.
Intact == flaw = {}

\* Until then no two tasks ever hold the same page, and the links and
\* addresses of the blocks agree.
Sound          == Intact => Disjoint /\ BlockList

\* Until then every page of the extent lies in a block of the list.
SoundTiled     == Intact => Tiled

\* Until then nothing stays ALLOC without a holder but what was freed by an
\* interior address.
SoundLeak      == Intact => NoLeak

\* Until then every free joins the block with its free neighbours.
SoundCoalesced == Intact => Coalesced

\* Until then every block handed out is mapped.
SoundBacked    == Intact => Backed

-----------------------------------------------------------------------------
(***************************************************************************)
(* The inductive invariant behind Sound, SoundTiled and SoundBacked, for   *)
(* calls that do not overlap.  It speaks of one block and its neighbours   *)
(* and of pairs of blocks, never of the list as a whole.                   *)
(***************************************************************************)
OneCaller == \A t, u \in Task : pc[t] # "idle" /\ pc[u] # "idle" => t = u

\* Both directions of the list agree, from the entry to the one last block,
\* which ends the extent and is free; an entry not in use is not ALLOC.
Linked ==
  /\ use[Entry] /\ addr[Entry] = 0
  /\ \A b \in Unit : use[b] =>
       /\ prev[b] = Null <=> b = Entry
       /\ prev[b] # Null => use[prev[b]] /\ next[prev[b]] = b
       /\ next[b] # Null => /\ use[next[b]] /\ prev[next[b]] = b
                            /\ addr[next[b]] = addr[b] + size[b]
                            /\ size[b] > 0
       /\ next[b] = Null => addr[b] + size[b] = Extent /\ ~alloc[b]
  /\ \A b, c \in Unit : use[b] /\ use[c] /\ next[b] = Null /\ next[c] = Null => b = c
  /\ \A b \in Unit : ~use[b] => ~alloc[b]

\* The blocks in use lie side by side and leave no page out.
Apart ==
  /\ \A b \in Unit : use[b] => addr[b] + size[b] <= Extent
  /\ \A b, c \in Unit : use[b] /\ use[c] /\ b # c =>
       addr[b] + size[b] <= addr[c] \/ addr[c] + size[c] <= addr[b]

Covered ==
  \A x \in 0 .. Extent - 1 :
    \E b \in Unit : use[b] /\ addr[b] <= x /\ x < addr[b] + size[b]

\* What a task holds is one ALLOC block, and no other task holds that one.
Owned ==
  /\ \A t \in Task : Holds(t) =>
       \E b \in Unit : alloc[b] /\ addr[b] = given[t].addr /\ size[b] = given[t].size
  /\ \A t, u \in Task : Holds(t) /\ Holds(u) /\ given[t].addr = given[u].addr => t = u

\* What a task inside a call has found out still holds.
Cursors ==
  \A t \in Task :
    /\ pc[t] # "idle" /\ cur[t] # Null => use[cur[t]]
    /\ pc[t] \in {"walk", "take"} => ~Holds(t) /\ arg[t] > 0
    /\ pc[t] = "take" => Stops(t)
    /\ pc[t] \in {"find", "merge"} => Holds(t) /\ arg[t] \in {given[t].addr, Inside}
    /\ pc[t] = "merge" => Found(t)
    /\ pc[t] = "back" => ~Holds(t) /\ ~alloc[cur[t]]

\* Every block but the last was handed out before, so it is mapped.
Mapped ==
  \A b \in Unit : use[b] /\ next[b] # Null => Pages(addr[b], size[b]) \subseteq mapped

HeapInv ==
  /\ OneCaller
  /\ Intact => Linked /\ Apart /\ Covered /\ Owned /\ Cursors /\ Mapped

\* A walk has passed over no free block that is large enough, a search for
\* the start of a block has not gone past that block.
Searches ==
  Intact => \A t \in Task :
    /\ pc[t] \in {"walk", "take"} =>
         \A b \in Unit : use[b] /\ addr[b] < addr[cur[t]] => alloc[b] \/ size[b] < arg[t]
    /\ pc[t] = "find" /\ arg[t] = given[t].addr => cur[t] # Null /\ addr[cur[t]] <= arg[t]

(***************************************************************************)
(* vmalloc gives up its walk, and calls itself, only when no free block of *)
(* the list is large enough: then it recurses for ever, unless its caller  *)
(* has interrupts on and another task frees a block.                       *)
(***************************************************************************)
Room(t) == \E b \in Unit : use[b] /\ ~alloc[b] /\ size[b] >= arg[t]

RecursesOnlyFull ==
  Intact => \A t \in Task : pc[t] = "take" /\ size[cur[t]] < arg[t] => ~Room(t)

(***************************************************************************)
(* A call returns: the walk of vmalloc ends and, while there is room, it   *)
(* does not call itself for ever (its last line); the search of vfree and  *)
(* its joining of neighbours end in any case.                              *)
(***************************************************************************)
CallReturns ==
  \A t \in Task :
    /\ pc[t] = "walk" ~> pc[t] = "idle" \/ ~Intact \/ ~Room(t)
    /\ pc[t] = "find" ~> pc[t] = "idle" \/ ~Intact
=============================================================================
