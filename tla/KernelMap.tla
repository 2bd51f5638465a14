----------------------------- MODULE KernelMap -----------------------------
(***************************************************************************)
(* The kernel's own memory map: init_kernel_mem() and the loop of Main()   *)
(* that fill the page tables before paging is on, enable_paging(), and the *)
(* mappings that follow under the map they extend: the heap's table of     *)
(* blocks (init_vmalloc), the floppy buffer (task_fdc) and heap pages.     *)
(* The addresses are those of config.h; memory is counted in pages.        *)
(*                                                                         *)
(* The areas overlap on purpose or by accident: the table of page frames,  *)
(* which is identity mapped, is longer than the space left for it, and     *)
(* what follows is mapped over its end.                                    *)
(***************************************************************************)
EXTENDS Library

CONSTANTS
  HeapPages,    \* heap pages that vmalloc cuts
  MaxCuts       \* bound: how often it cuts one of them

Pg(addr) == addr \div MEM_PAGE_SIZE
Absent == -1
Fresh  == -2                       \* a new frame for every page

-----------------------------------------------------------------------------
\* config.h
PMALLOC_MAN_ADDR_V == \h901000
PMALLOC_MAN_ADDR_P == \h901000
PMALLOC_START      == \h1000000
VMALLOC_MAN_ADDR   == \hA01000
VMALLOC_START      == \h3000000
VMALLOC_MAX_END    == \h4000000
KERNEL_ADDR        == \h100000
KERNEL_SIZE        == 4 * 1024 * 1024
KERNEL_STACK_V     == \h3000000
KERNEL_STACK_TOP_V == \h1000000
KERNEL_STACK_SIZE  == KERNEL_STACK_V - KERNEL_STACK_TOP_V
KERNEL_PDT         == \h500000
KERNEL_PT0         == \h501000
KERNEL_PT_SIZE_OF_ONE == 4 * 1024                              \* mutant
KERNEL_PT_SIZE     == 4 * 1024 * 1024
VRAM_ADDR          == \hA0000
VRAM_ADDR_V        == 0
VRAM_SIZE          == 320 * 200 * 1
GDT_IDT_HEAD_ADDR  == \hF00000
FD_BUFFER_V        == \hB01000
FD_BUFFER_P        == 0

\* sizeof of the structs of mem.h
P_MEM_PAGE_size == 12
P_MEMMAN_size   == 1024 * 512 * P_MEM_PAGE_size + 4      \* PMALLOC_MAX_PAGE entries
V_MEMMAN_size   == 4 * 4 + 256 * 24 + 4

-----------------------------------------------------------------------------
\* A loop that maps the pages of an area in order.
IterationsUpTo(size) == mem_npage(size) + 1                    \* mutant
Iterations(size) == mem_npage(size)
Loop(addr, size, to) == [at |-> Pg(addr), n |-> Iterations(size), to |-> to]

PT_WINDOW  == 5
STACK      == 7
VMALLOCMAN == 8
Loops ==
  << Loop(KERNEL_ADDR, KERNEL_SIZE, Fresh),
     Loop(VRAM_ADDR_V, VRAM_SIZE, Pg(VRAM_ADDR)),
     Loop(PMALLOC_MAN_ADDR_V, P_MEMMAN_size, Pg(PMALLOC_MAN_ADDR_P)),
     [at |-> Pg(KERNEL_PDT), n |-> 1, to |-> Pg(KERNEL_PDT)],
     Loop(KERNEL_PDT, KERNEL_PT_SIZE, Pg(KERNEL_PDT)),
     [at |-> Pg(GDT_IDT_HEAD_ADDR), n |-> 1, to |-> Pg(GDT_IDT_HEAD_ADDR)],
     Loop(KERNEL_STACK_TOP_V, KERNEL_STACK_SIZE, Fresh),
     Loop(VMALLOC_MAN_ADDR, V_MEMMAN_size, Fresh) >>

KPage     == 0 .. Pg(VMALLOC_MAX_END) - 1      \* nothing above is ever mapped
HeapArea  == Pg(VMALLOC_START) .. Pg(VMALLOC_MAX_END) - 1
ImagePage == 0 .. mem_npage(KERNEL_SIZE) - 1

ASSUME MapAssumption == HeapPages \subseteq HeapArea /\ MaxCuts \in Nat

VARIABLES
  loop,           \* where the boot is
  paging,         \* CR0's PG flag
  entry,          \* the frame that each page is mapped to
  handed,         \* how many frames pmalloc_4k() handed out
  image,          \* image[k]: the frame that page k of the kernel was copied to
  new_stack_p,    \* Main()'s local: the first frame of the new stack
  live_stack,     \* the frame that enable_paging() copied the stack to
  cuts            \* heap pages mapped

kvars == <<loop, paging, entry, handed, image, new_stack_p, live_stack, cuts>>

KInit ==
  /\ loop = 1
  /\ paging = FALSE
  /\ entry = [v \in KPage |-> Absent]
  /\ handed = 0
  /\ image = [k \in ImagePage |-> Absent]
  /\ new_stack_p = Absent /\ live_stack = Absent
  /\ cuts = 0

-----------------------------------------------------------------------------
\* Where an access to page a ends up.
Translated(a) == IF paging THEN entry[a] ELSE a

\* The page table that maps page v.
TableOf(v) == Pg(KERNEL_PT0) + (v \div 1024)

\* pmalloc_4k() scans the table from its start to the first free entry.
ScanPages == Pg(PMALLOC_MAN_ADDR_V) .. Pg(PMALLOC_MAN_ADDR_V + (handed * P_MEM_PAGE_size) + 11)
pmalloc_4k(k) == Pg(PMALLOC_START) + handed + k      \* the k-th call from now

\* map_memory_4k(KERNEL_PDT, v, ...): a store to the directory, one to the
\* table, which the CPU translates like any other.
Stores(v) == Translated(Pg(KERNEL_PDT)) = Pg(KERNEL_PDT) /\ Translated(TableOf(v)) = TableOf(v)

\* It is called for n pages from v on; the first goes to frame f, or each to a
\* new one.
map_memory_4k(v, n, f) ==
  /\ v .. v + n - 1 \subseteq {w \in KPage : Stores(w)}
  /\ entry' = [w \in KPage |-> IF w \notin v .. v + n - 1 THEN entry[w]
                           ELSE IF f = Fresh THEN pmalloc_4k(w - v)
                           ELSE f + (w - v)]
  /\ handed' = IF f = Fresh THEN handed + n ELSE handed

\* The next loop.  Interrupts are off and it calls nothing that depends on the
\* map but map_memory_4k(), so it is one step.
MapLoop ==
  /\ loop <= Len(Loops)
  /\ loop = VMALLOCMAN => paging
  /\ LET l == Loops[loop]
     IN  /\ map_memory_4k(l.at, l.n, l.to)
         /\ image' = IF loop = 1 THEN [k \in ImagePage |-> pmalloc_4k(k)] ELSE image
         /\ new_stack_p' = IF loop = STACK THEN pmalloc_4k(0) ELSE new_stack_p
  /\ loop' = loop + 1
  /\ UNCHANGED <<paging, live_stack, cuts>>

\* enable_paging(KERNEL_PDT, new_stack_p + KERNEL_STACK_SIZE - 4, ...): the stack
\* in use, less than a page, is copied to its top; then the flag is set.
enable_paging ==
  /\ loop = VMALLOCMAN /\ ~paging
  /\ live_stack' = new_stack_p + Pg(KERNEL_STACK_SIZE - 4)
  /\ paging' = TRUE
  /\ UNCHANGED <<loop, entry, handed, image, new_stack_p, cuts>>

\* task_fdc(), at any time among the allocations of other tasks.
MapFdBuffer ==
  /\ loop > Len(Loops) /\ entry[Pg(FD_BUFFER_V)] # Pg(FD_BUFFER_P)
  /\ map_memory_4k(Pg(FD_BUFFER_V), 1, Pg(FD_BUFFER_P))
  /\ UNCHANGED <<loop, paging, image, new_stack_p, live_stack, cuts>>

\* vmalloc() maps page v of a block it cut.
MapHeap(v) ==
  /\ loop > Len(Loops) /\ cuts < MaxCuts
  /\ map_memory_4k(v, 1, Fresh)
  /\ cuts' = cuts + 1
  /\ UNCHANGED <<loop, paging, image, new_stack_p, live_stack>>

KNext == MapLoop \/ enable_paging \/ MapFdBuffer \/ \E v \in HeapPages : MapHeap(v)

KSpec == KInit /\ [][KNext]_kvars

-----------------------------------------------------------------------------
(***************************************************************************)
(* With paging on, the kernel finds everything it goes on to use: its code *)
(* and its stack where they were copied to (the copy goes to physical      *)
(* addresses computed from the first frame of the stack, so the frames     *)
(* must be contiguous), the directory and the page tables it may have to   *)
(* write, the table of frames up to the first free one, and the page of    *)
(* the GDT and IDT, at the addresses they have (init_kernel_mem,           *)
(* enable_paging, map_memory_4k, pmalloc_4k_page).                         *)
(***************************************************************************)
KernelReachable ==
  paging =>
    /\ \A k \in ImagePage : entry[Pg(KERNEL_ADDR) + k] = image[k]
    /\ entry[Pg(KERNEL_STACK_V - 4)] = live_stack
    /\ \A v \in KPage : v % 1024 = 0 => Stores(v)
    /\ \A a \in ScanPages : entry[a] = a
    /\ entry[Pg(GDT_IDT_HEAD_ADDR)] = Pg(GDT_IDT_HEAD_ADDR)

TableEnd == Pg(PMALLOC_MAN_ADDR_V) .. Pg(GDT_IDT_HEAD_ADDR) - 1
Area(addr, size) == Pg(addr) .. Pg(addr) + mem_npage(size) - 1
Own == { Area(0, KERNEL_ADDR), Area(KERNEL_ADDR, KERNEL_SIZE), Area(KERNEL_PDT, 4096),
         Area(KERNEL_PT0, KERNEL_PT_SIZE), Area(PMALLOC_MAN_ADDR_P, P_MEMMAN_size),
         Area(GDT_IDT_HEAD_ADDR, 4096) }

\* The pages that the next step may map.
MayMap == IF loop <= Len(Loops)
             THEN Loops[loop].at .. Loops[loop].at + Loops[loop].n - 1
             ELSE HeapPages \cup {Pg(FD_BUFFER_V)}

(***************************************************************************)
(* A page that is mapped keeps its frame, unless it is a heap page that is *)
(* cut again or lies in the part of the frame table that pmalloc_4k_page() *)
(* does not reach; and no frame given out is one that the kernel uses at a *)
(* fixed physical address: low memory, the image it is copied from, the    *)
(* directory and the tables, the table of frames, the GDT and IDT.         *)
(***************************************************************************)
MapKept ==
  [][\A v \in MayMap : entry'[v] # entry[v] =>
       /\ entry[v] = Absent \/ v \in HeapArea \/ v \in TableEnd \ ScanPages'
       /\ handed' # handed => \A area \in Own : entry'[v] \notin area]_kvars
=============================================================================
