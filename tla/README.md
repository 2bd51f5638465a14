# uroboros in TLA+

uroboros (`src/`) is a small 32-bit x86 kernel in C with some assembly: a
preemptive round-robin scheduler for at most 16 tasks, a page-granular kernel
heap, byte queues between interrupt handlers and tasks, software timers, a
serial console that starts and kills tasks, and drivers for the serial port and
the floppy disk. It runs on one CPU with maskable interrupts, so almost
everything that can go wrong does so because an interrupt strikes, or a task
switch happens, between two statements, or because a long sequence of legal
console commands leads somewhere no boot-time test went.

This directory holds TLA+ models of that core, the TLC configurations that check
them, and machine-checked proofs (TLAPS) of what they promise for every size.
Paths below are relative to `src/` of the repository's checkout, e.g.
`src/kernel/mtask.c`.

## 1. Inventory

| component | state it keeps | operations | talks to |
|---|---|---|---|
| multitasking (`kernel/mtask.c`, `asm_context_switch.s`) | `sched.proc[16]` (status, stack, context, frame), `sys->cpu->proc`, the scheduler task | `proc_alloc`, `ktask_init`, `utask_init`, `ktask_exit`, `ktask_kill`, `sched`, `sched_handler`, `context_switch` | heap (stacks), timer interrupt, console commands |
| kernel heap (`kernel/mem.c` 99-276) | `V_MEMMAN`: 256 block descriptors in a doubly linked list | `vmalloc`/`kvmalloc`, `vfree`/`kvfree`, `get_new_block` | paging (maps the pages of a block), everyone who allocates |
| physical memory and paging (`kernel/mem.c` 3-97, 278-326) | frame bitmap `P_MEMMAN`, page directory and tables | `pmalloc_4k_page`, `pfree_4k_page`, `map_memory_4k`, `init_kernel_mem` | heap, boot |
| byte queues (`kernel/queue.c`) | ring: `head`, `tail`, `size`, `drop`, buffer | `q8_make`, `q8_free`, `q8_in`, `q8_de`, `q8_usage` | interrupt handlers put, tasks take |
| timers (`kernel/timer.c`) | list of `Timer` (interval, count, mode, queue) | `timer_alloc`, `timer_reset`, `timer_free`, `sleep`, `timer_tick` | IRQ0, queues, heap, scheduler |
| interrupt entry (`kernel/intr.c`, `asm_interrupts.s`) | IDT, PIC masks, the register frame | `int_handler`, `pic_eoi`, `init_pic`, `init_idt` | timers, scheduler, serial, floppy |
| console (`kernel/console.c`) | the line, two queues | `console_run`, `parse_command`, `console_exec` | serial, multitasking, `sleep` |
| serial port (`kernel/serial.c`) | the UART, `com1_in`, `com1_out` | `int_handler_serial`, `serial_putc`, `serial_flush_buffer` | queues, IRQ4 |
| floppy driver (`kernel/fdc.c`, `dma.c`) | `sys->fdc_intr`, the controller's phase, the DMA channel | `init_fdc`, `fdc_cmd_*`, `fdc_read_*`, `set_dma_*` | IRQ6, `task_fdc` |
| FAT12 (`kernel/fat12.c`) | none (reads a disk image) | `get_fat12_entry`, `find_entry`, `read_file`, `count_cluster_link`, `get_rde` | floppy driver's buffer |
| library (`kernel/stdlibc.c`) | none | `roundup`, `rounddown`, `atoi`, `strtol`, `sprintf`, `strncpy`, ... | everyone |
| segments and TSS (`kernel/mem.c` 328-436) | GDT, one TSS with one `esp0` | `init_gdt`, `init_tss` | ring 3 tasks |
| stub generator (`code_gen/interrupt.py`) | none | writes `asm_interrupts.s` | interrupt entry |
| boot, graphics, font, rust stubs, `app/hello` | - | - | not modelled, see section 7 |

### How they interact

* **Interrupts** are the only concurrency besides preemption. IRQ0 calls
  `timer_tick`, which puts a byte into the queue of every timer that fires;
  the first timer (`sys->task_timer`, interval 1) makes the same interrupt
  call `sched_handler`, which switches to the scheduler task. IRQ4 puts the
  received byte into `com1_in`. IRQ6 sets `fdc_intr`.
* **The interrupt flag is the only lock.** `proc_alloc`, `ktask_init`,
  `ktask_exit`, `ktask_kill`, `timer_alloc` and `timer_free` save, clear and
  restore it. `kvmalloc`, `kvfree`, `q8_de`, `timer_reset` and the drivers do not.
* **Stacks are heap blocks.** A task's saved context is memory on its stack;
  `ktask_exit` and `ktask_kill` free that memory, the former while running on it.
* **The console** turns user input into `proc_alloc` + `ktask_init`,
  `ktask_kill` and `sleep`, in any order the user likes.

### What is hard, and what makes each part correct

* multitasking: a tick between any two steps of a task; a context on a stack
  that was freed and handed out again; a full table; the last runnable task.
  Correct when every context that can be switched to is still intact, every
  process that can run owns its stack, one process runs at a time, an ended
  process stays ended, and every runnable process gets the CPU again.
* heap: any order of allocations and frees; a full table; no room; overlapping
  calls. Correct when blocks held are disjoint, tile the extent with the free
  ones, are mapped, are coalesced when freed, and calls return.
* queues: a byte arriving between any two instructions of the reader. Correct
  when the ring is a FIFO that counts what it refuses.
* timers: a tick between any two statements of `timer_reset`; a walk cut short.
  Correct when `sleep(n)` returns neither early nor late and no timer keeps a
  tick from the scheduler.
* console, serial: bytes typed while a command executes; a line longer than its
  buffer; arguments longer, or more, than their fields. Correct when every line is
  executed once, in order, with its words as arguments.
* floppy: a stale interrupt flag, an answer that never comes, the phases of the
  controller. Correct when the driver reads each result byte of the command it
  issued and no other.
* paging: frames that are never returned, translations that are never dropped.
  Correct when two live mappings never share a frame by accident.
* interrupt entry: frames that differ by vector and privilege, a task switch
  inside a handler, the order in which the controllers are programmed. Correct
  when a task gets all its registers back, no line stays in service, and every
  line the kernel uses is served.
* FAT12: 12-bit entries across byte boundaries and the end-of-chain mark. Correct
  when a read returns the file's bytes and never more than was asked for.
* memory map: some twelve fixed addresses in one header. Correct when, with paging
  on, the kernel finds everything at the address it uses for it.

`PROJECT.json` lists each hazard with its line and the properties that cover it.

## 2. Modules

| module | models | builds on |
|---|---|---|
| `Mtask` | process table, scheduler, preemption, spawn, exit, kill | - |
| `TaskSet` | what multitasking promises: a set of tasks sharing one CPU fairly | - |
| `MCMtask` | boot tables for TLC | `Mtask` |
| `Mtask_proofs` | proofs | `Mtask` |
| `Vmalloc` | the kernel heap, one step per visited block | - |
| `MCVmalloc` | symmetry and constraints for TLC | `Vmalloc` |
| `Queue8` | the ring between interrupt and task, one step per store | `BoundedFifo` |
| `BoundedFifo` | what a queue promises: order, bound, drops counted | - |
| `Queue8_proofs` | proofs | `Queue8` |
| `Timer` | timer list, `sleep`, `timer_tick`, one step per statement of `timer_reset` | - |
| `Timer_proofs` | proofs | `Timer` |
| `Paging` | frames, page table and cached translations under the heap | `Vmalloc` |
| `MCPaging` | symmetry and a constraint for TLC | `Paging` |
| `Console` | UART, serial output, line editing, the console's loop | - |
| `MCConsole` | lines and their words for TLC | `Console` |
| `Console_proofs` | proofs | `Console` |
| `Fdc` | the floppy driver against an external controller, IRQ6, DMA | - |
| `Fdc_proofs` | proofs | `Fdc` |
| `Interrupts` | the 8259 and the gates, entry stubs, `int_handler`, `context_switch`, word by word | - |
| `Interrupts_proofs` | proofs | `Interrupts` |
| `Library` | `roundup`, `mem_npage`, `strncmp` | - |
| `Fat12` | layout, table, `read_file` and the searches over any small disk | `Library` |
| `MCFat12` | directories and names for TLC | `Fat12` |
| `Fat12_proofs` | proofs | `Fat12` |
| `KernelMap` | every mapping of the boot, with the addresses of `config.h` | `Library` |
| `Heap_proofs` | proofs of `mem.c`'s three modules | `Paging`, `KernelMap` |

`Interrupts` and `Mtask` look at the same code from two sides: `Mtask` keeps a
saved context as one thing that is intact or not, and says which task runs;
`Interrupts` takes it apart into words and registers, and leaves the choice of
the task open. `KernelMap` and `Paging` divide memory in the same way: the
kernel's own pages, and those of the heap.

### Mtask

State: `status`, `stack`, `context`, `entry` are the fields of `proc[]`;
`curproc` is `sys->cpu->proc`, `scan` the loop index of `sched()`, `intr` the
CPU's interrupt flag and `onCpu` the process that really executes, which need
not be `curproc`. A context is a set of words pushed on a stack, so it lives
exactly as long as nobody writes that stack: `frame[s]` says whose context can
be popped from stack `s`. `context_switch(old, s, new)` pushes on `s` and pops
at `context[new]`; if that place no longer holds `new`'s context the CPU jumps
to garbage and `onCpu` becomes `NoProc`.

Actions: `SchedSkip`/`SchedDispatch` are one iteration of the loop in `sched()`;
`Tick` is IRQ0 up to the switch into the scheduler; `proc_alloc` and
`ktask_init` are a console command (two critical sections, so a tick may strike
between them); `KillOther`, `KillSelf`, `TaskExit` are `ktask_kill` and
`ktask_exit`; `ExitSwitch` is the `context_switch` after `ktask_exit`'s critical
section, which a tick may precede (`ExitPreempt`). The boot part of `Main()`
is `Init`. A ring 3 task saves its context on the stack the TSS names (`Esp0`),
every other task on its own.

### Vmalloc

State: the two flag bits, `addr`, `size`, `next`, `prev` of each descriptor, in
pages; `mapped`; and per task the position in its call. Actions: `Call` and
`Walk` are `vmalloc`'s loop, then one of `TakeExact`, `Split` (with
`get_new_block`, whose NULL the code does not test) and `Retry` (the recursive
call); `CallFree`, `Find`, `NotFound`, `MergeNext`, `MergePrev` are `vfree`.
`CallFree` also passes the interior address that `q8_free` passes. The history
variable `flaw` records when the code takes one of two steps that damage its list
(section 5): a block split in the middle of the list, and a full table. Properties
named `Sound...` and `CallReturns` say what holds until then
(`Intact`). `leaked` records the blocks whose holder freed an interior address:
`SoundLeak` says that these and no others stay ALLOC without a holder, so a free
of the address `vmalloc` returned never fails to find its block.

### Queue8

State: the ring, the reader's position in `q8_de`, and three history counters.
`q8_in` is one step, because the interrupt handler is not interrupted; `q8_de`
is `ReadByte`, `Advance` (`head++`) and `Wrap` (`head %= size`), as the
unoptimised build stores `head` twice. `MaxInWindow` says how many bytes may
arrive between these two stores.

### Timer

State: the list, each timer's `interval`, `count` and whether its queue holds a
byte (`pending`), and each task's position inside `sleep`. `timer_reset` is four
steps, `timer_tick` one. `elapsed` and `missed` are history: how many ticks
passed since the timer was started and whether the walk of one of them ended
before it.

### Paging

`Paging` extends `Vmalloc`: the step that cuts a block (`Split`) also calls
`pmalloc_4k_page` and `map_memory_4k` for each of its pages (`SplitAndMap`);
every other step of the heap leaves the page table alone (`HeapStep`). State:
`flags` (the frames taken), `pte` (the page table), and the external part, the
CPU: `tlb` (the translation it has cached for a page) and `mem` (who wrote a
frame last). `Write` is a store of a task into its block, `Evict` the CPU
dropping a translation. The kernel has no `invlpg` and loads CR3 once, so
nothing else removes one. `stale` records the pages that were mapped anew under
a cached translation, `exhausted` that `pmalloc_4k_page` returned NULL.
`SplitAndMap` is one step, which the code allows as long as calls do not overlap
(`Preempt = FALSE`): `pmalloc_4k_page` tests and sets a frame's flag in two
statements (`mem.c:67`, `mem.c:68`), and two tasks in them at once could take one
frame. Runs and theorems of this module therefore have `Preempt = FALSE`.

### Console

State: the UART (`rbr`, `thr`: one byte received, one to send; no FIFO, as
`init_serial_port` programs it), `intf`, who is inside `serial_putc` (`printer`),
the two rings as queues (`Queue8` shows that they are), and `task_console`: its
place in the loop, `line`, `line_p` and the scan's `c`. Actions: `CharTime` is the
time of one character on the line, in which the user may type a key;
`int_handler_serial`; `Tick`, which ends a `hlt`; `OtherPrints` and `PutOther` are
other tasks' `serial_putc` and the string the system call handler prints with
interrupts off; `Read`, `ReadAll`, `Scan`, `ScanEnds`, `Flush`, `FlushEnds` are
`console_run` byte by byte, and `PutConsole` is the end of its `serial_putc`. `Scan`
at a carriage return is `parse_command`, `console_exec` and `console_clear_line`.
`parse_command` is the loop that fills `args[][]` from the line, as a function of
its bytes: `Delimits` is the space that ends an argument, `Put` stores a byte, and
`Overruns` says that a byte went behind its field or behind the table, or that an
argument has no end. `MCConsole` compares it with the words of a line, for every
line of up to six bytes (`ArgumentsSplit`, an assumption that TLC evaluates). The
CPU is faster than the line: a pending interrupt is served, and a wait for the
transmitter ends, before the next `CharTime`. `flaw` records four things that happen
to a line in the code (section 5); `noisy` that a string was printed inside the
handler. What the console is to run and to say is a function of the bytes it got:
`Session` folds `Key` over them, and `Lines` and `Dialogue` are the lines ended and
the text shown so far.

### Fdc

The driver is straight-line code over port operations, so it is modelled as
that: `Program` is the sequence of operations of `init_fdc` and of the body of
`task_fdc`'s loops for the sector `at` (their variables c, h, s), built from one
definition per function of `fdc.c` and `dma.c`, `pc` the next one. `Memcpy`, the
last of the body, goes on with `NextSector`, the three loops. There is one action
per kind of operation (`Write` and `Read` a
byte of the data port, `Wait` and `Clear` the flag, `Check`, `Demand`, `Verify`
for the early returns, `Motor`, `Dma`, `Reset`, `Memcpy`). The controller is
external: `Accept` takes a command whose last byte was written, `Finish` ends
one that executes, in its own time and with any outcome, and raises IRQ6, which
`Int26` turns into `fdc_intr`. It is as quick as the driver assumes (the driver
never waits for RQM), and may be absent. The bytes of a sector are one value;
the DMA registers say where it lands. `DiskAssumption` lets the geometry be any
that the bytes of a command can name. `answered` is history: ST0 of each drive's
recalibration.

### Interrupts

A stack is a sequence of words, and a word names what was pushed, so a register
that is popped from the wrong place shows. `BootStep` executes `Main()` from
`io_cli()` on, one port write or gate at a time; `StartMtask` leaves it. `Raise`
is a device, `Accept` the CPU taking a line the 8259 offers, `Trap` an exception
or `int 0x80`; each of the last two is `Enter`: the CPU's frame, on the stack of
the TSS if the task is in ring 3, then the stub's. `todo` is what is left of
`int_handler`'s branch: `Eoi`, `SchedHandler` (or `NoTaskTimer`), and `Leave`, the
return. `Halt` is the loop an exception ends in. `context_switch` pushes and pops
the four registers; a handler goes on after it when the task is dispatched again.
The stacks of tasks that never ran are what `ktask_init` and `utask_init` build.
`entered` is history: the vector a task came in by. `NoDummy` is the list of the
stubs' generator; the CPU's list (`ErrorCode`) has four vectors more (`Unlisted`).

### Fat12

The disk is external: `Init` chooses a file's clusters in any order, bad clusters,
an end mark and a directory, and packs the table (`Table`, `Packed`) as a
formatter does. `buf` holds
the addresses that bytes were copied from, so one comparison says whether every
byte of a read came from its place. `read_file` is its loops: `Call` (with
`get_cluster_number`, which shifts the high word by 8 and not 16 bits; on a FAT12
disk, `FileEntry`, that word is 0), `Walk`,
`FirstPart`, `Sectors`, `Rest`. An entry behind the table is any of `Beyond`.
`size` and `read_size` wrap at `Wrap`. `FindFree`, `CountFree` and `FindEntry`
are one step each, as nothing else touches the image. Their assumptions hold for
the disk the kernel reads and for what `find_entry`'s caller passes: a
1.44 MB disk has 2880 sectors, fewer than the 3072 entries of its table
(`SearchAssumption`); names on a disk are in upper case and a directory ends with
a NUL entry (`DirectoryAssumption`); the name asked for is printable and ends with
NUL (`NameAssumption`).

### KernelMap

One step per loop, in the order of the code, as interrupts are off: the loops of
`init_kernel_mem`, the stack, `enable_paging`, the block table, then the floppy
buffer and heap pages in any order. `entry` is the whole page table, `handed` the
number of frames given out, `image` and
`live_stack` are the frames the kernel and its stack were copied to. A store to
the page tables is itself translated once paging is on (`Stores`), and the scan of
`pmalloc_4k` reads as many pages as frames were given out (`ScanPages`).

## 3. Runs

| run | instance | checks |
|---|---|---|
| `mtask_core` | table of 6: scheduler, console, ring 3 task, a looping task, 2 free slots; 7 stack blocks; three spawns; exit window closed; fairness | `ContextIntact`, `StackOwned`, `NoStackLeak`, `NoResurrection`, `SpawnFresh`, `Dispatched`, `ImplementsFairTaskSet` |
| `mtask_exit_tick` | table of 5; a tick in the exit window | violates `NoResurrection` |
| `vmalloc_safe` | 5 descriptors, 6 pages, 3 callers of 1-3 pages, calls one after another; fairness | `Sound`, `SoundLeak`, `SoundTiled`, `SoundCoalesced`, `SoundBacked`, `CallReturns` |
| `vmalloc_race` | two preemptible callers | violates `Disjoint` |
| `queue8_safe` | ring of 4 over 3 bytes, 9 arrivals, at most one between the stores; fairness | `NothingLost`, `ImplementsFairFifo` |
| `timer_sleep` | two sleepers, sleeps of 0-3 ticks; fairness | `NeverEarly`, `OnTime`, `Wakes` |
| `paging_safe` | 3 pages, 3 descriptors, 4 frames, two callers of 1-2 pages | `Exclusive`, `CoherentUntilStale`, `HeldKeepsFrame` |
| `floppy` | 2 cylinders, 2 heads, 2 sectors; any command may fail; no controller; fairness | `InSync`, `FlagForThisCommand`, `Image`, `Loaded` |
| `console` | four keys, a line of 4, 3 arguments of 2, rings of 2 and 5, system call strings of 2; fairness | `Accounted`, `LinesRun`, `Transcript`, `Answered` |
| `interrupts` | two kernel tasks and the ring 3 task; timer, keyboard (masked), COM1, floppy; exceptions 0 and 13; `int 0x80`; fairness | `NoneInService`, `ContextKept`, `FrameRead`, `Interruptible`, `Served` |
| `fat12` | 4 clusters of 8 bytes, every file and every set of bad clusters, both ends of the range of end marks, 5 offsets, 5 sizes, 4 directories, 6 names | `ReadsFile`, `WritesWithin`, `FreeRight`, `FindsFile` |
| `kernel_map` | the real addresses; 4 cuts among four heap pages | `KernelReachable`, `MapKept` |

**Bounds.** A table of six slots has the scheduler, the console, the one ring 3
task, a task nobody can kill and two slots that are taken, freed and taken again;
every interaction of `mtask.c` involves at most the console, its target, the task
on the CPU and the scheduler. `MaxSpawn` bounds the console's commands; two spawns
suffice to reuse a freed stack and slot while the old context pointer still
exists, the third meets the full table. `Stack` has a block more than slots where
the full table overwrites one. Six pages and five descriptors give the heap a list
long enough for a block with free, allocated and no neighbours on either side,
with requests that fit exactly, with a rest, and not at all. `vmalloc_safe` stops
exploring (`BeforeDamage`) after a step that damages the list, since the
properties claim nothing beyond. A ring of four indices wraps twice within nine
arrivals. Sleeps of up to three ticks let a tick strike at every statement of
`timer_reset` and let one sleeper's unread byte hide several ticks from the other.
Four frames over three pages run out after one page was remapped, so a cached
translation, the entry that replaced it and the frames of the other pages coexist;
`paging_safe` stops exploring (`BeforeDamage`) when frames have run out. Four keys
make two lines, or a line that is longer than its buffer, and fill the input ring
while the console prints; the output ring holds one answer and overflows with the
second. Two of everything let each of the three loops of `task_fdc` turn and wrap;
each of the eight reads may fail. The lines of six bytes that `MCConsole` splits have
spaces before, between and behind words, more words than the three fields, and words
longer than one. In `interrupts` nothing is bounded but the
number of tasks and devices: a kernel task can be switched away from inside a
handler while another, or the ring 3 task, is interrupted by every other line, and
the masked line shows the mask. Four clusters of eight bytes hold an entry pair
and a half, so chains cross byte boundaries in both directions; sizes below, at
and above a sector and past the file's end meet every branch of `read_file`, and
`Wrap = 32` makes `size` wrap where the code's 32 bits do. `kernel_map` has no other
bound than `MaxCuts`. The theorems of section 6 hold for all values.

**Deadlock** is checked except in `queue8_safe`, where the bound on arrivals lets
the system stop when the queue is empty, in `floppy`, where `task_fdc` ends in an
empty loop, and waits for ever when there is no controller, and in `kernel_map`,
where the cuts are bounded.

**Mutants.** Each passing property has a mutant, an operator next to the one it
replaces, marked `\* mutant`: a plausible slip in the code (a dropped test, a
missing wrap, the wrong stack, the walk starting over) that the run refutes.

## 4. Fairness

`Mtask!Fairness` is weak: the CPU executes the scheduler's and the exit path's
instructions, and the PIT keeps raising IRQ0 while the flag is set. No fairness
is assumed of the user. With these assumptions the detailed table implements
`TaskSet!FairSpec`, where each task's dispatch is strongly fair: round robin
turns a fair clock into a fair CPU, as long as two tasks stay alive.
`Vmalloc!FairSpec` says that a task inside a call is scheduled again, which is
`Dispatched` above. `Queue8!FairSpec` says that `console_run`, called from
`task_console`'s endless loop, keeps taking bytes. `Timer!FairSpec` says that
IRQ0 keeps coming and that a task inside `sleep` (which spins on `io_hlt` with
interrupts on) is scheduled. `Console!FairSpec` says that the line
goes on sending, that interrupts are served and come again, and that the
scheduler gives `task_console` turns, strongly fair because other tasks' printing
may close its window again and again; no fairness is assumed of the user or of
other tasks. `Fdc!FairSpec` says that `task_fdc` gets its turns, that IRQ6 is
served, and that the controller ends every command it started; the code itself
has no timeout. `Interrupts!Fairness` says that the CPU executes the boot, the
handlers, the scheduler and the end of a critical section, and that a line which
is offered at the end of an instruction again and again is accepted (strong
fairness: the CPU looks after each instruction, a task may close its window in
between); no fairness is assumed of devices or of tasks. `Served` therefore asks
that unmasked lines of higher priority leave a chance again and again, which the
8259's fixed priorities do not promise; a request on a masked line, which stays
pending for ever, does not count. In `vmalloc_safe` a task inside a call is
scheduled again; `CallReturns` needs no more because calls do not overlap. It
claims the end of a `vfree` without condition but `Intact`, that of a `vmalloc`
while a free block is large enough; that it calls itself in no other case is
proved (`RecursesOnlyFull`).

## 5. Where the code departs from what it says

Two of these are runs that TLC refutes; `PROJECT.json` quotes the line each one
contradicts.

1. `ktask_exit` restores the flag before it switches (`mtask.c:62`). A tick
   there marks the ended process RUNNABLE and it runs on a freed stack
   (`mtask_exit_tick`). `sched()` is also entered with the flag set, which
   `init_sched_proc` means to avoid.
2. `kvmalloc` is not protected, yet `q8_make` and `task_fdc` call it preemptibly
   (`vmalloc_race`).

Others are in the models, where the properties are stated up to them. Changing a
configuration shows five of them: with `BlockList` as the invariant of
`VmallocSafe.cfg` and no constraint it fails, since a split in the middle of the
list forgets `new_block->next->prev` (`mem.c:168`); with a `Killable` that has
every task but the console `Dispatched` fails, since `sched()` skips the process
that ran last (`mtask.c:214`) and never chooses the only runnable one; with two
descriptors and no constraint `Disjoint` fails, since a full block table
gives a NULL block, which is linked as the end of the list (`mem.c:194`); with
`MaxInWindow = 2` `NothingLost` fails, since two bytes that arrive while the
reader is preempted between the two stores of `head` empty a full queue
(`queue.c:43`); without `stale` in `CoherentUntilStale` it fails, since
`map_memory_4k` never invalidates a translation the CPU has cached: what is
written to a page that was freed and cut again goes to the old frame and is gone
when the CPU evicts the translation (`mem.c:89`).

In the console, `flaw` marks a line that does not fit `line[]` ("overflow",
`console.c:30`), bytes that came in with the carriage return before them, which
`console_clear_line` throws away ("ahead", `console.c:40`), arguments longer, or
more, than `args[16][16]` has room for, which `parse_command` stores without a
bound in the caller's stack ("args", `console.c:201`, `console.c:196`; the model
stops there), and a line feed left
at the start of a line, where `parse_command` ends ("linefeed",
`console.c:188`). The system call handler prints with interrupts off, so bytes
typed meanwhile overwrite each other in the UART (`intr.c:134`, `noisy`).

In the floppy driver `Recalibrations` has an outcome, a failed equipment check,
that `fdc_cmd_recalibrate` takes for success, since it tests bits 2 and 3 of ST0
and not EC and IC (`fdc.c:120`). `task_fdc`
ignores what `init_fdc` and the reads return (`main.c:130`, `fdc.c:88`), so a
sector whose read failed gets the contents of the one before. The comment on
`dma_clear_all_mask` (`dma.c:62`) says that it masks every channel; the register
it writes clears the masks.

In the interrupt entry, the end of interrupt for a line of the slave would be the
command `0x60 % 7` for the slave and that of line 4 for the master (`intr.c:98`);
both slave and lines are masked. The generated stubs take `0x11`, `0x15`, `0x1d` and
`0x1e` for vectors without an error code (`interrupt.py:14`), so their handler reads
every field of the frame above the code a word off: with `Exceptions = {17}` in
`Interrupts.cfg` `FrameRead` fails. None of the four occurs: the kernel loads CR0
without AM (`boot.s:83`, `asmlib.s:138`) and never CR4. `int_handler` ends an
exception in a loop with interrupts off (`intr.c:218`), so it stops the kernel.
Gates have privilege level 0, so the ring 3 task cannot execute `int 0x80`
(`intr.c:91`).

In FAT12, no 12 bit entry reaches `FAT12_EOC` (`fat12.c:204`, `237`, `294`), so
nothing stops at the end of a chain: `AtEnd` is never true, a read past the end
goes on with whatever the end mark and the bytes behind the table name, and
`count_cluster_link` runs on in the same way. A read from inside a sector copies
as many bytes from the sector's start as the offset lies behind it (`219`), stays
on that cluster (`226`), and wraps `size` around if it is smaller (`223`);
`ReadsFile` and `WritesWithin` are stated up to that. The test for a deleted entry
compares a signed `char` with `0xE5` (`61`) and never holds. `find_free_cluster`
counts the sectors of the whole disk (`253`), so a full disk yields a cluster that
does not exist. `sectors_per_cluster` is ignored by everything that reads.

In the memory map, the table of frames needs 6 MB from `0x901000` and has them up
to `0xF00000` only, and the block table (`0xA01000`) and the floppy buffer
(`0xB01000`) are mapped over it: the entry of frame 87,381, at 341 MB of memory
given out, is the first that lies under one of them, which `KernelReachable` and
`MapKept` exclude by `ScanPages`. The window on the page tables starts at the
directory and ends one table early, so the table at `0x900000`, for the last 4 MB
of the address space, is not mapped, against the comment in `mem.c:317`; nothing
uses it.

Further ones: `proc_alloc` returns the last slot of a full table (`mtask.c:38`),
in the model as its second disjunct, and that slot's stack then leaks; `q8_free`
passes an interior address, so each `sleep` leaks a block (`queue.c:15`, the
model's `NotFound`); no frame is ever given back (`mem.c:231`), so frames run out
and `pmalloc_4k_page`'s NULL is dereferenced (`mem.c:178`, `Mapping`'s last
argument); a request that does not fit recurses without end (`mem.c:228`,
`Retry`); the ring has one index more than the buffer has bytes (`queue.c:7`,
`queue.c:19`); `sleep(0)` never returns (`timer.c:83`), which is why `Wakes`
asks for at least a tick; the comment on ONESHOT in `timer.h:44` says the
opposite of `timer.c:85`; `main.c:50` calls the PIT's 10 ms 1 ms.

## 6. Proofs

All are for arbitrary values of the constants. `tlapm` checks them with Z3,
Zenon and LS4.

* `Mtask_proofs`: `TypeCorrect`. `MtaskSafe` (`ContextIntact`, `StackOwned`,
  `OneRunning`) and `MtaskImplementsTaskSet`, both under `WindowClosed`: either
  no tick strikes in `ktask_exit`'s window or no task ends itself. The
  inductive invariant `IInv` adds where a context may lie (its own stack, or
  `Esp0` for the one ring 3 task), that the executing process is RUNNING until
  `ktask_exit`, that the slot a console command is filling is neither the
  console's nor the scheduler's, and that the flag is off in the window. Without
  the first two, overwriting one process's context by another's push could not
  be excluded. `MtaskSteps` (`NoStackLeak`, `NoResurrection`,
  `SpawnFresh`) goes through the same actions once more, with `IInv` before the
  step.
* `Heap_proofs`, the heap: `TypeCorrect`, for overlapping calls too. `HeapSound`
  (`Sound`, `SoundTiled`, `SoundBacked`) for calls that do not overlap (`Preempt =
  FALSE`). The list is never followed in the proof: `HeapInv` speaks of each block
  and its two neighbours (`Linked`), of pairs of blocks (`Apart`), of pages
  (`Covered`), of holders (`Owned`), of what a task has found out so far (`Cursors`)
  and of frames (`Mapped`); one lemma each shows that a cut and a join preserve it.
  `HeapTidy` (`SoundLeak`, `SoundCoalesced`, `RecursesOnlyFull`) adds `Tracked`,
  every ALLOC block has a holder or was freed by an interior address; `Searches`, a
  walk has passed over no block that it looks for, on which both `SoundLeak` (a
  `vfree` of a block's start never reaches the end of the list) and
  `RecursesOnlyFull` rest; and `Joined`, two neighbours are both free only between
  the two joins of a `vfree`, and then one of them is the block it frees.
* `Queue8_proofs`: `QueueSafe` (`TypeOK`, `NothingLost`) and
  `QueueImplementsFifo`, while at most one byte arrives between the stores of
  `head` (`MaxInWindow <= 1`). `RingInv` keeps the free slot the reader gave up
  and the byte it read.
* `Timer_proofs`: `TimerSafe` (`TypeOK`, `NeverEarly`, `OnTime`,
  `SchedulerTicks`) for any number of sleepers and any intervals. `TimerInv`
  says that the scheduler's timer stays first and never waits, how far each
  `timer_reset` is, and that a tick that counts is a tick that passed.
* `Heap_proofs`, paging: `PagingSafe` (`PTypeOK`, `Exclusive`, `CoherentUntilStale`)
  for any number of frames, pages and callers whose calls do not overlap. `Backing`
  says that every frame a page names, now or through an old translation, is taken,
  and by that page alone; `Agrees` that a page that was never remapped under a
  translation has none but its entry. `HeldPagesStay` (`HeldKeepsFrame`) rests on
  `HeapInv`: the block that is cut is free, and blocks lie apart.
* `Heap_proofs`, the memory map: `KernelFound` (`KernelReachable`) and `MapStays`
  (`MapKept`) for any heap pages, cut in any order, up to `MostCuts` times. The
  invariant `KInv` says by loop how many frames were handed out (`Counted`), where
  the areas of `config.h` are mapped (`Moved`, `Identity`) and what is still
  unmapped (`Unmapped`), each as a range of pages, so that no proof step enumerates
  the 16,384 entries. `MostCuts` is 78,162: 87,380 entries of the frame table fit in
  front of the block table, and the boot takes 9,218 frames. `LimitIsExact` shows
  that with one more the kernel does read its block table as frame entries, so the
  hypothesis is the code's limit (section 5) and not the proof's.
* `Console_proofs`: `ConsoleSafe` (`TypeOK`, `Accounted`), `EveryLineRuns`
  (`LinesRun`) and `DialogueShown` (`Transcript`) for any line, rings and number of
  keys. `CInv`: `Exclusion` relates the interrupt flag to who prints,
  `Listening` says that nothing waits in the UART while somebody waits for the
  transmitter, and `Terminated` keeps a terminator behind the scan, without
  which `c` could leave the line. `DInv` adds that `line[]` holds the bytes got
  since the last line was run, and that `ran` are the lines ended before them
  (`LineHolds`), that the scan
  passed no end of line (`ScanHolds`), and that what was sent, is being sent and
  waits in the ring is the dialogue up to the bytes scanned (`ShownHolds`).
  `Session` is a recursive function: the prefixes on which it has a property are a
  set, and that set is all of them since the least number outside would have a
  predecessor inside (`Least`, `Up`, from the library's well-foundedness of the
  naturals).
* `Fdc_proofs`: `Synchronised` (`InSync`), `OwnInterrupt` (`FlagForThisCommand`) and
  `ImageIsDisk` (`Image`) for a disk of any geometry, any outcome of each command,
  and with or without a controller. `Program` has 76 places, the same
  for each sector (`Listing`), and `IInv` says what holds at each: which phase the
  controller is in and which bytes of the command it has (`Turn`), that only in and
  just after the driver's waits it can execute or IRQ6 be pending (`Waiting`, `Woken`,
  `Quiet`), how many interrupts are to be sensed (`Sensing`), what the answers of
  the recalibrations were (`Success`), which motor runs (`Motors`), which halves of
  the DMA registers are written (`Channel`), and which sectors are copied
  (`Copied`). `ImageIsDisk` assumes that the 16 bits of `phy_addr` can name the
  buffer (`LowBuffer`), as `FD_BUFFER_P`, 0 in `config.h`, does; for a higher buffer
  the DMA would write elsewhere.
* `Interrupts_proofs`: `NoLineLeftInService` (`NoneInService`),
  `TasksKeepTheirContext` (`ContextKept`) and `HandlersReadTheirFrame` (`FrameRead`)
  for any kernel tasks, at most one ring 3 task, any devices and exceptions, the
  third theorem for exceptions outside `Unlisted` only, for which it would be false;
  the first two hold with them as well, as a task that meets one never goes on
  (`HaltInv`). `IInv` follows the words: a waiting task's stack is its frame under
  the five words of `context_switch` (`Waits`), a handler's is the frame alone
  (`HasFrame`), the scheduler's what it pushed (`SchedWaits`), and a ring 3 task has
  nothing on the other of its two stacks (`On`). `BootInv` is what `init_pic` and
  the gates have set up by each statement of `Main()`, `ServiceInv` that the line in
  service is the one whose end of interrupt the handler still has to send. A second
  ring 3 task would share `esp0`'s stack: the proof uses that there is none.
* `Fat12_proofs`: `EntryUnpacked`, that `get_fat12_entry` reads what a formatter
  packed, for every entry of the table; `ReadCorrect` (`WritesWithin`,
  `ReadsFile`) for any geometry, file, bad clusters, end marks and calls. The
  table names the file's next cluster for each but the last (`DiskInv`, from
  `EntryUnpacked`); as long as the read is inside the file, `cluster` is the file's
  (`WalkInv`, `SectorsInv`), and `buf` is the first part and the whole sectors read
  so far, which is what keeps `size` from being passed. It assumes that the root
  directory fills its sectors and that the table has an entry for each cluster and
  at most 65,536 bytes, and nothing of what lies behind the table.
  `FreeFinds` (`FreeRight`) and
  `FileFound` (`FindsFile`) are about the searches: `find_free_cluster` chooses the
  least of a set of zero entries, which are what the formatter left unused
  (`FreeInv`); the count is the free clusters of the
  data area and the numbers behind it (by the cardinality of disjoint sets), and
  `strncmp` is shown to stop at the first difference or the last character, so that
  two names compare equal exactly when they are.

Only model-checked: everything with fairness (`Dispatched`,
`ImplementsFairTaskSet`, `CallReturns`, `ImplementsFairFifo`, `Wakes`, `Answered`,
`Loaded`, `Interruptible`, `Served`), which the prover does not reach, and
`ArgumentsSplit`, which compares a recursive function with the words of a line. Every
safety invariant and action property that a passing run checks is also proved.

## 7. Not modelled, and the plan

What could come next: the composition of `Mtask` with `Vmalloc`, stacks as heap
blocks and the kill of a task inside `kvmalloc`, which the races of section 5 make
unsound from its first steps; the number functions of `stdlibc.c`.

Not modelled in FAT12: `get_fat_type`, `get_max_files_in_cluster`,
`count_cluster_link`, `padding_short_filename` and a name's display form, which
nothing calls. In `stdlibc.c`: `sprintf`, `strtol`, `atoi`, `to_hex_asc` and
`printf`, which only print or read numbers typed at the console, where a wrong one
is another legal command; the memory and string functions are modelled where they
are called, by what they do. CONTINUES timers and `pfree` are used by no code.

Left out for good: `boot/` (a fixed sequence of BIOS calls), `graphic.c` and the
font (pure output), the rust stubs (disabled in the Makefile), `app/hello` (not
loaded by the kernel) and the experiments, whose allocator test says what
`BlockList` and `Disjoint` state.
