\* Two free slots and three spawns, so that proc_alloc() meets a full table;
\* the ring 3 task and the looping task are never killed; interrupts are kept
\* out of the exit window.
SPECIFICATION FairSpec
CONSTANTS
  PROCESS_COUNT = 6
  Boot <- MCBoot
  BootStack <- MCBootStack
  Stack = {1, 2, 3, 4, 5, 6, 7}
  Esp0 = 0
  SpawnEntry = {"task_a", "task_syscall"}
  Killable = {0, 1, 4, 5}
  MaxSpawn = 3
  ExitPreempt = FALSE
INVARIANTS
  ContextIntact
  StackOwned
PROPERTIES
  NoStackLeak
  NoResurrection
  SpawnFresh
  Dispatched
  ImplementsFairTaskSet
