\* A tick may strike between ktask_exit and the next dispatch.
SPECIFICATION FairSpec
CONSTANTS
  PROCESS_COUNT = 5
  Boot <- MCBootSmall
  BootStack <- MCBootStackSmall
  Stack = {1, 2, 3, 4, 5}
  Esp0 = 0
  SpawnEntry = {"task_a", "task_syscall"}
  Killable = {0, 1, 2, 3, 4}
  MaxSpawn = 1
  ExitPreempt = TRUE
PROPERTY NoResurrection
