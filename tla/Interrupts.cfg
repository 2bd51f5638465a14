\* Two kernel tasks and the ring 3 task; the timer, the keyboard, which is
\* masked, COM1 and the floppy; exceptions with and without an error code.
SPECIFICATION FairSpec
CONSTANTS
  KTask = {"task_console", "task_a"}
  UTask = {"task_ring3"}
  Raised = {0, 1, 4, 6}
  Exceptions = {0, 13}
INVARIANTS
  NoneInService
  ContextKept
  FrameRead
PROPERTIES
  Interruptible
  Served
