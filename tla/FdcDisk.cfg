\* Two cylinders of two tracks of two sectors, each read may fail.
SPECIFICATION FairSpec
CONSTANTS
  FD_CYLINDERS = 2
  FD_HEADS = 2
  FD_SECTORS = 2
  FD_SECTOR_SIZE = 512
  FD_BUFFER_P = 4660
INVARIANTS
  InSync
  FlagForThisCommand
  Image
PROPERTY Loaded
\* Without a controller task_fdc waits for ever; with one it ends in a loop.
CHECK_DEADLOCK FALSE
