\* The addresses of config.h; the ends of the heap are cut four times.
SPECIFICATION KSpec
CONSTANTS
  HeapPages = {12288, 12289, 14336, 16383}
  MaxCuts = 4
INVARIANT KernelReachable
PROPERTY MapKept
\* The cuts are bounded.
CHECK_DEADLOCK FALSE
