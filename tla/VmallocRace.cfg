\* Two tasks inside kvmalloc at once.
SPECIFICATION Spec
CONSTANTS
  VMEM_MAX_UNITS = 4
  Extent = 4
  Task = {t1, t2}
  Sizes = {1}
  Preempt = TRUE
INVARIANT Disjoint
