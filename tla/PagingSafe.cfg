\* Two callers, with fewer frames than they ask for in the end.
SPECIFICATION PSpec
CONSTANTS
  VMEM_MAX_UNITS = 3
  Extent = 3
  Task = {t1, t2}
  Sizes = {1, 2}
  Preempt = FALSE
  PMALLOC_MAX_PAGE = 4
INVARIANTS
  Exclusive
  CoherentUntilStale
PROPERTY HeldKeepsFrame
CONSTRAINT BeforeDamage
SYMMETRY Callers
