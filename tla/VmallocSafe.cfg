\* Three callers whose calls do not overlap, with and without room for them
\* all; every task inside a call is scheduled again.
SPECIFICATION FairSpec
CONSTANTS
  VMEM_MAX_UNITS = 5
  Extent = 6
  Task = {t1, t2, t3}
  Sizes = {1, 2, 3}
  Preempt = FALSE
INVARIANTS
  Sound
  SoundLeak
  SoundTiled
  SoundCoalesced
  SoundBacked
PROPERTY CallReturns
CONSTRAINT BeforeDamage
