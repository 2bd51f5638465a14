\* Two tasks sleep.
SPECIFICATION FairSpec
CONSTANTS
  Sleeper = {s1, s2}
  TaskTimer = TaskTimer
  Length = {0, 1, 2, 3}
INVARIANTS
  NeverEarly
  OnTime
PROPERTY Wakes
