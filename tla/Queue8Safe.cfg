\* One arrival at most between the two stores of head.
SPECIFICATION FairSpec
CONSTANTS
  Byte = {0, 1}
  Zero = 0
  QSize = 2
  MaxArrivals = 9
  MaxInWindow = 1
INVARIANT NothingLost
PROPERTY ImplementsFairFifo
CHECK_DEADLOCK FALSE
