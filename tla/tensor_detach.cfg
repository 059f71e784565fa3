\* A thread attaches the second core while the other one walks the dictionary.
CONSTANTS
  t1 = t1
  t2 = t2
  Threads = {t1, t2}
  Closer = t1
  Cores = {0, 1}
  Calls <- MCCalls
  Blocks <- MCBlocks
  FileUnits = 5
  Maps = {1, 2, 3, 4, 5, 6, 7}
  None = None
  MaxFiles = 2
VIEW ReachableState
SPECIFICATION Spec
INVARIANT NoneLeftClosed
