\* The first call maps less of the core than the second one asks for.
CONSTANTS
  t1 = t1
  t2 = t2
  Threads = {t1, t2}
  Closer = t1
  Cores = {0}
  Calls <- MCSizes
  Blocks <- MCBlocks
  FileUnits = 5
  Maps = {1, 2, 3, 4, 5, 6, 7}
  None = None
  MaxFiles = 1
SPECIFICATION Spec
INVARIANT SizeAsAsked
