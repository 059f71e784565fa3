\* Two threads do anything at any time, connect and close included; a call may be
\* interrupted.
CONSTANTS
  Threads = {t1, t2}
  Conns = {c1, c2}
  None = None
  MaxConnections = 2
  Interrupts = TRUE
  MaxBatch = 1
  MaxPending = 1
  MaxDebt = 1
SYMMETRY Symmetry
SPECIFICATION Spec
INVARIANTS OneUser CheckoutsInStep
