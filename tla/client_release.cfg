\* A call on the dedicated connection ends after another thread's close.
CONSTANTS
  Threads = {t1, t2}
  Conns = {c1, c2, c3}
  None = None
  MaxConnections = 2
  Interrupts = FALSE
  MaxBatch = 1
  MaxPending = 1
  MaxDebt = 1
SPECIFICATION Spec
PROPERTY ReleasesCheckoutsOnly
