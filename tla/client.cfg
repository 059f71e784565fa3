\* Two threads share a client of two connections: single commands, pipelines of
\* at most three commands, `with` blocks of their own; everything may fail.
CONSTANTS
  Threads = {t1, t2}
  Conns = {c1, c2, c3}
  None = None
  MaxConnections = 2
  Interrupts = TRUE
  MaxBatch = 3
  MaxPending = 3
  MaxDebt = 0
SYMMETRY Symmetry
SPECIFICATION WithSpec
INVARIANTS TypeOK InStep
