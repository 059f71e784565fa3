\* As client_shared, without interrupts, with room for one connection more than the
\* limit, which releases in excess lead to.
CONSTANTS
  Threads = {t1, t2}
  Conns = {c1, c2, c3}
  None = None
  MaxConnections = 2
  Interrupts = FALSE
  MaxBatch = 1
  MaxPending = 1
  MaxDebt = 1
SYMMETRY Symmetry
SPECIFICATION Spec
INVARIANTS OneUser CheckoutsInStep
