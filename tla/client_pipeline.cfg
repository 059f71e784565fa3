\* One thread reuses a pipeline after an error reply.
CONSTANTS
  Threads = {t1}
  Conns = {c1, c2, c3}
  None = None
  MaxConnections = 2
  Interrupts = FALSE
  MaxBatch = 2
  MaxPending = 2
  MaxDebt = 0
SPECIFICATION Spec
PROPERTY PipelineInOrder
