\* Two tasks: one connects the client again while the other one waits in drain.
CONSTANTS
  Tasks = {t1, t2}
  Conns = {c1, c2, c3}
  None = None
  MaxConnections = 2
  Password = FALSE
  MaxBatch = 1
  MaxPending = 2
  MaxLost = 1
SPECIFICATION Spec
PROPERTY ReadsWhereItWrote
