\* One task, whose command is cancelled while it waits for the reply.
CONSTANTS
  Tasks = {t1}
  Conns = {c1, c2, c3}
  None = None
  MaxConnections = 2
  Password = FALSE
  MaxBatch = 1
  MaxPending = 2
  MaxLost = 1
SPECIFICATION Spec
PROPERTY OwnReplies
