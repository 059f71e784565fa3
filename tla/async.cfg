\* Two tasks share a client whose pool has two connections, and each may keep a
\* pipeline.  Two connections queued, one kept by the client, two in the making (or
\* opened and waiting for AUTH) and those of the two pipelines are the seven there
\* can be after a disconnect_all.
CONSTANTS
  Tasks = {t1, t2}
  Conns = {c1, c2, c3, c4, c5, c6, c7}
  None = None
  MaxConnections = 2
  Password = TRUE
  MaxBatch = 2
  MaxPending = 3
  MaxLost = 1
SYMMETRY Symmetry
VIEW View
SPECIFICATION Spec
INVARIANTS TypeOK SlotAccounting OneHome
