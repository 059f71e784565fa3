\* Three threads and two slots; one of the threads also closes the pool; every
\* fault may happen.  Five connections are as many as can exist at once.
CONSTANTS
  t1 = t1
  t2 = t2
  t3 = t3
  Threads <- ThreeThreads
  Closers <- OneThread
  Conns = {c1, c2, c3, c4, c5}
  NoConn = NoConn
  MaxConnections = 2
  Password = TRUE
  Faults <- FaultKinds
SPECIFICATION FairSpec
INVARIANTS TypeOK ExclusiveOwnership PooledReady SlotAccounting ConnectionLimit
PROPERTIES RefusedOnlyAtLimit EveryCallReturns ImplementsResourcePool
