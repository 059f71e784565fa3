-------------------------- MODULE MCConnectionPool --------------------------
EXTENDS ConnectionPool

CONSTANTS t1, t2, t3

OneThread == {t1}
ThreeThreads == {t1, t2, t3}
=============================================================================
