------------------------ MODULE ConnectionPool_proofs ------------------------
(***************************************************************************)
(* Proofs about ConnectionPool: type correctness, exclusive ownership,     *)
(* slot accounting and the limit on open sockets, for every set of         *)
(* threads, every max_connections and every combination of faults.         *)
(***************************************************************************)
EXTENDS ConnectionPool, Lemmas

-----------------------------------------------------------------------------
(* Type correctness *)

LEMMA ChargedFinite ==
  IsFiniteSet(Charged) /\ Cardinality(Charged) \in Nat
<1>1. Charged \subseteq Threads
  BY DEF Charged
<1> QED
  BY <1>1, ThreadsAssumption, FS_Subset, FS_CardinalityType

\* Handing out the head of the queue.
LEMMA QueueTypes ==
  ASSUME TypeOK
  PROVE  /\ Len(pool) \in Nat
         /\ pool # <<>> => Head(pool) \in Conns /\ Tail(pool) \in Seq(Conns)
         /\ pool # <<>> => Len(Tail(pool)) = Len(pool) - 1
  BY LenProperties, HeadTailProperties DEF TypeOK

\* The state a step leaves behind has the types the code gives its attributes.
LEMMA TypeStep ==
  TypeOK /\ [Next]_vars => TypeOK'
<1> SUFFICES ASSUME TypeOK, [Next]_vars
             PROVE  TypeOK'
  OBVIOUS
<1> USE DEF TypeOK, PCs, Goto, SetConn, Drop, Disconnect
<1>1. CASE UNCHANGED vars
  BY <1>1 DEF vars
<1>2. ASSUME NEW t \in Threads, GetConnection(t)
      PROVE  TypeOK'
  <2>1. CASE TakePooled(t)
    BY <2>1, QueueTypes DEF TakePooled
  <2>2. CASE FindEmpty(t)
    BY <2>2 DEF FindEmpty
  <2>3. CASE HealthPass(t)
    BY <2>3 DEF HealthPass
  <2>4. CASE HealthFail(t)
    BY <2>4 DEF HealthFail
  <2>5. CASE DiscardDec(t)
    BY <2>5 DEF DiscardDec
  <2>6. CASE Reserve(t)
    BY <2>6 DEF Reserve
  <2>7. CASE Exhausted(t)
    BY <2>7 DEF Exhausted
  <2>8. CASE Connect(t)
    BY <2>8 DEF Connect, Fresh
  <2>9. CASE ConnectRefused(t)
    BY <2>9 DEF ConnectRefused
  <2>10. CASE AuthAccept(t)
    BY <2>10 DEF AuthAccept
  <2>11. CASE AuthReject(t)
    BY <2>11 DEF AuthReject
  <2>12. CASE AuthDec(t)
    BY <2>12 DEF AuthDec
  <2>13. CASE AuthError(t)
    BY <2>13 DEF AuthError
  <2> QED
    BY <1>2, <2>1, <2>2, <2>3, <2>4, <2>5, <2>6, <2>7, <2>8, <2>9, <2>10,
       <2>11, <2>12, <2>13 DEF GetConnection
<1>3. ASSUME NEW t \in Threads, ReleaseConnection(t)
      PROVE  TypeOK'
  <2>1. CASE ReleaseToPool(t)
    <3>1. conn[t] \in Conns
      BY <2>1 DEF ReleaseToPool
    <3> QED
      BY <2>1, <3>1, AppendProperties DEF ReleaseToPool
  <2>2. CASE ReleaseClose(t)
    BY <2>2 DEF ReleaseClose
  <2>3. CASE ReleaseDec(t)
    BY <2>3 DEF ReleaseDec
  <2> QED
    BY <1>3, <2>1, <2>2, <2>3 DEF ReleaseConnection
<1>4. ASSUME NEW t \in Threads, DisconnectAll(t)
      PROVE  TypeOK'
  <2>1. CASE CallDisconnectAll(t)
    BY <2>1 DEF CallDisconnectAll
  <2>2. CASE Drain(t)
    BY <2>2, QueueTypes DEF Drain
  <2>3. CASE DrainEnd(t)
    BY <2>3 DEF DrainEnd
  <2>4. CASE Reset(t)
    <3>1. drift' \in Nat
      BY <2>4, QueueTypes, ChargedFinite DEF Reset
    <3> QED
      BY <2>4, <3>1 DEF Reset
  <2> QED
    BY <1>4, <2>1, <2>2, <2>3, <2>4 DEF DisconnectAll
<1>5. ASSUME NEW t \in Threads, Hold(t)
      PROVE  TypeOK'
  BY <1>5 DEF Hold, CommandFails, Abandon
<1> QED
  BY <1>1, <1>2, <1>3, <1>4, <1>5 DEF Next

\* The attributes of the pool always hold what their annotations promise: the
\* queue connections, _active_count an integer.
THEOREM TypeCorrect == Spec => []TypeOK
<1>1. Init => TypeOK
  BY EmptySeq DEF Init, TypeOK, PCs
<1> QED
  BY <1>1, TypeStep, PTL DEF Spec
-----------------------------------------------------------------------------
(* Where a connection can be *)

\* No socket stays open that neither the queue nor a thread refers to, and the
\* queue never holds more than max_connections.
NothingStray == open \subseteq Pooled \cup InHand /\ Len(pool) <= MaxConnections

\* The local variable `conn` is bound exactly where get_connection and its
\* caller use it, and what it is bound to has been authenticated by then.
Coherent ==
  /\ \A t \in Threads : conn[t] # NoConn <=> pc[t] \in {"health", "auth", "held"}
  /\ \A t \in Threads : pc[t] \in {"health", "auth"} => conn[t] \in open
  /\ \A t \in Threads :
       Password /\ pc[t] \in {"health", "held"} /\ conn[t] \in open => conn[t] \in authed

Places == ExclusiveOwnership /\ PooledReady /\ NothingStray /\ Coherent

\* What taking the head of the queue does to Pooled.
LEMMA PooledTail ==
  ASSUME TypeOK, Places, pool # <<>>, pool' = Tail(pool)
  PROVE  /\ Head(pool) \in Pooled
         /\ Pooled' = Pooled \ {Head(pool)}
         /\ \A i, j \in DOMAIN pool' : pool'[i] = pool'[j] => i = j
         /\ Len(pool') <= MaxConnections
<1>1. pool \in Seq(Conns) /\ NoRepeat(pool) /\ Len(pool) <= MaxConnections
  BY DEF TypeOK, Places, ExclusiveOwnership, NoRepeat, NothingStray
<1>2. Pooled = Elems(pool) /\ Pooled' = Elems(pool')
  BY DEF Pooled, Elems
<1>3. /\ Head(pool) \in Elems(pool)
      /\ Elems(Tail(pool)) = Elems(pool) \ {Head(pool)}
      /\ NoRepeat(Tail(pool))
  BY <1>1, TailElems
<1>4. Len(Tail(pool)) = Len(pool) - 1 /\ Len(pool) \in Nat
  BY QueueTypes
<1> QED
  BY <1>1, <1>2, <1>3, <1>4, MaxAssumption DEF NoRepeat

\* What put_nowait does to Pooled.
LEMMA PooledAppend ==
  ASSUME TypeOK, Places, NEW c \in Conns, c \notin Pooled,
         Len(pool) < MaxConnections, pool' = Append(pool, c)
  PROVE  /\ Pooled' = Pooled \cup {c}
         /\ \A i, j \in DOMAIN pool' : pool'[i] = pool'[j] => i = j
         /\ Len(pool') <= MaxConnections
<1>1. pool \in Seq(Conns) /\ NoRepeat(pool)
  BY DEF TypeOK, Places, ExclusiveOwnership, NoRepeat
<1>2. Pooled = Elems(pool) /\ Pooled' = Elems(pool')
  BY DEF Pooled, Elems
<1>3. Elems(Append(pool, c)) = Elems(pool) \cup {c} /\ NoRepeat(Append(pool, c))
  BY <1>1, <1>2, AppendElems
<1>4. Len(Append(pool, c)) = Len(pool) + 1 /\ Len(pool) \in Nat
  BY <1>1, AppendProperties, LenProperties
<1> QED
  BY <1>1, <1>2, <1>3, <1>4, MaxAssumption DEF NoRepeat

\* Closing the connection a thread holds and forgetting it disturbs nobody
\* else's, because nobody else has it.
LEMMA CloseKeepsPlaces ==
  ASSUME TypeOK, Places, NEW t \in Threads, NEW from, NEW to,
         Goto(t, from, to), from \in {"health", "auth", "held"},
         to \in PCs \ {"health", "auth", "held"},
         Disconnect(conn[t]), Drop(t), UNCHANGED pool
  PROVE  Places'
<1> USE DEF TypeOK, Places, ExclusiveOwnership, PooledReady, NothingStray, Coherent
<1>1. Pooled' = Pooled /\ NoConn \notin Pooled
  BY QueueTypes, ConnsAssumption DEF Pooled
<1>2. /\ pc[t] = from
      /\ pc' = [pc EXCEPT ![t] = to]
      /\ conn' = [conn EXCEPT ![t] = NoConn]
      /\ open' = open \ {conn[t]}
      /\ authed' = authed \ {conn[t]}
  BY DEF Goto, Drop, SetConn, Disconnect
<1>3. conn[t] # NoConn /\ conn[t] \notin Pooled
  BY <1>2
<1>4. \A u \in Threads \ {t} : conn'[u] = conn[u] /\ pc'[u] = pc[u] /\ conn[u] # conn[t]
  BY <1>2, <1>3
<1>5. conn'[t] = NoConn /\ pc'[t] = to
  BY <1>2
<1>6. ExclusiveOwnership'
  BY <1>1, <1>4, <1>5
<1>7. PooledReady'
  BY <1>1, <1>2, <1>3
<1>8. NothingStray'
  BY <1>1, <1>2, <1>4 DEF InHand
<1>9. Coherent'
  BY <1>2, <1>4, <1>5
<1> QED
  BY <1>6, <1>7, <1>8, <1>9

\* No step of any thread puts a connection at two places, queues one that is
\* closed or not authenticated, or leaves an open one behind.
LEMMA PlacesStep ==
  TypeOK /\ Places /\ [Next]_vars => Places'
<1> SUFFICES ASSUME TypeOK, Places, [Next]_vars
             PROVE  Places'
  OBVIOUS
<1> USE DEF TypeOK, PCs, Places, ExclusiveOwnership, PooledReady, NothingStray,
        Coherent, InHand
<1>1. ASSUME UNCHANGED pool
      PROVE  Pooled' = Pooled
  BY <1>1 DEF Pooled
<1>2. CASE UNCHANGED vars
  BY <1>1, <1>2 DEF vars
<1>3. ASSUME NEW t \in Threads, GetConnection(t)
      PROVE  Places'
  <2>1. CASE TakePooled(t)
    <3>1. /\ Head(pool) \in Pooled
          /\ Pooled' = Pooled \ {Head(pool)}
          /\ \A i, j \in DOMAIN pool' : pool'[i] = pool'[j] => i = j
          /\ Len(pool') <= MaxConnections
      BY <2>1, PooledTail DEF TakePooled
    <3>2. Head(pool) \in Conns /\ Head(pool) # NoConn
      BY <2>1, QueueTypes, ConnsAssumption DEF TakePooled
    <3>3. /\ conn' = [conn EXCEPT ![t] = Head(pool)]
          /\ pc' = [pc EXCEPT ![t] = "health"]
          /\ pc[t] = "idle"
          /\ UNCHANGED <<open, authed>>
      BY <2>1 DEF TakePooled, Goto, SetConn
    <3>4. conn[t] = NoConn /\ conn'[t] = Head(pool) /\ \A u \in Threads \ {t} : conn'[u] = conn[u]
      BY <3>3
    <3>5. ExclusiveOwnership'
      BY <3>1, <3>2, <3>4
    <3>6. PooledReady'
      BY <3>1, <3>3
    <3>7. NothingStray'
      <4>1. conn'[t] \in InHand'
        BY <3>2, <3>4
      <4>2. \A u \in Threads : conn[u] # NoConn => conn'[u] = conn[u] /\ conn[u] \in InHand'
        BY <3>4
      <4> QED
        BY <3>1, <3>3, <3>4, <4>1, <4>2
    <3>8. Coherent'
      BY <3>1, <3>2, <3>3, <3>4
    <3> QED
      BY <3>5, <3>6, <3>7, <3>8
  <2>2. CASE FindEmpty(t)
    BY <1>1, <2>2 DEF FindEmpty, Goto
  <2>3. CASE HealthPass(t)
    BY <1>1, <2>3 DEF HealthPass, Goto
  <2>4. CASE HealthFail(t)
    BY <2>4, CloseKeepsPlaces DEF HealthFail
  <2>5. CASE DiscardDec(t)
    BY <1>1, <2>5 DEF DiscardDec, Goto
  <2>6. CASE Reserve(t)
    BY <1>1, <2>6 DEF Reserve, Goto
  <2>7. CASE Exhausted(t)
    BY <1>1, <2>7 DEF Exhausted, Goto
  <2>8. CASE Connect(t)
    BY <1>1, <2>8, ConnsAssumption, PasswordAssumption DEF Connect, Goto, SetConn, Fresh
  <2>9. CASE ConnectRefused(t)
    BY <1>1, <2>9 DEF ConnectRefused, Goto
  <2>10. CASE AuthAccept(t)
    BY <1>1, <2>10 DEF AuthAccept, Goto
  <2>11. CASE AuthReject(t)
    BY <2>11, CloseKeepsPlaces DEF AuthReject
  <2>12. CASE AuthDec(t)
    BY <1>1, <2>12 DEF AuthDec, Goto
  <2>13. CASE AuthError(t)
    BY <2>13, CloseKeepsPlaces DEF AuthError
  <2> QED
    BY <1>3, <2>1, <2>2, <2>3, <2>4, <2>5, <2>6, <2>7, <2>8, <2>9, <2>10,
       <2>11, <2>12, <2>13 DEF GetConnection
<1>4. ASSUME NEW t \in Threads, ReleaseConnection(t)
      PROVE  Places'
  <2>1. CASE ReleaseToPool(t)
    <3>1. conn[t] \in Conns /\ conn[t] # NoConn /\ conn[t] \notin Pooled
      BY <2>1, ConnsAssumption DEF ReleaseToPool, Goto
    <3>2. /\ Pooled' = Pooled \cup {conn[t]}
          /\ \A i, j \in DOMAIN pool' : pool'[i] = pool'[j] => i = j
          /\ Len(pool') <= MaxConnections
      BY <2>1, <3>1, PooledAppend DEF ReleaseToPool
    <3>3. /\ conn' = [conn EXCEPT ![t] = NoConn]
          /\ pc' = [pc EXCEPT ![t] = "idle"]
          /\ pc[t] = "held"
          /\ conn[t] \in open
          /\ UNCHANGED <<open, authed>>
      BY <2>1 DEF ReleaseToPool, Goto, Drop, SetConn
    <3>4. NoConn \notin Pooled'
      BY <3>1, <3>2, <3>3, ConnsAssumption
    <3>5. ExclusiveOwnership'
      BY <3>1, <3>2, <3>3, <3>4
    <3>6. PooledReady' /\ NothingStray' /\ Coherent'
      BY <3>1, <3>2, <3>3
    <3> QED
      BY <3>5, <3>6
  <2>2. CASE ReleaseClose(t)
    BY <2>2, CloseKeepsPlaces DEF ReleaseClose
  <2>3. CASE ReleaseDec(t)
    BY <1>1, <2>3 DEF ReleaseDec, Goto
  <2> QED
    BY <1>4, <2>1, <2>2, <2>3 DEF ReleaseConnection
<1>5. ASSUME NEW t \in Threads, DisconnectAll(t)
      PROVE  Places'
  <2>1. CASE CallDisconnectAll(t)
    BY <1>1, <2>1 DEF CallDisconnectAll, Goto
  <2>2. CASE Drain(t)
    <3>1. /\ Head(pool) \in Pooled
          /\ Pooled' = Pooled \ {Head(pool)}
          /\ \A i, j \in DOMAIN pool' : pool'[i] = pool'[j] => i = j
          /\ Len(pool') <= MaxConnections
      BY <2>2, PooledTail DEF Drain
    <3>2. /\ open' = open \ {Head(pool)}
          /\ authed' = authed \ {Head(pool)}
          /\ UNCHANGED <<pc, conn>>
      BY <2>2 DEF Drain, Disconnect
    <3> QED
      BY <3>1, <3>2
  <2>3. CASE DrainEnd(t)
    BY <1>1, <2>3 DEF DrainEnd, Goto
  <2>4. CASE Reset(t)
    BY <1>1, <2>4 DEF Reset, Goto
  <2> QED
    BY <1>5, <2>1, <2>2, <2>3, <2>4 DEF DisconnectAll
<1>6. ASSUME NEW t \in Threads, Hold(t)
      PROVE  Places'
  <2>1. CASE CommandFails(t)
    BY <1>1, <2>1 DEF CommandFails, Disconnect
  <2>2. CASE Abandon(t)
    BY <2>2, CloseKeepsPlaces DEF Abandon
  <2> QED
    BY <1>6, <2>1, <2>2 DEF Hold
<1> QED
  BY <1>2, <1>3, <1>4, <1>5, <1>6 DEF Next
\* Every connection is queued once or in the hands of one thread, from the
\* first call on: no two users of the pool share a socket.
THEOREM OwnershipIsExclusive == Spec => []ExclusiveOwnership
<1>1. Init => TypeOK /\ Places
  BY EmptySeq, MaxAssumption
  DEF Init, TypeOK, PCs, Places, ExclusiveOwnership, PooledReady, NothingStray,
      Coherent, Pooled, InHand
<1>2. TypeOK /\ Places /\ [Next]_vars => (TypeOK /\ Places)'
  BY TypeStep, PlacesStep
<1>3. Places => ExclusiveOwnership
  BY DEF Places
<1> QED
  BY <1>1, <1>2, <1>3, PTL DEF Spec

\* Places is an invariant: what the later proofs start from.
LEMMA PlacesInvariant == Spec => [](TypeOK /\ Places)
<1>1. Init => TypeOK /\ Places
  BY EmptySeq, MaxAssumption
  DEF Init, TypeOK, PCs, Places, ExclusiveOwnership, PooledReady, NothingStray,
      Coherent, Pooled, InHand
<1> QED
  BY <1>1, TypeStep, PlacesStep, PTL DEF Spec

\* A connection that waits in the queue is open and authenticated.
THEOREM PooledAreReady == Spec => []PooledReady
<1>1. Places => PooledReady
  BY DEF Places
<1> QED
  BY <1>1, PlacesInvariant, PTL

-----------------------------------------------------------------------------
(* Counting slots *)

\* What a change of pc[t] does to the number of threads that own a slot.
LEMMA CountStep ==
  ASSUME TypeOK, NEW t \in Threads, NEW from, NEW to, Goto(t, from, to)
  PROVE  /\ from \in ChargedPCs /\ to \in ChargedPCs =>
              Cardinality(Charged)' = Cardinality(Charged)
         /\ from \notin ChargedPCs /\ to \notin ChargedPCs =>
              Cardinality(Charged)' = Cardinality(Charged)
         /\ from \notin ChargedPCs /\ to \in ChargedPCs =>
              Cardinality(Charged)' = Cardinality(Charged) + 1
         /\ from \in ChargedPCs /\ to \notin ChargedPCs =>
              Cardinality(Charged)' = Cardinality(Charged) - 1
<1>1. /\ pc[t] = from
      /\ pc'[t] = to
      /\ \A u \in Threads \ {t} : pc'[u] = pc[u]
  BY DEF Goto, TypeOK
<1>2. CASE to \in ChargedPCs
  <2>1. Charged' = Charged \cup {t}
    BY <1>1, <1>2 DEF Charged
  <2>2. t \in Charged <=> from \in ChargedPCs
    BY <1>1 DEF Charged
  <2>3. Cardinality(Charged \cup {t}) =
          IF t \in Charged THEN Cardinality(Charged) ELSE Cardinality(Charged) + 1
    BY ChargedFinite, FS_AddElement
  <2> QED
    BY <1>2, <2>1, <2>2, <2>3
<1>3. CASE to \notin ChargedPCs
  <2>1. Charged' = Charged \ {t}
    BY <1>1, <1>3 DEF Charged
  <2>2. t \in Charged <=> from \in ChargedPCs
    BY <1>1 DEF Charged
  <2>3. Cardinality(Charged \ {t}) =
          IF t \in Charged THEN Cardinality(Charged) - 1 ELSE Cardinality(Charged)
    BY ChargedFinite, FS_RemoveElement
  <2> QED
    BY <1>3, <2>1, <2>2, <2>3
<1> QED
  BY <1>2, <1>3

\* The steps at which the counter is below or at the limit.
Counted == SlotAccounting /\ active <= MaxConnections

\* Every step changes _active_count, the queue, the threads' steps and the
\* slots that stand for nothing by amounts that cancel out.
LEMMA CountedStep ==
  TypeOK /\ Places /\ Counted /\ [Next]_vars => Counted'
<1> SUFFICES ASSUME TypeOK, Places, Counted, [Next]_vars
             PROVE  Counted'
  OBVIOUS
<1> DEFINE N == Cardinality(Charged)
<1>1. /\ active \in Int /\ lost \in Nat /\ drift \in Nat
      /\ N \in Nat
      /\ Len(pool) \in Nat
      /\ active + drift = Len(pool) + N + lost
      /\ active <= MaxConnections
      /\ MaxConnections \in Nat \ {0}
  BY ChargedFinite, QueueTypes, MaxAssumption DEF TypeOK, Counted, SlotAccounting
<1>2. SUFFICES /\ active' + drift' = Len(pool') + N' + lost'
               /\ active' <= MaxConnections
  BY DEF Counted, SlotAccounting
<1>3. ASSUME UNCHANGED pc
      PROVE  N' = N
  BY <1>3 DEF Charged
<1> HIDE DEF N
<1>4. CASE UNCHANGED vars
  BY <1>1, <1>3, <1>4 DEF vars
<1>5. ASSUME NEW t \in Threads, GetConnection(t)
      PROVE  active' + drift' = Len(pool') + N' + lost' /\ active' <= MaxConnections
  <2>1. CASE TakePooled(t)
    <3>1. N' = N + 1
      BY <2>1, CountStep DEF TakePooled, ChargedPCs, N
    <3> QED
      BY <1>1, <2>1, <3>1, QueueTypes DEF TakePooled
  <2>2. CASE FindEmpty(t)
    <3>1. N' = N
      BY <2>2, CountStep DEF FindEmpty, ChargedPCs, N
    <3> QED
      BY <1>1, <2>2, <3>1 DEF FindEmpty
  <2>3. CASE HealthPass(t)
    <3>1. N' = N
      BY <2>3, CountStep DEF HealthPass, ChargedPCs, N
    <3> QED
      BY <1>1, <2>3, <3>1 DEF HealthPass
  <2>4. CASE HealthFail(t)
    <3>1. N' = N
      BY <2>4, CountStep DEF HealthFail, ChargedPCs, N
    <3> QED
      BY <1>1, <2>4, <3>1 DEF HealthFail
  <2>5. CASE DiscardDec(t)
    <3>1. N' = N - 1
      BY <2>5, CountStep DEF DiscardDec, ChargedPCs, N
    <3> QED
      BY <1>1, <2>5, <3>1 DEF DiscardDec
  <2>6. CASE Reserve(t)
    <3>1. N' = N + 1
      BY <2>6, CountStep DEF Reserve, ChargedPCs, N
    <3> QED
      BY <1>1, <2>6, <3>1 DEF Reserve
  <2>7. CASE Exhausted(t)
    <3>1. N' = N
      BY <2>7, CountStep DEF Exhausted, ChargedPCs, N
    <3> QED
      BY <1>1, <2>7, <3>1 DEF Exhausted
  <2>8. CASE Connect(t)
    <3>1. N' = N
      BY <2>8, CountStep DEF Connect, ChargedPCs, N
    <3> QED
      BY <1>1, <2>8, <3>1 DEF Connect
  <2>9. CASE ConnectRefused(t)
    <3>1. N' = N - 1
      BY <2>9, CountStep DEF ConnectRefused, ChargedPCs, N
    <3> QED
      BY <1>1, <2>9, <3>1 DEF ConnectRefused
  <2>10. CASE AuthAccept(t)
    <3>1. N' = N
      BY <2>10, CountStep DEF AuthAccept, ChargedPCs, N
    <3> QED
      BY <1>1, <2>10, <3>1 DEF AuthAccept
  <2>11. CASE AuthReject(t)
    <3>1. N' = N
      BY <2>11, CountStep DEF AuthReject, ChargedPCs, N
    <3> QED
      BY <1>1, <2>11, <3>1 DEF AuthReject
  <2>12. CASE AuthDec(t)
    <3>1. N' = N - 1
      BY <2>12, CountStep DEF AuthDec, ChargedPCs, N
    <3> QED
      BY <1>1, <2>12, <3>1 DEF AuthDec
  <2>13. CASE AuthError(t)
    <3>1. N' = N - 1
      BY <2>13, CountStep DEF AuthError, ChargedPCs, N
    <3> QED
      BY <1>1, <2>13, <3>1 DEF AuthError
  <2> QED
    BY <1>5, <2>1, <2>2, <2>3, <2>4, <2>5, <2>6, <2>7, <2>8, <2>9, <2>10,
       <2>11, <2>12, <2>13 DEF GetConnection
<1>6. ASSUME NEW t \in Threads, ReleaseConnection(t)
      PROVE  active' + drift' = Len(pool') + N' + lost' /\ active' <= MaxConnections
  <2>1. CASE ReleaseToPool(t)
    <3>1. N' = N - 1
      BY <2>1, CountStep DEF ReleaseToPool, ChargedPCs, N
    <3>2. conn[t] \in Conns /\ pool \in Seq(Conns)
      BY <2>1 DEF ReleaseToPool, TypeOK
    <3>3. Len(pool') = Len(pool) + 1
      BY <2>1, <3>2, AppendProperties DEF ReleaseToPool
    <3> QED
      BY <1>1, <2>1, <3>1, <3>3 DEF ReleaseToPool
  <2>2. CASE ReleaseClose(t)
    <3>1. N' = N
      BY <2>2, CountStep DEF ReleaseClose, ChargedPCs, N
    <3> QED
      BY <1>1, <2>2, <3>1 DEF ReleaseClose
  <2>3. CASE ReleaseDec(t)
    <3>1. N' = N - 1
      BY <2>3, CountStep DEF ReleaseDec, ChargedPCs, N
    <3> QED
      BY <1>1, <2>3, <3>1 DEF ReleaseDec
  <2> QED
    BY <1>6, <2>1, <2>2, <2>3 DEF ReleaseConnection
<1>7. ASSUME NEW t \in Threads, DisconnectAll(t)
      PROVE  active' + drift' = Len(pool') + N' + lost' /\ active' <= MaxConnections
  <2>1. CASE CallDisconnectAll(t)
    <3>1. N' = N
      BY <2>1, CountStep DEF CallDisconnectAll, ChargedPCs, N
    <3> QED
      BY <1>1, <2>1, <3>1 DEF CallDisconnectAll
  <2>2. CASE Drain(t)
    <3>1. N' = N
      BY <1>3, <2>2 DEF Drain
    <3> QED
      BY <1>1, <2>2, <3>1, QueueTypes DEF Drain
  <2>3. CASE DrainEnd(t)
    <3>1. N' = N
      BY <2>3, CountStep DEF DrainEnd, ChargedPCs, N
    <3> QED
      BY <1>1, <2>3, <3>1 DEF DrainEnd
  <2>4. CASE Reset(t)
    <3>1. N' = N
      BY <2>4, CountStep DEF Reset, ChargedPCs, N
    <3> QED
      BY <1>1, <2>4, <3>1 DEF Reset, N
  <2> QED
    BY <1>7, <2>1, <2>2, <2>3, <2>4 DEF DisconnectAll
<1>8. ASSUME NEW t \in Threads, Hold(t)
      PROVE  active' + drift' = Len(pool') + N' + lost' /\ active' <= MaxConnections
  <2>1. CASE CommandFails(t)
    BY <1>1, <1>3, <2>1 DEF CommandFails
  <2>2. CASE Abandon(t)
    <3>1. N' = N - 1
      BY <2>2, CountStep DEF Abandon, ChargedPCs, N
    <3> QED
      BY <1>1, <2>2, <3>1 DEF Abandon
  <2> QED
    BY <1>8, <2>1, <2>2 DEF Hold
<1> QED
  BY <1>2, <1>4, <1>5, <1>6, <1>7, <1>8 DEF Next
LEMMA CountedInvariant == Spec => [](TypeOK /\ Places /\ Counted)
<1>1. Init => Counted
  <2>1. ASSUME Init
        PROVE  Charged = {} /\ Len(pool) = 0
    BY <2>1, EmptySeq DEF Init, Charged, ChargedPCs
  <2> QED
    BY <2>1, FS_EmptySet, MaxAssumption DEF Init, Counted, SlotAccounting
<1> QED
  BY <1>1, PlacesInvariant, CountedStep, PTL DEF Spec

\* _active_count equals what exists, whatever fails and whoever closes the
\* pool, once the slots that failed calls keep (lost) and the connections that
\* disconnect_all forgets (drift) are put into the balance.
THEOREM SlotsAreAccountedFor == Spec => []SlotAccounting
<1>1. Counted => SlotAccounting
  BY DEF Counted
<1> QED
  BY <1>1, CountedInvariant, PTL

\* The threads that have a connection in hand own a slot each.
LEMMA InHandBound ==
  ASSUME TypeOK, Places, NEW T \in SUBSET Charged,
         \A t \in Threads : conn[t] # NoConn => t \in T
  PROVE  IsFiniteSet(InHand) /\ Cardinality(InHand) <= Cardinality(T)
<1> DEFINE Holders == {t \in T : conn[t] # NoConn}
           f == [t \in Holders |-> conn[t]]
<1>1. /\ IsFiniteSet(T) /\ IsFiniteSet(Holders)
      /\ Cardinality(Holders) <= Cardinality(T)
      /\ Cardinality(Holders) \in Nat /\ Cardinality(T) \in Nat
  <2>1. IsFiniteSet(T)
    BY ChargedFinite, FS_Subset
  <2> QED
    BY <2>1, FS_Subset, FS_CardinalityType
<1>2. f \in Surjection(Holders, InHand)
  BY DEF Surjection, InHand, Charged
<1>3. IsFiniteSet(InHand) /\ Cardinality(InHand) <= Cardinality(Holders)
  BY <1>1, <1>2, FS_Surjection
<1> QED
  BY <1>1, <1>3, FS_CardinalityType

\* The sockets that exist are at most the queue's places in use and the threads
\* that own one.
LEMMA ExistingBound ==
  ASSUME TypeOK, Places, NEW T \in SUBSET Charged,
         \A t \in Threads : conn[t] # NoConn => t \in T
  PROVE  /\ IsFiniteSet(Pooled \cup InHand)
         /\ Cardinality(Pooled \cup InHand) <= Len(pool) + Cardinality(T)
<1>1. IsFiniteSet(Pooled) /\ Cardinality(Pooled) <= Len(pool)
  BY ElemsBound DEF TypeOK, Pooled, Elems
<1>2. IsFiniteSet(InHand) /\ Cardinality(InHand) <= Cardinality(T)
  BY InHandBound
<1>3. /\ IsFiniteSet(Pooled \cup InHand)
      /\ Cardinality(Pooled \cup InHand) =
           Cardinality(Pooled) + Cardinality(InHand) - Cardinality(Pooled \cap InHand)
  BY <1>1, <1>2, FS_Union
<1>4. IsFiniteSet(Pooled \cap InHand) /\ IsFiniteSet(T)
  BY <1>1, ChargedFinite, FS_Subset
<1>5. /\ Cardinality(Pooled) \in Nat /\ Cardinality(InHand) \in Nat
      /\ Cardinality(Pooled \cap InHand) \in Nat /\ Cardinality(T) \in Nat
  BY <1>1, <1>2, <1>4, FS_CardinalityType
<1> QED
  BY <1>1, <1>2, <1>3, <1>5, QueueTypes

LEMMA LimitFromCounts ==
  ASSUME TypeOK, Places, Counted
  PROVE  ConnectionLimit
<1>1. \A t \in Threads : conn[t] # NoConn => t \in Charged
  BY DEF Places, Coherent, Charged, ChargedPCs
<1>2. /\ IsFiniteSet(Pooled \cup InHand)
      /\ Cardinality(Pooled \cup InHand) <= Len(pool) + Cardinality(Charged)
  BY <1>1, ExistingBound
<1>3. /\ IsFiniteSet(open)
      /\ Cardinality(open) <= Cardinality(Pooled \cup InHand)
  BY <1>2, FS_Subset DEF Places, NothingStray
<1>4. /\ Cardinality(open) \in Nat /\ Cardinality(Pooled \cup InHand) \in Nat
      /\ Cardinality(Charged) \in Nat
  BY <1>2, <1>3, ChargedFinite, FS_CardinalityType
<1>5. active + drift = Len(pool) + Cardinality(Charged) + lost /\ active <= MaxConnections
  BY DEF Counted, SlotAccounting
<1> QED
  BY <1>2, <1>3, <1>4, <1>5, QueueTypes, MaxAssumption DEF ConnectionLimit, TypeOK

\* The pool opens max_connections sockets at most, beyond the connections that
\* disconnect_all stopped counting.
THEOREM ConnectionsAreLimited == Spec => []ConnectionLimit
  BY CountedInvariant, LimitFromCounts, PTL

-----------------------------------------------------------------------------
(* A pool nobody closes *)

\* Without a thread that calls disconnect_all the counter is never zeroed.
Undisturbed ==
  Closers = {} => drift = 0 /\ \A t \in Threads : pc[t] \notin {"drain", "reset"}

LEMMA UndisturbedStep ==
  TypeOK /\ Undisturbed /\ [Next]_vars => Undisturbed'
<1> SUFFICES ASSUME TypeOK, Undisturbed, [Next]_vars, Closers = {}
             PROVE  drift' = 0 /\ \A t \in Threads : pc'[t] \notin {"drain", "reset"}
  BY DEF Undisturbed
<1> USE DEF TypeOK, Undisturbed, Goto
<1>1. CASE UNCHANGED vars
  BY <1>1 DEF vars
<1>2. ASSUME NEW t \in Threads, GetConnection(t)
      PROVE  drift' = 0 /\ \A u \in Threads : pc'[u] \notin {"drain", "reset"}
  BY <1>2 DEF GetConnection, TakePooled, FindEmpty, HealthPass, HealthFail,
       DiscardDec, Reserve, Exhausted, Connect, ConnectRefused, AuthAccept,
       AuthReject, AuthDec, AuthError
<1>3. ASSUME NEW t \in Threads, ReleaseConnection(t)
      PROVE  drift' = 0 /\ \A u \in Threads : pc'[u] \notin {"drain", "reset"}
  BY <1>3 DEF ReleaseConnection, ReleaseToPool, ReleaseClose, ReleaseDec
<1>4. ASSUME NEW t \in Threads, DisconnectAll(t)
      PROVE  FALSE
  BY <1>4 DEF DisconnectAll, CallDisconnectAll, Drain, DrainEnd, Reset
<1>5. ASSUME NEW t \in Threads, Hold(t)
      PROVE  drift' = 0 /\ \A u \in Threads : pc'[u] \notin {"drain", "reset"}
  BY <1>5 DEF Hold, CommandFails, Abandon
<1> QED
  BY <1>1, <1>2, <1>3, <1>4, <1>5 DEF Next

LEMMA UndisturbedInvariant == Spec => []Undisturbed
<1>1. Init => Undisturbed
  BY DEF Init, Undisturbed
<1> QED
  BY <1>1, UndisturbedStep, TypeCorrect, PTL DEF Spec

\* As long as nobody calls disconnect_all, max_connections is what the
\* docstring says: the maximum number of simultaneous connections.
THEOREM LimitHoldsWithoutDisconnectAll ==
  ASSUME Closers = {}
  PROVE  Spec => []DocumentedLimit
<1>1. ASSUME TypeOK, ConnectionLimit, Undisturbed
      PROVE  DocumentedLimit
  BY <1>1, MaxAssumption DEF ConnectionLimit, Undisturbed, DocumentedLimit
<1> QED
  BY <1>1, TypeCorrect, ConnectionsAreLimited, UndisturbedInvariant, PTL
-----------------------------------------------------------------------------
(* The pool implements ResourcePool *)

\* A step that changes conn[t] and the openness of conn[t] only changes what
\* thread t owns.
LEMMA OwnerChanges ==
  ASSUME TypeOK, Places, NEW t \in Threads, NEW c,
         conn' = [conn EXCEPT ![t] = c],
         \A u \in Threads \ {t} : conn[u] \in open <=> conn[u] \in open'
  PROVE  UsableConn' = [UsableConn EXCEPT ![t] = IF c \in open' THEN c ELSE NoConn]
<1>1. conn'[t] = c /\ \A u \in Threads \ {t} : conn'[u] = conn[u]
  BY DEF TypeOK
<1> QED
  BY <1>1 DEF UsableConn

LEMMA NoConnIsClosed ==
  TypeOK => NoConn \notin open
  BY ConnsAssumption DEF TypeOK

\* Closing the connection in hand and forgetting it is Destroy, or nothing
\* where a failed command had closed it before.
LEMMA CloseMaps ==
  ASSUME TypeOK, Places, NEW t \in Threads,
         Disconnect(conn[t]), Drop(t), UNCHANGED pool
  PROVE  Abstract!Destroy(t) \/ UNCHANGED Abstract!vars
<1>1. /\ conn' = [conn EXCEPT ![t] = NoConn]
      /\ open' = open \ {conn[t]}
      /\ NoConn \notin open
      /\ Pooled' = Pooled
  BY NoConnIsClosed DEF Disconnect, Drop, SetConn, Pooled
<1>2. \A u \in Threads \ {t} : conn[u] \in open <=> conn[u] \in open'
  BY <1>1 DEF Places, ExclusiveOwnership
<1>3. UsableConn' = [UsableConn EXCEPT ![t] = NoConn]
  BY <1>1, <1>2, OwnerChanges
<1>4. CASE conn[t] \in open
  BY <1>1, <1>3, <1>4 DEF Abstract!Destroy, UsableConn
<1>5. CASE conn[t] \notin open
  <2>1. UsableConn[t] = NoConn
    BY <1>5 DEF UsableConn
  <2>2. UsableConn' = UsableConn
    BY <1>3, <2>1 DEF UsableConn
  <2> QED
    BY <1>1, <2>2 DEF Abstract!vars
<1> QED
  BY <1>4, <1>5

\* A thread that is about to connect finds room: its own slot is still unused.
LEMMA RoomToConnect ==
  ASSUME TypeOK, Places, Counted, Undisturbed,
         NEW t \in Threads, pc[t] = "connect"
  PROVE  /\ IsFiniteSet(Pooled \cup InHand)
         /\ Cardinality(Pooled \cup InHand) < Capacity
<1> DEFINE Others == Charged \ {t}
<1>1. t \in Charged /\ conn[t] = NoConn
  BY DEF Charged, ChargedPCs, Places, Coherent
<1>2. \A u \in Threads : conn[u] # NoConn => u \in Others
  BY <1>1 DEF Places, Coherent, Charged, ChargedPCs
<1>3. /\ IsFiniteSet(Pooled \cup InHand)
      /\ Cardinality(Pooled \cup InHand) <= Len(pool) + Cardinality(Others)
  BY <1>2, ExistingBound
<1>4. Cardinality(Others) = Cardinality(Charged) - 1 /\ Cardinality(Charged) \in Nat
  BY <1>1, ChargedFinite, FS_RemoveElement
<1>5. Cardinality(Pooled \cup InHand) \in Nat
  BY <1>3, FS_CardinalityType
<1>6. CASE Closers = {}
  <2>1. /\ active = Len(pool) + Cardinality(Charged) + lost
        /\ active <= MaxConnections
        /\ Capacity = MaxConnections
    BY <1>6 DEF Counted, SlotAccounting, Undisturbed, Capacity, TypeOK
  <2> QED
    BY <1>3, <1>4, <1>5, <2>1, QueueTypes, MaxAssumption DEF TypeOK
<1>7. CASE Closers # {}
  <2>1. /\ Len(pool) <= MaxConnections
        /\ Capacity = MaxConnections + Cardinality(Threads)
    BY <1>7 DEF Places, NothingStray, Capacity
  <2>2. Cardinality(Charged) <= Cardinality(Threads) /\ Cardinality(Threads) \in Nat
    <3>1. Charged \subseteq Threads
      BY DEF Charged
    <3> QED
      BY <3>1, ThreadsAssumption, FS_Subset, FS_CardinalityType
  <2> QED
    BY <1>3, <1>4, <1>5, <2>1, <2>2, QueueTypes, MaxAssumption
<1> QED
  BY <1>3, <1>6, <1>7

\* The instance counts the way this module does.
LEMMA SameCardinality ==
  \A S : Abstract!Cardinality(S) = Cardinality(S)
BY DEF Abstract!Cardinality, Cardinality

LEMMA ConnectMaps ==
  ASSUME TypeOK, Places, Counted, Undisturbed, NEW t \in Threads, Connect(t)
  PROVE  Abstract!Create(t)
<1>1. PICK c \in Fresh : conn' = [conn EXCEPT ![t] = c] /\ open' = open \cup {c}
  BY DEF Connect, SetConn
<1>2. /\ pc[t] = "connect" /\ Pooled' = Pooled
      /\ conn[t] = NoConn /\ NoConn \notin open
      /\ c \in Conns \ (Pooled \cup InHand)
      /\ c # NoConn
  BY NoConnIsClosed, ConnsAssumption DEF Connect, Goto, Pooled, Places, Coherent, Fresh
<1>3. Abstract!Owned \subseteq InHand
  BY DEF Abstract!Owned, UsableConn, InHand
<1>4. Cardinality(Pooled \cup Abstract!Owned) < Capacity
  <2>1. /\ IsFiniteSet(Pooled \cup InHand)
        /\ Cardinality(Pooled \cup InHand) < Capacity
    BY <1>2, RoomToConnect
  <2>2. Pooled \cup Abstract!Owned \in SUBSET (Pooled \cup InHand)
    BY <1>3
  <2>3. /\ IsFiniteSet(Pooled \cup Abstract!Owned)
        /\ Cardinality(Pooled \cup Abstract!Owned) <= Cardinality(Pooled \cup InHand)
    BY <2>1, <2>2, FS_Subset
  <2>4. /\ Cardinality(Pooled \cup InHand) \in Nat
        /\ Cardinality(Pooled \cup Abstract!Owned) \in Nat
    BY <2>1, <2>3, FS_CardinalityType
  <2>5. Capacity \in Int
    BY MaxAssumption, ThreadsAssumption, FS_CardinalityType DEF Capacity
  <2> QED
    BY <2>1, <2>3, <2>4, <2>5
<1>5. \A u \in Threads \ {t} : conn[u] \in open <=> conn[u] \in open'
  BY <1>1, <1>2 DEF InHand
<1>6. UsableConn' = [UsableConn EXCEPT ![t] = c]
  BY <1>1, <1>5, OwnerChanges
<1>7. UsableConn[t] = NoConn
  BY <1>2 DEF UsableConn
<1>8. c \in Conns \ (Pooled \cup Abstract!Owned)
  BY <1>2, <1>3
<1> QED
  BY <1>2, <1>4, <1>6, <1>7, <1>8, SameCardinality DEF Abstract!Create

\* Every step of the pool is a step of ResourcePool or changes nothing there.
LEMMA StepMaps ==
  TypeOK /\ Places /\ Counted /\ Undisturbed /\ [Next]_vars
    => [Abstract!Next]_(Abstract!vars)
<1> SUFFICES ASSUME TypeOK, Places, Counted, Undisturbed, [Next]_vars
             PROVE  Abstract!Next \/ UNCHANGED Abstract!vars
  OBVIOUS
<1>1. ASSUME UNCHANGED <<pool, open, conn>>
      PROVE  UNCHANGED Abstract!vars
  BY <1>1 DEF Abstract!vars, Pooled, UsableConn
<1>2. CASE UNCHANGED vars
  BY <1>1, <1>2 DEF vars
<1>3. ASSUME NEW t \in Threads, GetConnection(t)
      PROVE  Abstract!Next \/ UNCHANGED Abstract!vars
  <2>1. CASE TakePooled(t)
    <3>1. /\ Head(pool) \in Pooled
          /\ Pooled' = Pooled \ {Head(pool)}
      BY <2>1, PooledTail DEF TakePooled
    <3>2. /\ conn' = [conn EXCEPT ![t] = Head(pool)]
          /\ conn[t] = NoConn /\ NoConn \notin open
          /\ open' = open /\ Head(pool) \in open
      BY <2>1, <3>1, NoConnIsClosed
      DEF TakePooled, Goto, SetConn, Places, Coherent, PooledReady
    <3>3. UsableConn' = [UsableConn EXCEPT ![t] = Head(pool)]
      BY <3>2, OwnerChanges
    <3>4. UsableConn[t] = NoConn
      BY <3>2 DEF UsableConn
    <3>5. Abstract!Take(t)
      BY <3>1, <3>3, <3>4 DEF Abstract!Take
    <3> QED
      BY <3>5 DEF Abstract!Next
  <2>2. CASE HealthFail(t) \/ AuthReject(t) \/ AuthError(t)
    <3>1. Disconnect(conn[t]) /\ Drop(t) /\ UNCHANGED pool
      BY <2>2 DEF HealthFail, AuthReject, AuthError
    <3>2. Abstract!Destroy(t) \/ UNCHANGED Abstract!vars
      BY <3>1, CloseMaps
    <3> QED
      BY <3>2 DEF Abstract!Next
  <2>3. CASE Connect(t)
    BY <2>3, ConnectMaps DEF Abstract!Next
  <2>4. CASE FindEmpty(t) \/ HealthPass(t) \/ DiscardDec(t) \/ Reserve(t) \/ Exhausted(t)
             \/ ConnectRefused(t) \/ AuthAccept(t) \/ AuthDec(t)
    BY <1>1, <2>4 DEF FindEmpty, HealthPass, DiscardDec, Reserve, Exhausted,
         ConnectRefused, AuthAccept, AuthDec
  <2> QED
    BY <1>3, <2>1, <2>2, <2>3, <2>4 DEF GetConnection
<1>4. ASSUME NEW t \in Threads, ReleaseConnection(t)
      PROVE  Abstract!Next \/ UNCHANGED Abstract!vars
  <2>1. CASE ReleaseToPool(t)
    <3>1. conn[t] \in Conns /\ conn[t] \notin Pooled /\ conn[t] # NoConn
      BY <2>1, ConnsAssumption
      DEF ReleaseToPool, TypeOK, Places, ExclusiveOwnership
    <3>2. Pooled' = Pooled \cup {conn[t]}
      BY <2>1, <3>1, PooledAppend DEF ReleaseToPool
    <3>3. /\ conn' = [conn EXCEPT ![t] = NoConn]
          /\ open' = open /\ conn[t] \in open /\ NoConn \notin open
      BY <2>1, NoConnIsClosed DEF ReleaseToPool, Drop, SetConn
    <3>4. UsableConn' = [UsableConn EXCEPT ![t] = NoConn]
      BY <3>3, OwnerChanges
    <3>5. UsableConn[t] = conn[t]
      BY <3>3 DEF UsableConn
    <3>6. Abstract!GiveBack(t)
      BY <3>1, <3>2, <3>4, <3>5 DEF Abstract!GiveBack
    <3> QED
      BY <3>6 DEF Abstract!Next
  <2>2. CASE ReleaseClose(t)
    <3>1. Abstract!Destroy(t) \/ UNCHANGED Abstract!vars
      BY <2>2, CloseMaps DEF ReleaseClose
    <3> QED
      BY <3>1 DEF Abstract!Next
  <2>3. CASE ReleaseDec(t)
    BY <1>1, <2>3 DEF ReleaseDec
  <2> QED
    BY <1>4, <2>1, <2>2, <2>3 DEF ReleaseConnection
<1>5. ASSUME NEW t \in Threads, DisconnectAll(t)
      PROVE  Abstract!Next \/ UNCHANGED Abstract!vars
  <2>1. CASE Drain(t)
    <3>1. /\ Head(pool) \in Pooled
          /\ Pooled' = Pooled \ {Head(pool)}
      BY <2>1, PooledTail DEF Drain
    <3>2. /\ open' = open \ {Head(pool)}
          /\ UNCHANGED conn
      BY <2>1 DEF Drain, Disconnect
    <3>3. UsableConn' = UsableConn
      BY <3>1, <3>2 DEF UsableConn, Places, ExclusiveOwnership
    <3>4. Abstract!Evict
      BY <3>1, <3>3 DEF Abstract!Evict
    <3> QED
      BY <3>4 DEF Abstract!Next
  <2>2. CASE CallDisconnectAll(t) \/ DrainEnd(t) \/ Reset(t)
    BY <1>1, <2>2 DEF CallDisconnectAll, DrainEnd, Reset
  <2> QED
    BY <1>5, <2>1, <2>2 DEF DisconnectAll
<1>6. ASSUME NEW t \in Threads, Hold(t)
      PROVE  Abstract!Next \/ UNCHANGED Abstract!vars
  <2>1. CASE CommandFails(t)
    <3>1. /\ open' = open \ {conn[t]}
          /\ UNCHANGED <<pool, conn>>
          /\ conn[t] \in open
          /\ NoConn \notin open
      BY <2>1, NoConnIsClosed DEF CommandFails, Disconnect
    <3>2. conn' = [conn EXCEPT ![t] = conn[t]]
      BY <3>1 DEF TypeOK
    <3>3. \A u \in Threads \ {t} : conn[u] \in open <=> conn[u] \in open'
      BY <3>1 DEF Places, ExclusiveOwnership
    <3>4. UsableConn' = [UsableConn EXCEPT ![t] = NoConn]
      BY <3>1, <3>2, <3>3, OwnerChanges
    <3>5. UsableConn[t] # NoConn /\ Pooled' = Pooled
      BY <3>1 DEF UsableConn, Pooled
    <3>6. Abstract!Destroy(t)
      BY <3>4, <3>5 DEF Abstract!Destroy
    <3> QED
      BY <3>6 DEF Abstract!Next
  <2>2. CASE Abandon(t)
    <3>1. Abstract!Destroy(t) \/ UNCHANGED Abstract!vars
      BY <2>2, CloseMaps DEF Abandon
    <3> QED
      BY <3>1 DEF Abstract!Next
  <2> QED
    BY <1>6, <2>1, <2>2 DEF Hold
<1> QED
  BY <1>2, <1>3, <1>4, <1>5, <1>6 DEF Next

\* The queue, the counter and the lock together do what a pool promises: each
\* socket is idle or one thread's, and there are max_connections at most (with
\* disconnect_all in use: as many as Capacity says).
THEOREM PoolImplementsResourcePool == Spec => ImplementsResourcePool
<1>1. Init => Abstract!Init
  <2> SUFFICES ASSUME Init
               PROVE  Pooled = {} /\ UsableConn = [u \in Threads |-> NoConn]
    BY DEF Abstract!Init
  <2>1. Pooled = {}
    BY EmptySeq DEF Init, Pooled
  <2>2. UsableConn = [u \in Threads |-> NoConn]
    BY DEF Init, UsableConn
  <2> QED
    BY <2>1, <2>2
<1> QED
  BY <1>1, StepMaps, CountedInvariant, UndisturbedInvariant, PTL
  DEF Spec, ImplementsResourcePool, Abstract!Spec
-----------------------------------------------------------------------------
(* A pool nothing fails in *)

\* The code's own paths keep no slot: only a fault or a drain does.
NothingLost ==
  Faults = {} /\ Closers = {} => lost = 0

LEMMA NothingLostStep ==
  TypeOK /\ Undisturbed /\ NothingLost /\ [Next]_vars => NothingLost'
<1> SUFFICES ASSUME TypeOK, Undisturbed, NothingLost, [Next]_vars, Faults = {}, Closers = {}
             PROVE  lost' = 0
  BY DEF NothingLost
<1>1. lost = 0
  BY DEF NothingLost
<1>2. CASE UNCHANGED vars
  BY <1>1, <1>2 DEF vars
<1>3. ASSUME NEW t \in Threads, GetConnection(t)
      PROVE  lost' = 0
  BY <1>1, <1>3 DEF GetConnection, TakePooled, FindEmpty, HealthPass, HealthFail,
       DiscardDec, Reserve, Exhausted, Connect, ConnectRefused, AuthAccept,
       AuthReject, AuthDec, AuthError
<1>4. ASSUME NEW t \in Threads, ReleaseConnection(t)
      PROVE  lost' = 0
  BY <1>1, <1>4 DEF ReleaseConnection, ReleaseToPool, ReleaseClose, ReleaseDec
<1>5. ASSUME NEW t \in Threads, DisconnectAll(t)
      PROVE  lost' = 0
  BY <1>1, <1>5 DEF DisconnectAll, CallDisconnectAll, Drain, DrainEnd, Reset, Undisturbed
<1>6. ASSUME NEW t \in Threads, Hold(t)
      PROVE  lost' = 0
  BY <1>1, <1>6 DEF Hold, CommandFails, Abandon
<1> QED
  BY <1>2, <1>3, <1>4, <1>5, <1>6 DEF Next

LEMMA NothingLostInvariant == Spec => []NothingLost
<1>1. Init => NothingLost
  BY DEF Init, NothingLost
<1> QED
  BY <1>1, NothingLostStep, TypeCorrect, UndisturbedInvariant, PTL DEF Spec

\* Where nothing fails and nobody closes the pool, no slot is ever lost: the
\* counter is the number of connections queued, in use and in the making.
THEOREM NoSlotIsLost ==
  ASSUME Faults = {}, Closers = {}
  PROVE  Spec => [](active = Len(pool) + Cardinality(Charged))
<1>1. ASSUME TypeOK, Counted, Undisturbed, NothingLost
      PROVE  active = Len(pool) + Cardinality(Charged)
  BY <1>1, QueueTypes, ChargedFinite
  DEF TypeOK, Counted, SlotAccounting, Undisturbed, NothingLost
<1> QED
  BY <1>1, CountedInvariant, UndisturbedInvariant, NothingLostInvariant, PTL

\* PoolExhaustedError is raised only when the slots are taken, whatever fails
\* and whoever closes the pool: the lock section's comparison is exact.
THEOREM RefusalsAreJustified == Spec => RefusedOnlyAtLimit
<1>1. ASSUME TypeOK, Counted, NEW t \in Threads, Exhausted(t)
      PROVE  Len(pool) + Cardinality(Charged) + lost >= MaxConnections
  <2>1. /\ active + drift = Len(pool) + Cardinality(Charged) + lost
        /\ active >= MaxConnections
        /\ active \in Int /\ drift \in Nat /\ lost \in Nat
    BY <1>1 DEF TypeOK, Counted, SlotAccounting, Exhausted
  <2> QED
    BY <2>1, QueueTypes, ChargedFinite, MaxAssumption
<1>2. TypeOK /\ Counted
        => [\A t \in Threads : Exhausted(t) =>
              Len(pool) + Cardinality(Charged) + lost >= MaxConnections]_vars
  BY <1>1
<1> QED
  BY <1>2, CountedInvariant, PTL DEF RefusedOnlyAtLimit
=============================================================================
