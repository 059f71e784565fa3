----------------------- MODULE AsyncKacheClient_proofs -----------------------
(***************************************************************************)
(* Proofs about AsyncKacheClient: type correctness, one home for every     *)
(* connection, and slot accounting under cancellation, for every set of    *)
(* tasks and connections and every bound.                                  *)
(***************************************************************************)
EXTENDS AsyncKacheClient, Lemmas

-----------------------------------------------------------------------------
(* Type correctness *)

\* A task that waits on a connection has one, and waits for at least one reply.
Bound ==
  /\ \A t \in Tasks : pc[t] \notin {"idle", "connecting"} => conn[t] \in Conns
  /\ \A t \in Tasks :
       pc[t] \in {"drain", "pipeline drain", "reading"} => todo[t] \in 1 .. MaxBatch

Typed == TypeOK /\ Bound

LEMMA Numbers ==
  /\ MaxConnections \in Nat \ {0} /\ MaxBatch \in Nat \ {0} /\ MaxLost \in Nat \ {0}
  /\ MaxPending \in Nat \ {0}
  /\ None \notin Conns /\ None \notin Tasks
  BY AsyncAssumption

LEMMA PCsKnown ==
  /\ {"idle", "connecting", "auth", "drain", "pipeline drain", "reading"} \subseteq PCs
  /\ 0 \in 0 .. MaxBatch
  /\ 1 .. MaxBatch \subseteq 0 .. MaxBatch
<1>1. 0 \in 0 .. MaxBatch /\ 1 .. MaxBatch \subseteq 0 .. MaxBatch
  BY Numbers
<1> QED
  BY <1>1 DEF PCs

LEMMA ConnectingFinite ==
  IsFiniteSet(Connecting) /\ Cardinality(Connecting) \in Nat
<1>1. Connecting \subseteq Tasks
  BY DEF Connecting
<1> QED
  BY <1>1, AsyncAssumption, FS_Subset, FS_CardinalityType

\* Handing out the head of the queue.
LEMMA PoolTypes ==
  ASSUME TypeOK
  PROVE  /\ Len(pool) \in Nat
         /\ pool # <<>> => Head(pool) \in Conns /\ Tail(pool) \in Seq(Conns)
         /\ pool # <<>> => Len(Tail(pool)) = Len(pool) - 1
  BY LenProperties, HeadTailProperties DEF TypeOK

\* Commands that are written, and replies that are given up.
LEMMA WireTypes ==
  ASSUME NEW w \in [Conns -> Seq(Tasks \cup {None})], NEW t \in Tasks, NEW n \in Nat,
         NEW c \in Conns
  PROVE  /\ [w EXCEPT ![c] = @ \o [i \in 1 .. n |-> t]] \in [Conns -> Seq(Tasks \cup {None})]
         /\ [d \in Conns |-> [i \in DOMAIN w[d] |-> IF w[d][i] = t THEN None ELSE w[d][i]]]
              \in [Conns -> Seq(Tasks \cup {None})]
<1>1. [i \in 1 .. n |-> t] \in Seq(Tasks \cup {None})
  OBVIOUS
<1>2. w[c] \o [i \in 1 .. n |-> t] \in Seq(Tasks \cup {None})
  BY <1>1, ConcatProperties
<1>3. ASSUME NEW d \in Conns
      PROVE  [i \in DOMAIN w[d] |-> IF w[d][i] = t THEN None ELSE w[d][i]] \in Seq(Tasks \cup {None})
  <2>1. w[d] \in Seq(Tasks \cup {None})
    OBVIOUS
  <2>2. Len(w[d]) \in Nat /\ DOMAIN w[d] = 1 .. Len(w[d])
    BY <2>1, LenProperties
  <2>3. \A i \in 1 .. Len(w[d]) : w[d][i] \in Tasks \cup {None}
    BY <2>1, <2>2
  <2> QED
    BY <2>2, <2>3
<1> QED
  BY <1>2, <1>3

\* What a task is suspended on.
LEMMA TaskTypes ==
  ASSUME Typed, NEW t \in Tasks, NEW at \in PCs, NEW c \in Conns \cup {None},
         NEW n \in 0 .. MaxBatch, Suspend(t, at, c, n),
         at \notin {"idle", "connecting"} => c \in Conns,
         at \in {"drain", "pipeline drain", "reading"} => n \in 1 .. MaxBatch
  PROVE  /\ pc' \in [Tasks -> PCs]
         /\ conn' \in [Tasks -> Conns \cup {None}]
         /\ todo' \in [Tasks -> 0 .. MaxBatch]
         /\ Bound'
<1>1. /\ pc' \in [Tasks -> PCs]
      /\ conn' \in [Tasks -> Conns \cup {None}]
      /\ todo' \in [Tasks -> 0 .. MaxBatch]
  BY DEF Suspend, Typed, TypeOK
<1>2. /\ pc'[t] = at /\ conn'[t] = c /\ todo'[t] = n
      /\ \A u \in Tasks \ {t} : pc'[u] = pc[u] /\ conn'[u] = conn[u] /\ todo'[u] = todo[u]
  BY DEF Suspend, Typed, TypeOK
<1>3. Bound'
  BY <1>2 DEF Bound, Typed
<1> QED
  BY <1>1, <1>3

LEMMA ReturnTypes ==
  ASSUME Typed, NEW t \in Tasks, Return(t)
  PROVE  /\ pc' \in [Tasks -> PCs]
         /\ conn' \in [Tasks -> Conns \cup {None}]
         /\ todo' \in [Tasks -> 0 .. MaxBatch]
         /\ Bound'
<1> QED
  BY PCsKnown, TaskTypes DEF Return

LEMMA IdleTypes ==
  ASSUME Typed, UNCHANGED task
  PROVE  /\ pc' \in [Tasks -> PCs]
         /\ conn' \in [Tasks -> Conns \cup {None}]
         /\ todo' \in [Tasks -> 0 .. MaxBatch]
         /\ Bound'
  BY DEF task, Typed, TypeOK, Bound

\* Where a task gives its replies up.
LEMMA GiveUpTypes ==
  ASSUME Typed, NEW t \in Tasks, NEW w \in [Conns -> Seq(Tasks \cup {None})],
         GiveUp(t, w), UNCHANGED <<pool, current, open, slots, pipe>>
  PROVE  Typed'
<1>1. wire' \in [Conns -> Seq(Tasks \cup {None})]
  BY WireTypes DEF GiveUp
<1> QED
  BY <1>1, ReturnTypes DEF Typed, TypeOK, GiveUp, slots

\* Where a task goes on to wait for n replies.
LEMMA SuspendTypes ==
  ASSUME Typed, NEW t \in Tasks, NEW c \in Conns, NEW n \in 1 .. MaxBatch,
         NEW at \in {"drain", "pipeline drain", "reading"},
         wire' \in [Conns -> Seq(Tasks \cup {None})], Suspend(t, at, c, n),
         UNCHANGED <<pool, current, open, slots, pipe>>
  PROVE  Typed'
<1>1. n \in 0 .. MaxBatch /\ at \in PCs
  BY PCsKnown
<1> QED
  BY <1>1, TaskTypes DEF Typed, TypeOK, slots

LEMMA WriteTypes ==
  ASSUME Typed, NEW t \in Tasks, NEW c \in Conns, NEW n \in 1 .. MaxBatch,
         UNCHANGED pipe
  PROVE  /\ Write(t, c, n) => Typed'
         /\ \A at \in {"drain", "pipeline drain"} : WriteWaits(t, c, n, at) => Typed'
<1>1. Sent(t, c, n) \in [Conns -> Seq(Tasks \cup {None})]
  BY WireTypes, Numbers DEF Sent, Typed, TypeOK
<1>2. ASSUME Write(t, c, n)
      PROVE  Typed'
  <2>1. CASE Occupied(c)
    BY <1>1, <1>2, <2>1, GiveUpTypes DEF Write
  <2>2. CASE ~Occupied(c)
    BY <1>1, <1>2, <2>2, SuspendTypes DEF Write
  <2> QED
    BY <2>1, <2>2
<1>3. ASSUME NEW at \in {"drain", "pipeline drain"}, WriteWaits(t, c, n, at)
      PROVE  Typed'
  BY <1>1, <1>3, SuspendTypes DEF WriteWaits
<1> QED
  BY <1>2, <1>3

LEMMA DrainTypes ==
  ASSUME Typed, NEW t \in Tasks, NEW c \in Conns \cup {None},
         pc[t] \in {"drain", "pipeline drain"}, ReadBehindDrain(t, c), UNCHANGED pipe
  PROVE  Typed'
<1>1. conn[t] \in Conns /\ todo[t] \in 1 .. MaxBatch /\ wire \in [Conns -> Seq(Tasks \cup {None})]
  BY DEF Typed, TypeOK, Bound
<1>2. CASE c = None \/ Occupied(c)
  BY <1>1, <1>2, GiveUpTypes DEF ReadBehindDrain
<1>3. CASE ~(c = None \/ Occupied(c))
  <2>1. c \in Conns
    BY <1>3
  <2> QED
    BY <1>1, <1>3, <2>1, SuspendTypes DEF ReadBehindDrain
<1> QED
  BY <1>2, <1>3

\* The steps of connect.
LEMMA ConnectTypes ==
  ASSUME Typed, NEW t \in Tasks, Connect(t), UNCHANGED pipe
  PROVE  Typed'
<1> USE Numbers DEF Typed, TypeOK, streams, slots
<1>1. CASE Reuse(t)
  BY <1>1, PoolTypes, IdleTypes DEF Reuse, Install
<1>2. ASSUME Suspend(t, "connecting", None, 0)
      PROVE  /\ pc' \in [Tasks -> PCs]
             /\ conn' \in [Tasks -> Conns \cup {None}]
             /\ todo' \in [Tasks -> 0 .. MaxBatch]
             /\ Bound'
  BY <1>2, PCsKnown, TaskTypes
<1>3. CASE Claim(t)
  BY <1>2, <1>3, PoolTypes DEF Claim, CountAfterStale, Stale
<1>4. CASE Exhausted(t)
  BY <1>4, PoolTypes, IdleTypes DEF Exhausted, CountAfterStale, Stale
<1>5. CASE Opened(t)
  <2>1. PICK c \in Conns \ Referenced :
          /\ open' = open \cup {c}
          /\ wire' = [wire EXCEPT ![c] = <<>>]
          /\ IF Password
               THEN Suspend(t, "auth", c, 0) /\ UNCHANGED <<current, lost>>
               ELSE (current # None => lost < MaxLost) /\ Install(c) /\ Return(t)
    BY <1>5 DEF Opened
  <2>2. wire' \in [Conns -> Seq(Tasks \cup {None})]
    BY <2>1
  <2>3. CASE Password
    BY <1>5, <2>1, <2>2, <2>3, PCsKnown, TaskTypes DEF Opened
  <2>4. CASE ~Password
    BY <1>5, <2>1, <2>2, <2>4, ReturnTypes DEF Opened, Install
  <2> QED
    BY <2>3, <2>4
<1>6. CASE OpenFails(t)
  BY <1>6, ReturnTypes DEF OpenFails
<1>7. CASE AuthAccepted(t)
  <2>1. conn[t] \in Conns
    BY <1>7 DEF AuthAccepted, Bound
  <2> QED
    BY <1>7, <2>1, ReturnTypes DEF AuthAccepted, Install
<1>8. CASE AuthRejected(t)
  BY <1>8, ReturnTypes DEF AuthRejected
<1>9. CASE ConnectRaises(t)
  BY <1>9, ReturnTypes DEF ConnectRaises
<1> QED
  BY <1>1, <1>3, <1>4, <1>5, <1>6, <1>7, <1>8, <1>9 DEF Connect

\* The steps of a command and of a batch.
LEMMA CommandTypes ==
  ASSUME Typed, NEW t \in Tasks, Command(t), UNCHANGED pipe
  PROVE  Typed'
<1>1. /\ current \in Conns \cup {None} /\ pipe[t] \in Conns \cup {None}
      /\ wire \in [Conns -> Seq(Tasks \cup {None})]
      /\ 1 \in 1 .. MaxBatch
  BY Numbers DEF Typed, TypeOK
<1>2. CASE Execute(t)
  BY <1>1, <1>2, WriteTypes DEF Execute
<1>3. CASE ExecuteWaits(t)
  BY <1>1, <1>3, WriteTypes DEF ExecuteWaits
<1>4. CASE Drained(t)
  BY <1>1, <1>4, DrainTypes DEF Drained
<1>5. CASE ExecuteBatch(t)
  BY <1>1, <1>5, WriteTypes DEF ExecuteBatch
<1>6. CASE ExecuteBatchWaits(t)
  BY <1>1, <1>6, WriteTypes DEF ExecuteBatchWaits
<1>7. CASE BatchDrained(t)
  <2>1. conn[t] \in Conns
    BY <1>7 DEF BatchDrained, Typed, Bound
  <2> QED
    BY <1>7, <2>1, DrainTypes DEF BatchDrained
<1>8. ASSUME pc[t] = "reading", wire[conn[t]] # <<>>
      PROVE  /\ conn[t] \in Conns /\ todo[t] \in 1 .. MaxBatch
             /\ [wire EXCEPT ![conn[t]] = Tail(@)] \in [Conns -> Seq(Tasks \cup {None})]
  <2>1. conn[t] \in Conns /\ todo[t] \in 1 .. MaxBatch
    BY <1>8 DEF Typed, Bound
  <2>2. Tail(wire[conn[t]]) \in Seq(Tasks \cup {None})
    BY <1>1, <1>8, <2>1, HeadTailProperties
  <2> QED
    BY <1>1, <2>1, <2>2
<1>9. CASE Reply(t)
  <2>1. CASE todo[t] = 1
    BY <1>8, <1>9, <2>1, ReturnTypes DEF Reply, Typed, TypeOK, slots
  <2>2. CASE todo[t] # 1
    <3>1. todo[t] - 1 \in 1 .. MaxBatch
      BY <1>8, <1>9, <2>2, Numbers DEF Reply
    <3> QED
      BY <1>8, <1>9, <2>2, <3>1, SuspendTypes DEF Reply
  <2> QED
    BY <2>1, <2>2
<1>10. CASE ErrorReply(t)
  BY <1>8, <1>10, GiveUpTypes DEF ErrorReply
<1>11. CASE ExecuteRaises(t)
  <2>1. conn[t] \in Conns
    BY <1>11 DEF ExecuteRaises, Typed, Bound
  <2> QED
    BY <1>1, <1>11, <2>1, GiveUpTypes DEF ExecuteRaises
<1> QED
  BY <1>2, <1>3, <1>4, <1>5, <1>6, <1>7, <1>9, <1>10, <1>11 DEF Command

\* The steps of close and disconnect_all.
LEMMA CloseTypes ==
  ASSUME Typed, NEW t \in Tasks, Close(t) \/ DisconnectAll(t), UNCHANGED pipe
  PROVE  Typed'
<1> USE Numbers DEF Typed, TypeOK
<1>1. CASE Close(t)
  <2>1. current \in Conns
    BY <1>1 DEF Close
  <2>2. CASE current \in open /\ Len(pool) < MaxConnections
    <3>1. Append(pool, current) \in Seq(Conns) /\ Len(Append(pool, current)) = Len(pool) + 1
      BY <2>1, AppendProperties
    <3>2. pool' = Append(pool, current) /\ UNCHANGED <<active, open>>
      BY <1>1, <2>2 DEF Close
    <3>3. pool' \in Seq(Conns) /\ Len(pool') <= MaxConnections
      BY <2>2, <3>1, <3>2, PoolTypes
    <3> QED
      BY <1>1, <3>2, <3>3, IdleTypes DEF Close
  <2>3. CASE ~(current \in open /\ Len(pool) < MaxConnections)
    BY <1>1, <2>3, PoolTypes, IdleTypes DEF Close
  <2> QED
    BY <2>2, <2>3
<1>2. CASE DisconnectAll(t)
  <2>1. drift' \in Nat
    BY <1>2, ConnectingFinite DEF DisconnectAll, InUse
  <2> QED
    BY <1>2, <2>1, EmptySeq, IdleTypes DEF DisconnectAll
<1> QED
  BY <1>1, <1>2

LEMMA TypeStep ==
  Typed /\ [Next]_vars => Typed'
<1> SUFFICES ASSUME Typed, [Next]_vars
             PROVE  Typed'
  OBVIOUS
<1>1. CASE UNCHANGED vars
  BY <1>1 DEF vars, Typed, TypeOK, Bound
<1>2. ASSUME NEW t \in Tasks, UNCHANGED pipe,
             Connect(t) \/ Command(t) \/ Close(t) \/ DisconnectAll(t)
      PROVE  Typed'
  BY <1>2, ConnectTypes, CommandTypes, CloseTypes
<1>3. ASSUME NEW c \in Conns, TransportLost(c), UNCHANGED pipe
      PROVE  Typed'
  BY <1>3 DEF TransportLost, Typed, TypeOK, Bound, task, slots
<1>4. ASSUME NEW t \in Tasks, MakePipeline(t) \/ DropPipeline(t)
      PROVE  Typed'
  BY <1>4 DEF MakePipeline, DropPipeline, Typed, TypeOK, Bound, streams, task, slots
<1> QED
  BY <1>1, <1>2, <1>3, <1>4 DEF Next

LEMMA TypedInvariant == Spec => []Typed
<1>1. Init => Typed
  BY EmptySeq, Numbers DEF Init, Typed, TypeOK, Bound, PCs
<1> QED
  BY <1>1, TypeStep, PTL DEF Spec

\* The pool's queue, its counter, the client's streams and what the tasks wait for
\* always have their types, and queue and counter never exceed max_connections.
THEOREM TypeCorrect == Spec => []TypeOK
<1>1. Typed => TypeOK
  BY DEF Typed
<1> QED
  BY <1>1, TypedInvariant, PTL

-----------------------------------------------------------------------------
(* One home for every connection *)

\* OneHome, and the connection a task authenticates is not yet known to anybody
\* else: no pipeline keeps it.
Homes ==
  /\ NoRepeat(pool)
  /\ current \notin Elems(pool)
  /\ \A t \in Tasks :
       pc[t] = "auth" =>
         /\ conn[t] \notin Elems(pool) \cup {current}
         /\ \A u \in Tasks : conn[u] = conn[t] => u = t
         /\ \A u \in Tasks : pipe[u] # conn[t]

LEMMA QueuedAreConns ==
  ASSUME TypeOK
  PROVE  Elems(pool) \subseteq Conns /\ None \notin Elems(pool)
<1>1. Len(pool) \in Nat /\ DOMAIN pool = 1 .. Len(pool) /\ \A i \in 1 .. Len(pool) : pool[i] \in Conns
  BY LenProperties DEF TypeOK
<1> QED
  BY <1>1, Numbers DEF Elems

\* A step after which a task waits for replies on a connection nobody is
\* authenticating, or on none.
LEMMA SuspendHomes ==
  ASSUME Typed, Homes, NEW t \in Tasks, NEW at, at # "auth", NEW c, NEW n,
         Suspend(t, at, c, n), UNCHANGED <<pool, current, pipe>>,
         \A u \in Tasks : pc[u] = "auth" => u = t \/ conn[u] # c
  PROVE  Homes'
<1>1. /\ pc'[t] = at /\ conn'[t] = c
      /\ \A u \in Tasks \ {t} : pc'[u] = pc[u] /\ conn'[u] = conn[u]
  BY DEF Suspend, Typed, TypeOK
<1> QED
  BY <1>1 DEF Homes

LEMMA ReturnHomes ==
  ASSUME Typed, Homes, NEW t \in Tasks, Return(t), UNCHANGED <<pool, current, pipe>>
  PROVE  Homes'
<1>1. \A u \in Tasks : pc[u] = "auth" => conn[u] # None
  BY Numbers DEF Typed, Bound
<1> QED
  BY <1>1, SuspendHomes DEF Return

\* Where a connection can be while others are authenticated.
LEMMA KnownIsNotAuthenticated ==
  ASSUME Homes, NEW t \in Tasks
  PROVE  /\ \A u \in Tasks : pc[u] = "auth" => conn[u] # current /\ conn[u] # pipe[t]
         /\ \A u \in Tasks : pc[u] = "auth" => u = t \/ conn[u] # conn[t]
  BY DEF Homes

LEMMA CommandHomes ==
  ASSUME Typed, Homes, NEW t \in Tasks, Command(t), UNCHANGED pipe
  PROVE  Homes'
<1> USE KnownIsNotAuthenticated, ReturnHomes, SuspendHomes DEF GiveUp
<1>1. ASSUME NEW c \in {current, pipe[t]}, NEW n, Write(t, c, n)
      PROVE  Homes'
  BY <1>1 DEF Write
<1>2. ASSUME NEW c \in {current, pipe[t]}, NEW n, NEW at, at # "auth", WriteWaits(t, c, n, at)
      PROVE  Homes'
  BY <1>2 DEF WriteWaits
<1>3. ASSUME NEW c \in {current, conn[t]}, ReadBehindDrain(t, c)
      PROVE  Homes'
  BY <1>3 DEF ReadBehindDrain
<1>4. CASE Execute(t) \/ ExecuteWaits(t) \/ ExecuteBatch(t) \/ ExecuteBatchWaits(t)
  BY <1>1, <1>2, <1>4 DEF Execute, ExecuteWaits, ExecuteBatch, ExecuteBatchWaits
<1>5. CASE Drained(t) \/ BatchDrained(t)
  BY <1>3, <1>5 DEF Drained, BatchDrained
<1>6. CASE Reply(t)
  BY <1>6 DEF Reply
<1>7. CASE ErrorReply(t) \/ ExecuteRaises(t)
  BY <1>7 DEF ErrorReply, ExecuteRaises
<1> QED
  BY <1>4, <1>5, <1>6, <1>7 DEF Command

\* What get_nowait leaves in the queue.
LEMMA PoolTail ==
  ASSUME TypeOK, Homes, pool # <<>>
  PROVE  /\ Head(pool) \in Elems(pool)
         /\ Elems(Tail(pool)) = Elems(pool) \ {Head(pool)}
         /\ NoRepeat(Tail(pool))
  BY TailElems DEF TypeOK, Homes

LEMMA ConnectHomes ==
  ASSUME Typed, Homes, NEW t \in Tasks, Connect(t), UNCHANGED pipe
  PROVE  Homes'
<1>1. TypeOK /\ Elems(pool) \subseteq Conns /\ None \notin Elems(pool)
  BY QueuedAreConns DEF Typed
<1>2. ASSUME NEW at, NEW c, NEW n, Suspend(t, at, c, n)
      PROVE  /\ pc'[t] = at /\ conn'[t] = c
             /\ \A u \in Tasks \ {t} : pc'[u] = pc[u] /\ conn'[u] = conn[u]
  BY <1>2 DEF Suspend, Typed, TypeOK
<1>3. \A u \in Tasks : pc[u] = "auth" => conn[u] \in Conns /\ conn[u] # None
  BY Numbers DEF Typed, Bound
<1>4. CASE Reuse(t)
  <2>1. current' = Head(pool) /\ pool' = Tail(pool) /\ UNCHANGED <<pc, conn>>
    BY <1>4 DEF Reuse, Install, task
  <2>2. /\ Head(pool) \in Elems(pool)
        /\ Elems(pool') = Elems(pool) \ {Head(pool)}
        /\ NoRepeat(pool')
    BY <1>1, <1>4, <2>1, PoolTail DEF Reuse
  <2> QED
    BY <2>1, <2>2 DEF Homes
<1>5. ASSUME pool' = IF Stale THEN Tail(pool) ELSE pool
      PROVE  Elems(pool') \subseteq Elems(pool) /\ NoRepeat(pool')
  BY <1>1, <1>5, PoolTail DEF Stale, Homes
<1>6. CASE Claim(t)
  <2>1. Elems(pool') \subseteq Elems(pool) /\ NoRepeat(pool') /\ UNCHANGED current
    BY <1>5, <1>6 DEF Claim
  <2>2. /\ pc'[t] = "connecting" /\ conn'[t] = None
        /\ \A u \in Tasks \ {t} : pc'[u] = pc[u] /\ conn'[u] = conn[u]
    BY <1>2, <1>6 DEF Claim
  <2> QED
    BY <1>3, <2>1, <2>2 DEF Homes
<1>7. CASE Exhausted(t)
  <2>1. Elems(pool') \subseteq Elems(pool) /\ NoRepeat(pool') /\ UNCHANGED <<current, pc, conn>>
    BY <1>5, <1>7 DEF Exhausted, task
  <2> QED
    BY <2>1 DEF Homes
<1>8. CASE Opened(t)
  <2>1. PICK c \in Conns \ Referenced :
          IF Password
            THEN Suspend(t, "auth", c, 0) /\ UNCHANGED <<current, lost>>
            ELSE (current # None => lost < MaxLost) /\ Install(c) /\ Return(t)
    BY <1>8 DEF Opened
  <2>2. /\ c # None /\ c # current /\ c \notin Elems(pool)
        /\ \A u \in Tasks : conn[u] # c /\ pipe[u] # c
    BY Numbers DEF Referenced, ToSet, Elems
  <2>3. UNCHANGED pool
    BY <1>8 DEF Opened
  <2>4. CASE Password
    <3>1. /\ pc'[t] = "auth" /\ conn'[t] = c /\ UNCHANGED current
          /\ \A u \in Tasks \ {t} : pc'[u] = pc[u] /\ conn'[u] = conn[u]
      BY <1>2, <2>1, <2>4
    <3> QED
      BY <2>2, <2>3, <3>1 DEF Homes
  <2>5. CASE ~Password
    <3>1. /\ pc'[t] = "idle" /\ conn'[t] = None /\ current' = c
          /\ \A u \in Tasks \ {t} : pc'[u] = pc[u] /\ conn'[u] = conn[u]
      BY <1>2, <2>1, <2>5 DEF Install, Return
    <3> QED
      BY <1>3, <2>2, <2>3, <3>1 DEF Homes
  <2> QED
    BY <2>4, <2>5
<1>9. CASE AuthAccepted(t)
  <2>1. /\ pc'[t] = "idle" /\ conn'[t] = None /\ current' = conn[t] /\ pc[t] = "auth"
        /\ \A u \in Tasks \ {t} : pc'[u] = pc[u] /\ conn'[u] = conn[u]
    BY <1>2, <1>9 DEF AuthAccepted, Install, Return
  <2>2. UNCHANGED pool
    BY <1>9 DEF AuthAccepted
  <2> QED
    BY <1>3, <2>1, <2>2 DEF Homes
<1>10. CASE OpenFails(t) \/ AuthRejected(t) \/ ConnectRaises(t)
  BY <1>10, ReturnHomes DEF OpenFails, AuthRejected, ConnectRaises, streams
<1> QED
  BY <1>4, <1>6, <1>7, <1>8, <1>9, <1>10 DEF Connect

LEMMA CloseHomes ==
  ASSUME Typed, Homes, NEW t \in Tasks, Close(t) \/ DisconnectAll(t), UNCHANGED pipe
  PROVE  Homes'
<1>1. TypeOK /\ Elems(pool) \subseteq Conns /\ None \notin Elems(pool)
  BY QueuedAreConns DEF Typed
<1>2. \A u \in Tasks : pc[u] = "auth" => conn[u] \in Conns /\ conn[u] # None
  BY Numbers DEF Typed, Bound
<1>3. CASE Close(t)
  <2>1. current' = None /\ UNCHANGED <<pc, conn>> /\ current \in Conns
    BY <1>1, <1>3 DEF Close, task, TypeOK
  <2>2. CASE UNCHANGED pool
    BY <1>1, <1>2, <2>1, <2>2 DEF Homes
  <2>3. CASE pool' = Append(pool, current)
    <3>1. Elems(pool') = Elems(pool) \cup {current} /\ NoRepeat(pool')
      BY <2>1, <2>3, AppendElems DEF Homes, Typed, TypeOK
    <3> QED
      BY <1>1, <1>2, <2>1, <3>1, Numbers DEF Homes
  <2> QED
    BY <1>3, <2>2, <2>3 DEF Close
<1>4. CASE DisconnectAll(t)
  <2>1. pool' = <<>> /\ UNCHANGED <<current, pc, conn>>
    BY <1>4 DEF DisconnectAll, task
  <2>2. Elems(pool') = {} /\ NoRepeat(pool')
    BY <2>1 DEF Elems, NoRepeat
  <2> QED
    BY <2>1, <2>2 DEF Homes
<1> QED
  BY <1>3, <1>4

LEMMA HomesStep ==
  Typed /\ Homes /\ [Next]_vars => Homes'
<1> SUFFICES ASSUME Typed, Homes, [Next]_vars
             PROVE  Homes'
  OBVIOUS
<1>1. CASE UNCHANGED vars
  BY <1>1 DEF vars, Homes
<1>2. ASSUME NEW t \in Tasks, UNCHANGED pipe,
             Connect(t) \/ Command(t) \/ Close(t) \/ DisconnectAll(t)
      PROVE  Homes'
  BY <1>2, ConnectHomes, CommandHomes, CloseHomes
<1>3. ASSUME NEW c \in Conns, TransportLost(c), UNCHANGED pipe
      PROVE  Homes'
  BY <1>3 DEF TransportLost, Homes, task
<1>4. ASSUME NEW t \in Tasks, MakePipeline(t) \/ DropPipeline(t)
      PROVE  Homes'
  <2>1. UNCHANGED <<pool, current, pc, conn>>
    BY <1>4 DEF MakePipeline, DropPipeline, task
  <2>2. \A u \in Tasks : pipe'[u] \in {pipe[u], current, None}
    BY <1>4 DEF MakePipeline, DropPipeline, Typed, TypeOK
  <2>3. \A u \in Tasks : pc[u] = "auth" => conn[u] # None
    BY Numbers DEF Typed, Bound
  <2> QED
    BY <2>1, <2>2, <2>3 DEF Homes
<1> QED
  BY <1>1, <1>2, <1>3, <1>4 DEF Next

LEMMA HomesInvariant == Spec => [](Typed /\ Homes)
<1>1. Init => Homes
  BY DEF Init, Homes, Elems, NoRepeat
<1> QED
  BY <1>1, TypedInvariant, HomesStep, PTL DEF Spec

\* However tasks connect, close and are cancelled, a stream pair is queued once,
\* kept by the client, or being authenticated by one task.
THEOREM OneHomeForEach == Spec => []OneHome
<1>1. Homes => OneHome
  BY DEF Homes, OneHome, NoRepeat, Elems, ToSet
<1> QED
  BY <1>1, HomesInvariant, PTL

-----------------------------------------------------------------------------
(* Counting slots *)

MakingPCs == {"connecting", "auth"}

\* What a change of pc[t] does to the number of connections being made.
LEMMA ConnectingStep ==
  ASSUME Typed, NEW t \in Tasks, NEW at, NEW c, NEW n, Suspend(t, at, c, n)
  PROVE  /\ pc[t] \in MakingPCs /\ at \in MakingPCs =>
              Cardinality(Connecting)' = Cardinality(Connecting)
         /\ pc[t] \notin MakingPCs /\ at \notin MakingPCs =>
              Cardinality(Connecting)' = Cardinality(Connecting)
         /\ pc[t] \notin MakingPCs /\ at \in MakingPCs =>
              Cardinality(Connecting)' = Cardinality(Connecting) + 1
         /\ pc[t] \in MakingPCs /\ at \notin MakingPCs =>
              Cardinality(Connecting)' = Cardinality(Connecting) - 1
<1>1. /\ pc'[t] = at
      /\ \A u \in Tasks \ {t} : pc'[u] = pc[u]
  BY DEF Suspend, Typed, TypeOK
<1>2. t \in Connecting <=> pc[t] \in MakingPCs
  BY DEF Connecting, MakingPCs
<1>3. CASE at \in MakingPCs
  <2>1. Connecting' = Connecting \cup {t}
    BY <1>1, <1>3 DEF Connecting, MakingPCs
  <2>2. Cardinality(Connecting \cup {t}) =
          IF t \in Connecting THEN Cardinality(Connecting) ELSE Cardinality(Connecting) + 1
    BY ConnectingFinite, FS_AddElement
  <2> QED
    BY <1>2, <1>3, <2>1, <2>2
<1>4. CASE at \notin MakingPCs
  <2>1. Connecting' = Connecting \ {t}
    BY <1>1, <1>4 DEF Connecting, MakingPCs
  <2>2. Cardinality(Connecting \ {t}) =
          IF t \in Connecting THEN Cardinality(Connecting) - 1 ELSE Cardinality(Connecting)
    BY ConnectingFinite, FS_RemoveElement
  <2> QED
    BY <1>2, <1>4, <2>1, <2>2
<1> QED
  BY <1>3, <1>4

\* A task that is making no connection before nor after its step.
LEMMA CommandCounts ==
  ASSUME Typed, NEW t \in Tasks, Command(t)
  PROVE  /\ Cardinality(Connecting)' = Cardinality(Connecting)
         /\ UNCHANGED <<pool, current, active, lost, drift>>
<1> DEFINE Quiet(at) == at \in {"idle", "drain", "pipeline drain", "reading"}
<1>1. ASSUME NEW at, NEW c, NEW n, Suspend(t, at, c, n), Quiet(at), Quiet(pc[t])
      PROVE  Cardinality(Connecting)' = Cardinality(Connecting)
  <2>1. at \notin MakingPCs /\ pc[t] \notin MakingPCs
    BY <1>1 DEF MakingPCs
  <2> QED
    BY <1>1, <2>1, ConnectingStep
<1>2. /\ Quiet(pc[t])
      /\ UNCHANGED <<pool, current, active, lost, drift>>
      /\ \E at, c, n : Suspend(t, at, c, n) /\ Quiet(at)
  <2>1. ASSUME NEW c, NEW n, Write(t, c, n)
        PROVE  /\ Quiet(pc[t])
               /\ UNCHANGED <<pool, current, active, lost, drift>>
               /\ \E at, d, m : Suspend(t, at, d, m) /\ Quiet(at)
    BY <2>1 DEF Write, MayWrite, GiveUp, Return, slots
  <2>2. ASSUME NEW c, NEW n, NEW at, WriteWaits(t, c, n, at), Quiet(at)
        PROVE  /\ Quiet(pc[t])
               /\ UNCHANGED <<pool, current, active, lost, drift>>
               /\ \E b, d, m : Suspend(t, b, d, m) /\ Quiet(b)
    BY <2>2 DEF WriteWaits, MayWrite, slots
  <2>3. ASSUME NEW c, ReadBehindDrain(t, c)
        PROVE  /\ UNCHANGED <<pool, current, active, lost, drift>>
               /\ \E at, d, m : Suspend(t, at, d, m) /\ Quiet(at)
    BY <2>3 DEF ReadBehindDrain, GiveUp, Return, slots
  <2>4. CASE Execute(t) \/ ExecuteBatch(t)
    BY <2>1, <2>4 DEF Execute, ExecuteBatch
  <2>5. CASE ExecuteWaits(t) \/ ExecuteBatchWaits(t)
    BY <2>2, <2>5 DEF ExecuteWaits, ExecuteBatchWaits
  <2>6. CASE Drained(t) \/ BatchDrained(t)
    BY <2>3, <2>6 DEF Drained, BatchDrained
  <2>7. CASE Reply(t) \/ ErrorReply(t) \/ ExecuteRaises(t)
    BY <2>7 DEF Reply, ErrorReply, ExecuteRaises, GiveUp, Return, slots
  <2> QED
    BY <2>4, <2>5, <2>6, <2>7 DEF Command
<1> QED
  BY <1>1, <1>2

\* Every step changes _active_count, the queue, what the tasks are making, the
\* client's connection and the lost slots by amounts that cancel out.
LEMMA AccountingStep ==
  Typed /\ SlotAccounting /\ [Next]_vars => SlotAccounting'
<1> SUFFICES ASSUME Typed, SlotAccounting, [Next]_vars
             PROVE  SlotAccounting'
  OBVIOUS
<1> DEFINE N == Cardinality(Connecting)
           K == IF current = None THEN 0 ELSE 1
<1>1. /\ active \in Int /\ lost \in Nat /\ drift \in Nat /\ N \in Nat /\ K \in {0, 1}
      /\ Len(pool) \in Nat
      /\ active + drift = Len(pool) + (N + K) + lost
  BY ConnectingFinite, PoolTypes, Numbers DEF Typed, TypeOK, SlotAccounting, InUse
<1>2. SUFFICES active' + drift' = Len(pool') + (N' + K') + lost'
  BY DEF SlotAccounting, InUse
<1>3. UNCHANGED pc => N' = N
  BY DEF Connecting
<1>4. UNCHANGED current => K' = K
  OBVIOUS
<1>5. ASSUME NEW t \in Tasks, NEW at, NEW c, NEW n, Suspend(t, at, c, n)
      PROVE  /\ pc[t] \in MakingPCs /\ at \in MakingPCs => N' = N
             /\ pc[t] \notin MakingPCs /\ at \in MakingPCs => N' = N + 1
             /\ pc[t] \in MakingPCs /\ at \notin MakingPCs => N' = N - 1
  BY <1>5, ConnectingStep
<1>6. ASSUME NEW c \in Conns, Install(c)
      PROVE  K' = 1 /\ lost' = lost + K
  <2>1. c # None /\ current' = c /\ lost' = IF current = None THEN lost ELSE lost + 1
    BY <1>6, Numbers DEF Install
  <2> QED
    BY <1>1, <2>1
<1>7. pool # <<>> => Len(Tail(pool)) = Len(pool) - 1 /\ Head(pool) \in Conns
  BY PoolTypes DEF Typed
<1> HIDE DEF N, K
<1>8. CASE UNCHANGED vars
  BY <1>1, <1>3, <1>4, <1>8 DEF vars
<1>9. ASSUME NEW t \in Tasks, Connect(t)
      PROVE  active' + drift' = Len(pool') + (N' + K') + lost'
  <2>1. CASE Reuse(t)
    <3>1. N' = N /\ K' = 1 /\ lost' = lost + K
      BY <1>3, <1>6, <1>7, <2>1 DEF Reuse, task
    <3>2. Len(pool') = Len(pool) - 1 /\ UNCHANGED <<active, drift>>
      BY <1>7, <2>1 DEF Reuse
    <3> QED
      BY <1>1, <3>1, <3>2
  <2>2. CASE Claim(t)
    <3>1. N' = N + 1
      BY <1>5, <2>2 DEF Claim, MakingPCs
    <3>2. UNCHANGED <<current, lost, drift>>
      BY <2>2 DEF Claim
    <3>3. CASE Stale
      <4>1. active' = active /\ Len(pool') = Len(pool) - 1
        BY <1>1, <1>7, <2>2, <3>3 DEF Claim, CountAfterStale, Stale
      <4> QED
        BY <1>1, <1>4, <3>1, <3>2, <4>1
    <3>4. CASE ~Stale
      <4>1. active' = active + 1 /\ pool' = pool
        BY <2>2, <3>4 DEF Claim, CountAfterStale
      <4> QED
        BY <1>1, <1>4, <3>1, <3>2, <4>1
    <3> QED
      BY <3>3, <3>4
  <2>3. CASE Exhausted(t)
    <3>1. N' = N /\ K' = K /\ UNCHANGED <<lost, drift>>
      BY <1>3, <1>4, <2>3 DEF Exhausted, task
    <3>2. CASE Stale
      <4>1. active' = active - 1 /\ Len(pool') = Len(pool) - 1
        BY <1>7, <2>3, <3>2 DEF Exhausted, CountAfterStale, Stale
      <4> QED
        BY <1>1, <3>1, <4>1
    <3>3. CASE ~Stale
      BY <1>1, <2>3, <3>1, <3>3 DEF Exhausted, CountAfterStale
    <3> QED
      BY <3>2, <3>3
  <2>4. CASE Opened(t)
    <3>1. PICK c \in Conns :
            IF Password
              THEN Suspend(t, "auth", c, 0) /\ UNCHANGED <<current, lost>>
              ELSE (current # None => lost < MaxLost) /\ Install(c) /\ Return(t)
      BY <2>4 DEF Opened
    <3>2. pc[t] \in MakingPCs /\ UNCHANGED <<pool, active, drift>>
      BY <2>4 DEF Opened, MakingPCs
    <3>3. CASE Password
      BY <1>1, <1>4, <1>5, <3>1, <3>2, <3>3 DEF MakingPCs
    <3>4. CASE ~Password
      <4>1. N' = N - 1 /\ K' = 1 /\ lost' = lost + K
        BY <1>5, <1>6, <3>1, <3>2, <3>4 DEF Return, MakingPCs
      <4> QED
        BY <1>1, <3>2, <4>1
    <3> QED
      BY <3>3, <3>4
  <2>5. CASE OpenFails(t)
    <3>1. N' = N - 1
      BY <1>5, <2>5 DEF OpenFails, Return, MakingPCs
    <3> QED
      BY <1>1, <1>4, <2>5, <3>1 DEF OpenFails
  <2>6. CASE AuthAccepted(t)
    <3>1. conn[t] \in Conns
      BY <2>6 DEF AuthAccepted, Typed, Bound
    <3>2. N' = N - 1 /\ K' = 1 /\ lost' = lost + K
      BY <1>5, <1>6, <2>6, <3>1 DEF AuthAccepted, Return, MakingPCs
    <3>3. UNCHANGED <<pool, active, drift>>
      BY <2>6 DEF AuthAccepted
    <3> QED
      BY <1>1, <3>2, <3>3
  <2>7. CASE AuthRejected(t)
    <3>1. N' = N - 1
      BY <1>5, <2>7 DEF AuthRejected, Return, MakingPCs
    <3> QED
      BY <1>1, <1>4, <2>7, <3>1 DEF AuthRejected
  <2>8. CASE ConnectRaises(t)
    <3>1. pc[t] \in MakingPCs
      BY <2>8 DEF ConnectRaises, Connecting, MakingPCs
    <3>2. N' = N - 1
      BY <1>5, <2>8, <3>1 DEF ConnectRaises, Return, MakingPCs
    <3> QED
      BY <1>1, <1>4, <2>8, <3>2 DEF ConnectRaises
  <2> QED
    BY <1>9, <2>1, <2>2, <2>3, <2>4, <2>5, <2>6, <2>7, <2>8 DEF Connect
<1>10. ASSUME NEW t \in Tasks, Command(t)
       PROVE  active' + drift' = Len(pool') + (N' + K') + lost'
  BY <1>1, <1>4, <1>10, CommandCounts DEF N
<1>11. ASSUME NEW t \in Tasks, Close(t) \/ DisconnectAll(t)
       PROVE  active' + drift' = Len(pool') + (N' + K') + lost'
  <2>1. N' = N
    BY <1>3, <1>11 DEF Close, DisconnectAll, task
  <2>2. CASE Close(t)
    <3>1. current \in Conns /\ K = 1 /\ K' = 0
      BY <2>2 DEF Close, K, Typed, TypeOK
    <3>2. Len(Append(pool, current)) = Len(pool) + 1
      BY <3>1, AppendProperties DEF Typed, TypeOK
    <3> QED
      BY <1>1, <2>1, <2>2, <3>1, <3>2 DEF Close
  <2>3. CASE DisconnectAll(t)
    <3>1. /\ active' = 0 /\ lost' = 0 /\ drift' = N + K
          /\ pool' = <<>> /\ UNCHANGED current
      BY <2>3 DEF DisconnectAll, InUse, N, K
    <3>2. Len(pool') = 0
      BY <3>1, EmptySeq
    <3> QED
      BY <1>1, <1>4, <2>1, <3>1, <3>2
  <2> QED
    BY <1>11, <2>2, <2>3
<1>12. ASSUME UNCHANGED <<pool, active, current, pc, lost, drift>>
       PROVE  active' + drift' = Len(pool') + (N' + K') + lost'
  BY <1>1, <1>3, <1>4, <1>12
<1>13. ASSUME NEW c \in Conns, TransportLost(c)
       PROVE  active' + drift' = Len(pool') + (N' + K') + lost'
  BY <1>12, <1>13 DEF TransportLost, task, slots
<1>14. ASSUME NEW t \in Tasks, MakePipeline(t) \/ DropPipeline(t)
       PROVE  active' + drift' = Len(pool') + (N' + K') + lost'
  BY <1>12, <1>14 DEF MakePipeline, DropPipeline, task, slots
<1> QED
  BY <1>2, <1>8, <1>9, <1>10, <1>11, <1>13, <1>14 DEF Next

\* Wherever connect is cancelled or fails, _active_count is the number of
\* connections queued, kept by the client or being made, plus the slots lost, minus
\* those disconnect_all forgot.
THEOREM SlotsAreAccounted == Spec => []SlotAccounting
<1>1. Init => SlotAccounting
  <2>1. ASSUME Init
        PROVE  /\ Connecting = {} /\ Len(pool) = 0 /\ current = None
               /\ active = 0 /\ lost = 0 /\ drift = 0
    BY <2>1, EmptySeq DEF Init, Connecting
  <2> QED
    BY <2>1, FS_EmptySet DEF SlotAccounting, InUse
<1> QED
  BY <1>1, TypedInvariant, AccountingStep, PTL DEF Spec
=============================================================================
