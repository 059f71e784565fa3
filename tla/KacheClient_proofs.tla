-------------------------- MODULE KacheClient_proofs --------------------------
(***************************************************************************)
(* Proofs about KacheClient, for every set of threads and connections and  *)
(* every bound: one user for every connection that was never dedicated,    *)
(* whatever anybody does; type correctness and replies in step, where a    *)
(* `with` block has the client to itself.                                  *)
(***************************************************************************)
EXTENDS KacheClient, Lemmas

-----------------------------------------------------------------------------
(* The inductive invariant of WithSpec *)

\* What a thread's variables hold at each of its steps.
Coherent ==
  \A t \in Threads :
    /\ pc[t] \in {"idle", "closing"} => conn[t] = None /\ todo[t] = <<>>
    /\ pc[t] = "connect" => conn[t] \in Conns /\ todo[t] = <<>>
    /\ pc[t] \in {"send", "read"} => conn[t] \in Conns /\ todo[t] \in [1 .. 1 -> Kinds]
    /\ pc[t] = "finally" => conn[t] \in Conns /\ todo[t] = <<>>
    /\ pc[t] = "collect" =>
         conn[t] \in Conns /\ conn[t] = pipe[t] /\ todo[t] \in Batches

Calling == {"send", "read", "finally"}

\* A connection is in one place.  Without a dedicated connection a call's connection
\* is not the pipeline's, and the call may return it to the queue; with one nobody
\* but its opener has any.
Homes ==
  /\ NoRepeat(queue)
  /\ dedicated \notin Elems(queue)
  /\ \A t \in Threads : conn[t] \notin Elems(queue) /\ pipe[t] \notin Elems(queue)
  /\ \A t, u \in Threads :
       t # u => /\ conn[t] # None => conn[t] # conn[u] /\ conn[t] # pipe[u]
                /\ pipe[t] # None => pipe[t] # pipe[u]
  /\ dedicated = None =>
       /\ opener = None
       /\ \A t \in Threads : pc[t] \in Calling => conn[t] # pipe[t]
  /\ dedicated # None =>
       /\ opener \in Threads
       /\ \A t \in Threads :
            conn[t] \in {None, dedicated} /\ pipe[t] \in {None, dedicated}
       /\ \A t \in Threads \ {opener} : conn[t] = None /\ pipe[t] = None

Reads(t, c) == Reading(t) /\ conn[t] = c

\* The unread replies of connection c are those its one reader waits for.
Clean(c) ==
  /\ c \notin open => wire[c] = <<>>
  /\ c \in open \ tainted =>
       /\ \A t \in Threads : Reads(t, c) => wire[c] = Requests(t, todo[t])
       /\ (\A t \in Threads : ~Reads(t, c)) => wire[c] = <<>>

Held(c) ==
  \/ c \in Elems(queue)
  \/ c = dedicated
  \/ \E t \in Threads : conn[t] = c \/ pipe[t] = c

\* No open connection is lost, and every one is clean.
Streams == (\A c \in open : Held(c)) /\ \A c \in Conns : Clean(c)

\* The slots that are taken: the queue's and those of the connections in use.
Executing == {t \in Threads : pc[t] \in Calling}

Slots == IF dedicated = None THEN Cardinality(Executing) ELSE 1

Counted == active >= Len(queue) + Slots

\* Nobody is in the middle of connect or of close.
Quiet == \A t \in Threads : pc[t] \notin {"connect", "closing"}

Settled == TypeOK /\ Coherent /\ Quiet /\ Homes /\ Streams /\ Counted

\* Thread t has the client to itself.
Alone(t) ==
  /\ opener = t /\ pipe[t] = None
  /\ \A u \in Threads \ {t} : pc[u] = "idle" /\ conn[u] = None /\ pipe[u] = None

\* connect has a connection, which is not `_conn` yet.
Connecting(t) ==
  /\ TypeOK /\ Coherent /\ Alone(t) /\ pc[t] = "connect" /\ dedicated = None
  /\ NoRepeat(queue) /\ conn[t] \notin Elems(queue)
  /\ Streams
  /\ active >= Len(queue) + 1

\* close has released the connection, which still is `_conn`.
Closing(t) ==
  /\ TypeOK /\ Coherent /\ Alone(t) /\ pc[t] = "closing" /\ dedicated # None
  /\ NoRepeat(queue)
  /\ Streams
  /\ active >= Len(queue)

Inv == Settled \/ \E t \in Threads : Connecting(t) \/ Closing(t)

-----------------------------------------------------------------------------
(* Constants, queues, batches *)

LEMMA Numbers ==
  /\ MaxConnections \in Nat \ {0} /\ MaxBatch \in Nat \ {0} /\ MaxPending \in Nat \ {0}
  /\ None \notin Conns /\ None \notin Threads
  BY ClientAssumption

Reply == [by : Threads \cup {None}, kind : Kinds]

LEMMA QueueFacts ==
  ASSUME TypeOK, Homes
  PROVE  /\ queue \in Seq(Conns) /\ Len(queue) \in Nat
         /\ Elems(queue) \subseteq Conns /\ None \notin Elems(queue)
         /\ ToSet(queue) = Elems(queue)
         /\ queue # <<>> =>
              /\ Head(queue) \in Conns /\ Head(queue) \in Elems(queue)
              /\ Tail(queue) \in Seq(Conns) /\ Len(Tail(queue)) = Len(queue) - 1
              /\ Elems(Tail(queue)) = Elems(queue) \ {Head(queue)}
              /\ NoRepeat(Tail(queue))
         /\ queue = <<>> => Len(queue) = 0 /\ Elems(queue) = {}
<1>1. queue \in Seq(Conns) /\ Len(queue) \in Nat /\ DOMAIN queue = 1 .. Len(queue)
  BY LenProperties DEF TypeOK
<1>2. Elems(queue) \subseteq Conns /\ None \notin Elems(queue)
  BY <1>1, Numbers DEF Elems
<1>3. ToSet(queue) = Elems(queue)
  BY DEF ToSet, Elems
<1>4. ASSUME queue # <<>>
      PROVE  /\ Head(queue) \in Conns /\ Head(queue) \in Elems(queue)
             /\ Tail(queue) \in Seq(Conns) /\ Len(Tail(queue)) = Len(queue) - 1
             /\ Elems(Tail(queue)) = Elems(queue) \ {Head(queue)}
             /\ NoRepeat(Tail(queue))
  <2>1. Tail(queue) \in Seq(Conns) /\ Len(Tail(queue)) = Len(queue) - 1
    BY <1>1, <1>4, HeadTailProperties
  <2>2. /\ Head(queue) \in Elems(queue)
        /\ Elems(Tail(queue)) = Elems(queue) \ {Head(queue)}
        /\ NoRepeat(Tail(queue))
    BY <1>1, <1>4, TailElems DEF Homes
  <2> QED
    BY <1>2, <2>1, <2>2
<1>5. ASSUME queue = <<>>
      PROVE  Len(queue) = 0 /\ Elems(queue) = {}
  BY <1>5, EmptySeq DEF Elems
<1> QED
  BY <1>1, <1>2, <1>3, <1>4, <1>5

LEMMA UnreferencedFacts ==
  ASSUME TypeOK, Homes, NEW c \in Conns \ Referenced
  PROVE  /\ ~Held(c)
         /\ c \notin Elems(queue) /\ c # dedicated
         /\ \A t \in Threads : conn[t] # c /\ pipe[t] # c
<1>1. c # None /\ ToSet(queue) = Elems(queue)
  BY Numbers, QueueFacts
<1> QED
  BY <1>1 DEF Referenced, InUse, Held

LEMMA AppendFacts ==
  ASSUME TypeOK, Homes, NEW c \in Conns, c \notin Elems(queue)
  PROVE  /\ Append(queue, c) \in Seq(Conns) /\ Len(Append(queue, c)) = Len(queue) + 1
         /\ Elems(Append(queue, c)) = Elems(queue) \cup {c}
         /\ NoRepeat(Append(queue, c))
  BY AppendElems, AppendProperties, QueueFacts DEF Homes

LEMMA BatchFacts ==
  /\ [1 .. 1 -> Kinds] \subseteq Batches
  /\ \A kind \in Kinds : <<kind>> \in [1 .. 1 -> Kinds]
  /\ \A b \in Batches :
       /\ b \in Seq(Kinds) /\ Len(b) \in Nat \ {0} /\ b # <<>>
       /\ Len(b) # 1 => Tail(b) \in Batches
       /\ Len(b) = 1 => Tail(b) = <<>>
<1>1. [1 .. 1 -> Kinds] \subseteq Batches
  <2>1. 1 \in 1 .. MaxBatch
    BY Numbers
  <2> QED
    BY <2>1 DEF Batches
<1>2. \A kind \in Kinds : <<kind>> \in [1 .. 1 -> Kinds]
  OBVIOUS
<1>3. ASSUME NEW b \in Batches
      PROVE  /\ b \in Seq(Kinds) /\ Len(b) \in Nat \ {0} /\ b # <<>>
             /\ Len(b) # 1 => Tail(b) \in Batches
             /\ Len(b) = 1 => Tail(b) = <<>>
  <2>1. PICK n \in 1 .. MaxBatch : b \in [1 .. n -> Kinds]
    BY DEF Batches
  <2>2. n \in Nat \ {0} /\ n <= MaxBatch
    BY <2>1, Numbers
  <2>3. b \in Seq(Kinds) /\ Len(b) = n /\ DOMAIN b = 1 .. n
    BY <2>1, <2>2
  <2>4. b # <<>>
    BY <2>2, <2>3, EmptySeq
  <2>5. Tail(b) \in Seq(Kinds) /\ Len(Tail(b)) = n - 1
    BY <2>3, <2>4, HeadTailProperties
  <2>6. Tail(b) \in [1 .. n - 1 -> Kinds]
    BY <2>5, LenProperties
  <2>7. n # 1 => n - 1 \in 1 .. MaxBatch
    BY <2>2, Numbers
  <2>8. n = 1 => Tail(b) = <<>>
    <3>1. n = 1 => Len(Tail(b)) = 0
      BY <2>2, <2>5
    <3> QED
      BY <2>5, <3>1, EmptySeq
  <2> QED
    BY <2>2, <2>3, <2>4, <2>6, <2>7, <2>8 DEF Batches
<1> QED
  BY <1>1, <1>2, <1>3

LEMMA RequestFacts ==
  ASSUME NEW t \in Threads, NEW b \in Seq(Kinds)
  PROVE  /\ Requests(t, b) \in Seq(Reply) /\ Len(Requests(t, b)) = Len(b)
         /\ \A i \in 1 .. Len(b) : Requests(t, b)[i] = Request(t, b[i])
<1>1. Len(b) \in Nat /\ DOMAIN b = 1 .. Len(b) /\ \A i \in 1 .. Len(b) : b[i] \in Kinds
  BY LenProperties
<1>2. \A i \in 1 .. Len(b) : Request(t, b[i]) \in Reply
  BY <1>1 DEF Request, Reply
<1> QED
  BY <1>1, <1>2 DEF Requests

LEMMA NoRequests ==
  ASSUME NEW t \in Threads
  PROVE  Requests(t, <<>>) = <<>>
<1>1. <<>> \in Seq(Kinds) /\ Len(<<>>) = 0
  BY EmptySeq
<1>2. Requests(t, <<>>) \in Seq(Reply) /\ Len(Requests(t, <<>>)) = 0
  BY <1>1, RequestFacts
<1> QED
  BY <1>2, EmptySeq

LEMMA TailRequests ==
  ASSUME NEW t \in Threads, NEW b \in Batches
  PROVE  /\ Requests(t, b) # <<>>
         /\ Tail(Requests(t, b)) = Requests(t, Tail(b))
         /\ Head(Requests(t, b)) = Request(t, Head(b))
<1>1. b \in Seq(Kinds) /\ Len(b) \in Nat \ {0} /\ b # <<>>
  BY BatchFacts
<1>2. /\ Tail(b) \in Seq(Kinds) /\ Len(Tail(b)) = Len(b) - 1
      /\ \A i \in 1 .. Len(b) - 1 : Tail(b)[i] = b[i + 1]
  BY <1>1, HeadTailProperties
<1> DEFINE r == Requests(t, b)
<1>3. /\ r \in Seq(Reply) /\ Len(r) = Len(b)
      /\ \A i \in 1 .. Len(b) : r[i] = Request(t, b[i])
  BY <1>1, RequestFacts
<1>4. /\ Requests(t, Tail(b)) \in Seq(Reply) /\ Len(Requests(t, Tail(b))) = Len(b) - 1
      /\ \A i \in 1 .. Len(b) - 1 : Requests(t, Tail(b))[i] = Request(t, b[i + 1])
  <2>1. /\ Requests(t, Tail(b)) \in Seq(Reply) /\ Len(Requests(t, Tail(b))) = Len(Tail(b))
        /\ \A i \in 1 .. Len(Tail(b)) : Requests(t, Tail(b))[i] = Request(t, Tail(b)[i])
    BY <1>2, RequestFacts
  <2> DEFINE q == Requests(t, Tail(b))
  <2>2. /\ q \in Seq(Reply) /\ Len(q) = Len(Tail(b))
        /\ \A i \in 1 .. Len(Tail(b)) : q[i] = Request(t, Tail(b)[i])
    BY <2>1
  <2> HIDE DEF q
  <2>3. q \in Seq(Reply) /\ Len(q) = Len(b) - 1
    BY <1>2, <2>2
  <2>4. \A i \in 1 .. Len(b) - 1 : q[i] = Request(t, b[i + 1])
    <3>1. \A i \in 1 .. Len(b) - 1 : q[i] = Request(t, Tail(b)[i])
      BY <1>2, <2>2
    <3> QED
      BY <1>2, <3>1
  <2> QED
    BY <2>3, <2>4 DEF q
<1> HIDE DEF r
<1>5. r # <<>>
  BY <1>1, <1>3, EmptySeq
<1>6. /\ Tail(r) \in Seq(Reply) /\ Len(Tail(r)) = Len(b) - 1
      /\ \A i \in 1 .. Len(b) - 1 : Tail(r)[i] = r[i + 1]
  BY <1>3, <1>5, HeadTailProperties
<1>7. \A i \in 1 .. Len(b) - 1 : Tail(r)[i] = Requests(t, Tail(b))[i]
  BY <1>1, <1>3, <1>4, <1>6
<1>8. Tail(r) = Requests(t, Tail(b))
  BY <1>4, <1>6, <1>7, SeqEqual
<1>9. Head(r) = Request(t, Head(b))
  BY <1>1, <1>3, <1>5, HeadTailProperties
<1> QED
  BY <1>5, <1>8, <1>9 DEF r

-----------------------------------------------------------------------------
(* The pool's calls *)

\* What is to be typed of the pool and of the connections.
PoolTyped ==
  /\ queue \in Seq(Conns)
  /\ active \in 0 .. MaxConnections
  /\ open \subseteq Conns /\ tainted \subseteq open /\ ended \subseteq tainted
  /\ wire \in [Conns -> Seq(Reply)]

\* What is to be typed of the threads.
CallTyped ==
  /\ pc \in [Threads -> {"idle", "send", "read", "finally", "connect", "closing", "collect"}]
  /\ conn \in [Threads -> Conns \cup {None}]
  /\ todo \in [Threads -> {<<>>} \cup Batches]
  /\ pipe \in [Threads -> Conns \cup {None}]

\* What is to be typed of `_conn` and of the histories.
ModeTyped ==
  /\ dedicated \in Conns \cup {None} /\ opener \in Threads \cup {None}
  /\ lent \subseteq Conns /\ borrowed \subseteq Threads

LEMMA TypeParts ==
  TypeOK <=> PoolTyped /\ CallTyped /\ ModeTyped
  BY DEF TypeOK, PoolTyped, CallTyped, ModeTyped, Reply

\* The step leaves connection c as it was.
Same(c) ==
  /\ c \in open' <=> c \in open
  /\ c \in tainted' <=> c \in tainted
  /\ wire'[c] = wire[c]

LEMMA ClosedFacts ==
  ASSUME TypeOK, NEW c \in Conns, Closed(c)
  PROVE  /\ open' \subseteq Conns /\ tainted' \subseteq open' /\ ended' \subseteq tainted'
         /\ wire' \in [Conns -> Seq(Reply)]
         /\ c \notin open' /\ wire'[c] = <<>>
         /\ \A d \in Conns \ {c} : Same(d)
<1>1. PoolTyped
  BY TypeParts
<1>2. wire' \in [Conns -> Seq(Reply)] /\ wire'[c] = <<>>
  BY <1>1 DEF PoolTyped, Closed
<1> QED
  BY <1>1, <1>2 DEF PoolTyped, Closed, Same

\* A connection a reference to which has gone is still held, or it is closed.
LEMMA LeftFacts ==
  ASSUME TypeOK, NEW c \in Conns, NEW w \in [Conns -> Seq(Reply)],
         \A d \in Conns \ {c} : w[d] = wire[d], Left(c, w)
  PROVE  /\ open' \subseteq open /\ open' \subseteq Conns
         /\ tainted' \subseteq open' /\ ended' \subseteq tainted'
         /\ wire' \in [Conns -> Seq(Reply)]
         /\ c \in open' => Held(c)'
         /\ \/ c \notin open' /\ wire'[c] = <<>>
            \/ /\ wire'[c] = w[c]
               /\ (c \in open' <=> c \in open) /\ (c \in tainted' <=> c \in tainted)
         /\ \A d \in Conns \ {c} : Same(d)
<1>1. PoolTyped /\ c # None
  BY TypeParts, Numbers
<1>2. CASE c \in Referenced'
  <2>1. wire' = w /\ UNCHANGED <<open, ended, tainted>>
    BY <1>2 DEF Left, sock
  <2>2. Held(c)'
    BY <1>2 DEF Referenced, InUse, Held, ToSet, Elems
  <2> QED
    BY <1>1, <2>1, <2>2 DEF PoolTyped, Same
<1>3. CASE c \notin Referenced'
  <2>1. Closed(c)
    BY <1>1, <1>3 DEF Left
  <2>2. open' \subseteq open
    BY <2>1 DEF Closed
  <2> QED
    BY <2>1, <2>2, ClosedFacts
<1> QED
  BY <1>2, <1>3

\* A connection that get_connection returns is nobody else's, and what is unread on
\* it was left by somebody who gave it up.
LEMMA GetFacts ==
  ASSUME Settled, dedicated = None, NEW c \in Conns, GetConnection(c)
  PROVE  /\ PoolTyped'
         /\ NoRepeat(queue') /\ Elems(queue') \subseteq Elems(queue)
         /\ c \notin Elems(queue') /\ c # None
         /\ \A t \in Threads : c # conn[t] /\ c # pipe[t]
         /\ c \in open' /\ (c \notin tainted' => wire'[c] = <<>>)
         /\ \A d \in Conns \ {c} :
              /\ d \in open' => Same(d) /\ (d \in Elems(queue) => d \in Elems(queue'))
              /\ d \notin open' => wire'[d] = <<>>
         /\ lent' \subseteq lent
         /\ \/ queue' = queue /\ active' = active + 1
            \/ queue # <<>> /\ queue' = Tail(queue) /\ active' = active
<1>1. /\ PoolTyped /\ c # None /\ TypeOK /\ Homes
      /\ active \in Nat /\ active <= MaxConnections /\ MaxConnections \in Nat
  BY TypeParts, Numbers DEF Settled, PoolTyped
<1>2. \A d \in Conns : Clean(d) /\ (d \in open => Held(d))
  BY DEF Settled, Streams
<1>3. \A t \in Threads : conn[t] \notin Elems(queue) /\ pipe[t] \notin Elems(queue)
  BY DEF Settled, Homes
<1>4. \A d \in Elems(queue) : d \in open \ tainted => wire[d] = <<>>
  BY <1>2, <1>3, QueueFacts DEF Settled, Clean, Reads
<1>5. CASE Reused(c)
  <2>1. /\ queue # <<>> /\ c = Head(queue) /\ c \in open /\ queue' = Tail(queue)
        /\ wire' = AfterHealthCheck(c) /\ UNCHANGED <<active, open, ended, tainted, lent>>
    BY <1>5 DEF Reused, Healthy, sock
  <2>2. /\ c \in Elems(queue) /\ Elems(queue') = Elems(queue) \ {c}
        /\ NoRepeat(queue') /\ queue' \in Seq(Conns)
    BY <2>1, QueueFacts DEF Settled
  <2>3. wire' \in [Conns -> Seq(Reply)]
    <3>1. CASE wire[c] = <<>>
      BY <1>1, <2>1, <3>1 DEF AfterHealthCheck, PoolTyped
    <3>2. CASE wire[c] # <<>>
      <4>1. Tail(wire[c]) \in Seq(Reply) /\ Request(None, "PING") \in Reply
        BY <1>1, <3>2, HeadTailProperties DEF PoolTyped, Request, Reply, Kinds
      <4>2. Append(Tail(wire[c]), Request(None, "PING")) \in Seq(Reply)
        BY <4>1, AppendProperties
      <4> QED
        BY <1>1, <2>1, <3>2, <4>2 DEF AfterHealthCheck, PoolTyped
    <3> QED
      BY <3>1, <3>2
  <2>4. c \notin tainted' => wire'[c] = <<>>
    BY <1>4, <2>1, <2>2 DEF AfterHealthCheck
  <2>5. \A d \in Conns \ {c} : wire'[d] = wire[d] /\ Same(d)
    BY <1>1, <2>1 DEF AfterHealthCheck, PoolTyped, Same
  <2>6. PoolTyped'
    BY <1>1, <2>1, <2>2, <2>3 DEF PoolTyped
  <2>7. \A d \in Conns : d \notin open' => wire[d] = <<>>
    BY <1>2, <2>1 DEF Clean
  <2> QED
    BY <1>1, <1>3, <2>1, <2>2, <2>4, <2>5, <2>6, <2>7
<1>6. CASE Created(c)
  <2>1. /\ c \in Conns \ Referenced /\ queue = <<>> /\ active < MaxConnections
        /\ open' = open \cup {c} /\ active' = active + 1 /\ lent' \subseteq lent
        /\ UNCHANGED <<queue, ended, wire, tainted>>
    BY <1>6 DEF Created
  <2>2. ~Held(c) /\ \A t \in Threads : conn[t] # c /\ pipe[t] # c
    BY <1>1, <2>1, UnreferencedFacts
  <2>3. c \notin open /\ wire[c] = <<>> /\ c \notin Elems(queue)
    BY <1>2, <2>2 DEF Clean, Held
  <2>4. active' \in 0 .. MaxConnections
    BY <1>1, <2>1
  <2>5. PoolTyped'
    BY <1>1, <2>1, <2>4 DEF PoolTyped
  <2>6. \A d \in Conns \ {c} : Same(d)
    BY <2>1 DEF Same
  <2>7. \A d \in Conns : d \notin open' => wire'[d] = <<>>
    BY <1>2, <2>1 DEF Clean
  <2>8. NoRepeat(queue') /\ Elems(queue') = Elems(queue)
    BY <1>1, <2>1 DEF Homes
  <2> QED
    BY <1>1, <2>1, <2>2, <2>3, <2>5, <2>6, <2>7, <2>8
<1>7. CASE Replaced(c)
  <2> DEFINE h == Head(queue)
  <2>1. /\ queue # <<>> /\ queue' = Tail(queue) /\ c \in Conns \ (InUse \cup ToSet(queue'))
        /\ lent' \subseteq lent
        /\ open' = (open \ {h}) \cup {c} /\ ended' = ended \ {h}
        /\ wire' = [wire EXCEPT ![h] = <<>>] /\ tainted' = tainted \ {h}
        /\ active' = active
    BY <1>7 DEF Replaced
  <2>2. /\ h \in Conns /\ h \in Elems(queue) /\ Elems(queue') = Elems(queue) \ {h}
        /\ NoRepeat(queue') /\ queue' \in Seq(Conns)
    BY <2>1, QueueFacts DEF Settled
  <2>3. /\ \A t \in Threads : conn[t] # c /\ pipe[t] # c
        /\ c \notin Elems(queue')
        /\ c # h => c \notin open /\ wire[c] = <<>>
    <3>1. /\ \A t \in Threads : conn[t] # c /\ pipe[t] # c
          /\ c # dedicated
      BY <1>1, <2>1 DEF InUse
    <3>2. c \notin Elems(queue')
      BY <2>1 DEF ToSet, Elems
    <3>3. c # h => ~Held(c)
      BY <2>2, <3>1, <3>2 DEF Held
    <3> QED
      BY <1>2, <3>1, <3>2, <3>3 DEF Clean
  <2> HIDE DEF h
  <2>4. /\ wire' \in [Conns -> Seq(Reply)] /\ wire'[h] = <<>>
        /\ \A d \in Conns \ {h} : wire'[d] = wire[d]
    BY <1>1, <2>1, <2>2 DEF PoolTyped
  <2>5. PoolTyped'
    BY <1>1, <2>1, <2>2, <2>4 DEF PoolTyped
  <2>6. wire'[c] = <<>>
    BY <2>3, <2>4
  <2>7. \A d \in Conns \ {c} : d \in open' => d # h /\ Same(d)
    BY <2>1, <2>4 DEF Same
  <2>8. \A d \in Conns \ {c} : d \notin open' => wire'[d] = <<>>
    BY <1>2, <2>1, <2>4 DEF Clean
  <2> QED
    BY <1>1, <2>1, <2>2, <2>3, <2>5, <2>6, <2>7, <2>8
<1> QED
  BY <1>5, <1>6, <1>7 DEF GetConnection

\* What release_connection takes is queued as it is, or closed.
LEMMA ReleaseFacts ==
  ASSUME Settled, active # 0, NEW c \in Conns, c \notin Elems(queue),
         NEW w \in [Conns -> Seq(Reply)], \A d \in Conns \ {c} : w[d] = wire[d],
         Released(c, w)
  PROVE  /\ PoolTyped'
         /\ NoRepeat(queue') /\ Elems(queue) \subseteq Elems(queue')
         /\ Elems(queue') \subseteq Elems(queue) \cup {c}
         /\ c \in open' => c \in Elems(queue') /\ wire'[c] = w[c] /\ (c \in tainted' <=> c \in tainted)
         /\ c \notin open' => wire'[c] = <<>>
         /\ \A d \in Conns \ {c} : Same(d)
         /\ \/ Len(queue') = Len(queue) + 1 /\ active' = active
            \/ queue' = queue /\ active' = active - 1
<1>1. /\ PoolTyped /\ TypeOK /\ Homes
      /\ active \in Nat \ {0} /\ active <= MaxConnections /\ MaxConnections \in Nat
  BY TypeParts, Numbers DEF Settled, PoolTyped
<1>2. CASE c \in open /\ Len(queue) < MaxConnections
  <2>1. queue' = Append(queue, c) /\ wire' = w /\ UNCHANGED <<active, open, ended, tainted>>
    BY <1>2 DEF Released, sock
  <2>2. /\ queue' \in Seq(Conns) /\ Len(queue') = Len(queue) + 1
        /\ Elems(queue') = Elems(queue) \cup {c} /\ NoRepeat(queue')
    BY <1>1, <2>1, AppendFacts
  <2>3. PoolTyped'
    BY <1>1, <2>1, <2>2 DEF PoolTyped
  <2> QED
    BY <1>2, <2>1, <2>2, <2>3 DEF Same
<1>3. CASE ~(c \in open /\ Len(queue) < MaxConnections)
  <2>1. queue' = queue /\ Closed(c) /\ active' = active - 1
    BY <1>3 DEF Released
  <2>2. active' \in 0 .. MaxConnections
    BY <1>1, <2>1
  <2>3. PoolTyped'
    BY <1>1, <2>1, <2>2, ClosedFacts DEF PoolTyped
  <2> QED
    BY <1>1, <2>1, <2>3, ClosedFacts DEF Homes
<1> QED
  BY <1>2, <1>3

-----------------------------------------------------------------------------
(* Steps of one thread *)

Turn(t, p, k, b) ==
  /\ pc' = [pc EXCEPT ![t] = p]
  /\ conn' = [conn EXCEPT ![t] = k]
  /\ todo' = [todo EXCEPT ![t] = b]

\* What Coherent asks of a thread with these values.
Fits(p, k, b, own) ==
  /\ p \in {"idle", "send", "read", "finally", "collect"}
  /\ p = "idle" => k = None /\ b = <<>>
  /\ p \in {"send", "read"} => k \in Conns /\ b \in [1 .. 1 -> Kinds]
  /\ p = "finally" => k \in Conns /\ b = <<>>
  /\ p = "collect" => k \in Conns /\ k = own /\ b \in Batches

LEMMA TurnValues ==
  ASSUME CallTyped, NEW t \in Threads, NEW p, NEW k, NEW b, Turn(t, p, k, b)
  PROVE  /\ pc'[t] = p /\ conn'[t] = k /\ todo'[t] = b
         /\ \A u \in Threads \ {t} : pc'[u] = pc[u] /\ conn'[u] = conn[u] /\ todo'[u] = todo[u]
  BY DEF Turn, CallTyped

LEMMA FitsTypes ==
  ASSUME NEW p, NEW k, NEW b, NEW own, Fits(p, k, b, own)
  PROVE  k \in Conns \cup {None} /\ b \in {<<>>} \cup Batches
  BY BatchFacts DEF Fits

LEMMA TurnCoherent ==
  ASSUME Settled, NEW t \in Threads, NEW p, NEW k, NEW b, Turn(t, p, k, b),
         Fits(p, k, b, pipe[t]), pipe' = pipe
  PROVE  CallTyped' /\ Coherent'
<1>1. CallTyped /\ Coherent
  BY TypeParts DEF Settled
<1>2. CallTyped'
  <2>1. p \in {"idle", "send", "read", "finally", "collect"}
    BY DEF Fits
  <2> QED
    BY <1>1, <2>1, FitsTypes DEF CallTyped, Turn
<1>3. Coherent'
  BY <1>1, TurnValues DEF Coherent, Fits
<1> QED
  BY <1>2, <1>3

\* A connection one thread has in hand is read by no other.
LEMMA OnlyReader ==
  ASSUME Settled, NEW t \in Threads, NEW c \in Conns,
         c \in {conn[t], pipe[t]} \/ (c = dedicated /\ opener = t)
  PROVE  \A u \in Threads \ {t} : conn[u] # c /\ pipe[u] # c
  BY Numbers DEF Settled, Homes

LEMMA CleanElsewhere ==
  ASSUME Settled, NEW t \in Threads, NEW p, NEW k, NEW b, Turn(t, p, k, b),
         NEW d \in Conns, Same(d), ~Reads(t, d), k # d
  PROVE  Clean(d)'
<1>1. CallTyped /\ Clean(d)
  BY TypeParts DEF Settled, Streams
<1>2. \A u \in Threads \ {t} : Reads(u, d)' <=> Reads(u, d)
  BY <1>1, TurnValues DEF Reads, Reading
<1>3. ~Reads(t, d)' 
  BY <1>1, TurnValues DEF Reads
<1>4. \A u \in Threads \ {t} : Requests(u, todo'[u]) = Requests(u, todo[u])
  BY <1>1, TurnValues
<1> QED
  BY <1>1, <1>2, <1>3, <1>4 DEF Clean, Same

LEMMA ExecutingFinite ==
  /\ IsFiniteSet(Executing) /\ Cardinality(Executing) \in Nat
  /\ \A E \in SUBSET Threads :
       IsFiniteSet(E) /\ Cardinality(E) \in Nat
<1>1. \A E \in SUBSET Threads : IsFiniteSet(E) /\ Cardinality(E) \in Nat
  BY ClientAssumption, FS_Subset, FS_CardinalityType
<1> QED
  BY <1>1 DEF Executing

LEMMA CountKept ==
  ASSUME Settled, Executing' \subseteq Executing, queue' = queue, active' = active,
         dedicated' = dedicated
  PROVE  Counted'
<1>1. Cardinality(Executing') <= Cardinality(Executing) /\ Cardinality(Executing') \in Nat
  <2>1. Executing' \in SUBSET Threads
    BY DEF Executing
  <2> QED
    BY <2>1, ExecutingFinite, FS_Subset
<1>2. /\ active \in Nat /\ Len(queue) \in Nat
      /\ Len(queue') = Len(queue)
  BY Numbers, QueueFacts DEF Settled, TypeOK
<1>3. CASE dedicated = None
  BY <1>1, <1>2, <1>3, ExecutingFinite DEF Settled, Counted, Slots
<1>4. CASE dedicated # None
  BY <1>2, <1>4 DEF Settled, Counted, Slots
<1> QED
  BY <1>3, <1>4

\* A step of one thread on a connection c it has in hand.
LEMMA TurnStep ==
  ASSUME Settled, NEW t \in Threads, NEW p, NEW k, NEW b, Turn(t, p, k, b),
         Fits(p, k, b, pipe[t]), UNCHANGED <<pool, mode, pipe>>,
         NEW c \in Conns,
         c \in {conn[t], pipe[t]} \/ (c = dedicated /\ opener = t),
         k \in {None, c}, conn[t] \in {None, c},
         p \in Calling => pc[t] \in Calling \/ dedicated # None,
         p \in Calling /\ dedicated = None => k = conn[t],
         open' \subseteq Conns, tainted' \subseteq open', ended' \subseteq tainted',
         wire' \in [Conns -> Seq(Reply)],
         open' \subseteq open,
         borrowed' \subseteq Threads,
         c \in open' => c \in {k, pipe[t], dedicated},
         \A d \in Conns \ {c} : Same(d),
         Clean(c)'
  PROVE  Settled'
<1>1. CallTyped /\ PoolTyped /\ ModeTyped /\ Homes /\ Streams /\ Quiet
  BY TypeParts DEF Settled
<1>2. /\ queue' = queue /\ active' = active /\ dedicated' = dedicated /\ opener' = opener
      /\ pipe' = pipe /\ lent' = lent
  BY DEF pool, mode
<1>3. CallTyped' /\ Coherent'
  BY <1>2, TurnCoherent
<1>4. TypeOK'
  <2>1. PoolTyped'
    BY <1>1, <1>2 DEF PoolTyped
  <2> QED
    BY <1>1, <1>2, <1>3, <2>1 DEF TypeOK, ModeTyped, PoolTyped, CallTyped, Reply
<1>5. /\ pc'[t] = p /\ conn'[t] = k
      /\ \A u \in Threads \ {t} : pc'[u] = pc[u] /\ conn'[u] = conn[u]
  BY <1>1, TurnValues
<1>6. c # None /\ \A u \in Threads \ {t} : conn[u] # c /\ pipe[u] # c
  BY OnlyReader, Numbers
<1>7. Homes'
  <2>1. c \notin Elems(queue)
    BY <1>1 DEF Homes
  <2>2. dedicated # None => c = dedicated
    BY <1>1, <1>6 DEF Homes
  <2>3. \A u \in Threads : conn'[u] \notin Elems(queue)
    BY <1>1, <1>5, <2>1, QueueFacts DEF Settled, Homes
  <2>4. \A u, v \in Threads :
          u # v => (conn'[u] # None => conn'[u] # conn'[v] /\ conn'[u] # pipe[v])
    BY <1>1, <1>5, <1>6 DEF Homes
  <2>5. dedicated = None => \A u \in Threads : pc'[u] \in Calling => conn'[u] # pipe[u]
    BY <1>1, <1>5 DEF Homes
  <2>6. dedicated # None =>
          /\ \A u \in Threads : conn'[u] \in {None, dedicated}
          /\ \A u \in Threads \ {opener} : conn'[u] = None
    BY <1>1, <1>5, <1>6, <2>2 DEF Homes
  <2> QED
    BY <1>1, <1>2, <2>3, <2>4, <2>5, <2>6 DEF Homes
<1>8. \A d \in open' : Held(d)'
  <2>1. \A u \in Threads \ {t}, d \in Conns : conn[u] = d \/ pipe[u] = d => conn'[u] = d \/ pipe[u] = d
    BY <1>5
  <2>2. ASSUME NEW d \in open', d # c
        PROVE  Held(d)'
    <3>1. d \in Conns /\ Held(d)
      BY <1>1, <2>2 DEF Streams
    <3>2. CASE d \in Elems(queue) \/ d = dedicated
      BY <1>2, <3>2 DEF Held
    <3>3. CASE \E u \in Threads : conn[u] = d \/ pipe[u] = d
      <4>1. PICK u \in Threads : conn[u] = d \/ pipe[u] = d
        BY <3>3
      <4>2. CASE u = t
        <5>1. pipe[u] = d
          BY <2>2, <3>1, <4>1, <4>2, Numbers
        <5> QED
          BY <1>2, <5>1 DEF Held
      <4>3. CASE u # t
        BY <1>2, <2>1, <3>1, <4>1, <4>3 DEF Held
      <4> QED
        BY <4>2, <4>3
    <3> QED
      BY <3>1, <3>2, <3>3 DEF Held
  <2>3. c \in open' => Held(c)'
    BY <1>2, <1>5 DEF Held
  <2> QED
    BY <2>2, <2>3
<1>9. \A d \in Conns : Clean(d)'
  <2>1. ASSUME NEW d \in Conns \ {c}
        PROVE  Clean(d)'
    <3>1. Same(d) /\ ~Reads(t, d) /\ k # d
      BY Numbers DEF Reads
    <3> QED
      BY <3>1, CleanElsewhere
  <2> QED
    BY <2>1
<1>10. Counted'
  <2>1. CASE dedicated = None
    <3>1. Executing' \subseteq Executing
      BY <1>5, <2>1 DEF Executing
    <3> QED
      BY <1>2, <3>1, CountKept
  <2>2. CASE dedicated # None
    BY <1>2, <2>2 DEF Settled, Counted, Slots
  <2> QED
    BY <2>1, <2>2
<1>11. Quiet'
  BY <1>1, <1>5 DEF Quiet, Fits
<1> QED
  BY <1>3, <1>4, <1>7, <1>8, <1>9, <1>10, <1>11 DEF Settled, Streams

-----------------------------------------------------------------------------
(* KacheClient._execute *)

\* What a thread in a call has in hand, and whose the replies on it are.
LEMMA InCall ==
  ASSUME Settled, NEW t \in Threads, pc[t] # "idle"
  PROVE  /\ conn[t] \in Conns /\ conn[t] # None
         /\ pc[t] \in {"send", "read"} => todo[t] \in [1 .. 1 -> Kinds]
         /\ pc[t] = "collect" => conn[t] = pipe[t] /\ todo[t] \in Batches
         /\ pc[t] = "finally" => todo[t] = <<>>
         /\ pc[t] # "collect" => pc[t] \in Calling
         /\ dedicated # None => conn[t] = dedicated
         /\ Reading(t) => Requests(t, todo[t]) # <<>>
                            /\ Tail(Requests(t, todo[t])) = Requests(t, Tail(todo[t]))
         /\ conn[t] \in open \ tainted =>
              /\ Reading(t) => wire[conn[t]] = Requests(t, todo[t])
              /\ ~Reading(t) => wire[conn[t]] = <<>>
<1>1. pc[t] \in {"send", "read", "finally", "collect"}
  BY TypeParts DEF Settled, CallTyped, Quiet
<1>2. /\ conn[t] \in Conns /\ conn[t] # None
      /\ pc[t] \in {"send", "read"} => todo[t] \in [1 .. 1 -> Kinds]
      /\ pc[t] = "collect" => conn[t] = pipe[t] /\ todo[t] \in Batches
      /\ pc[t] = "finally" => todo[t] = <<>>
  BY <1>1, Numbers DEF Settled, Coherent
<1>3. dedicated # None => conn[t] = dedicated
  BY <1>2 DEF Settled, Homes
<1>4. Reading(t) => todo[t] \in Batches
  BY <1>2, BatchFacts DEF Reading
<1>5. \A u \in Threads \ {t} : conn[u] # conn[t]
  BY <1>2, OnlyReader
<1>6. ASSUME conn[t] \in open \ tainted
      PROVE  /\ Reading(t) => wire[conn[t]] = Requests(t, todo[t])
             /\ ~Reading(t) => wire[conn[t]] = <<>>
  <2>1. Clean(conn[t])
    BY <1>2 DEF Settled, Streams
  <2>2. ~Reading(t) => \A u \in Threads : ~Reads(u, conn[t])
    BY <1>5 DEF Reads
  <2> QED
    BY <1>6, <2>1, <2>2 DEF Clean, Reads
<1> QED
  BY <1>1, <1>2, <1>3, <1>4, <1>6, TailRequests DEF Calling

\* A reply given up stays where it is.
LEMMA OrphanedFacts ==
  ASSUME Settled, NEW t \in Threads, NEW c \in Conns
  PROVE  /\ Orphaned(t, c) \in [Conns -> Seq(Reply)]
         /\ Len(Orphaned(t, c)[c]) = Len(wire[c])
         /\ wire[c] = <<>> => Orphaned(t, c)[c] = <<>>
         /\ \A d \in Conns \ {c} : Orphaned(t, c)[d] = wire[d]
<1>1. wire \in [Conns -> Seq(Reply)]
  BY TypeParts DEF Settled, PoolTyped
<1> DEFINE s == [i \in DOMAIN wire[c] |->
                   IF wire[c][i].by = t THEN Orphan(wire[c][i]) ELSE wire[c][i]]
<1>2. /\ wire[c] \in Seq(Reply) /\ Len(wire[c]) \in Nat /\ DOMAIN wire[c] = 1 .. Len(wire[c])
      /\ \A i \in 1 .. Len(wire[c]) : wire[c][i] \in Reply
  BY <1>1, LenProperties
<1>3. \A r \in Reply : Orphan(r) \in Reply
  BY DEF Orphan, Reply
<1>4. s \in Seq(Reply) /\ Len(s) = Len(wire[c])
  BY <1>2, <1>3
<1>5. wire[c] = <<>> => s = <<>>
  BY <1>4, <1>2, EmptySeq
<1>6. Orphaned(t, c) = [wire EXCEPT ![c] = s]
  BY DEF Orphaned
<1> HIDE DEF s
<1>7. /\ Orphaned(t, c) \in [Conns -> Seq(Reply)] /\ Orphaned(t, c)[c] = s
      /\ \A d \in Conns \ {c} : Orphaned(t, c)[d] = wire[d]
  BY <1>1, <1>4, <1>6
<1> QED
  BY <1>4, <1>5, <1>7

\* A step at whose end nobody reads c.
LEMMA NotRead ==
  ASSUME Settled, NEW t \in Threads, NEW p, NEW k, NEW b, Turn(t, p, k, b),
         NEW c \in Conns,
         c \in {conn[t], pipe[t]} \/ (c = dedicated /\ opener = t),
         p \notin {"read", "collect"},
         c \in open' \ tainted' \/ c \notin open' => wire'[c] = <<>>
  PROVE  Clean(c)'
<1>1. CallTyped
  BY TypeParts DEF Settled
<1>2. \A u \in Threads : ~Reads(u, c)'
  BY <1>1, TurnValues, OnlyReader DEF Reads, Reading
<1> QED
  BY <1>2 DEF Clean

\* A step at whose end t, and nobody else, reads c.
LEMMA ReadByOne ==
  ASSUME Settled, NEW t \in Threads, NEW p, NEW k, NEW b, Turn(t, p, k, b),
         NEW c \in Conns,
         c \in {conn[t], pipe[t]} \/ (c = dedicated /\ opener = t),
         p \in {"read", "collect"}, k = c,
         c \in open', c \notin tainted' => wire'[c] = Requests(t, b)
  PROVE  Clean(c)'
<1>1. CallTyped
  BY TypeParts DEF Settled
<1>2. \A u \in Threads \ {t} : ~Reads(u, c)'
  BY <1>1, TurnValues, OnlyReader DEF Reads, Reading
<1>3. Reads(t, c)' /\ todo'[t] = b
  BY <1>1, TurnValues DEF Reads, Reading
<1> QED
  BY <1>2, <1>3 DEF Clean

\* What a batch on c does to its stream.
LEMMA RequestStream ==
  ASSUME Settled, NEW t \in Threads, NEW c \in Conns, NEW b \in Batches,
         wire' = [wire EXCEPT ![c] = @ \o Requests(t, b)]
  PROVE  /\ wire' \in [Conns -> Seq(Reply)]
         /\ wire[c] = <<>> => wire'[c] = Requests(t, b)
         /\ \A d \in Conns \ {c} : wire'[d] = wire[d]
<1>1. wire \in [Conns -> Seq(Reply)]
  BY TypeParts DEF Settled, PoolTyped
<1>2. Requests(t, b) \in Seq(Reply)
  BY BatchFacts, RequestFacts
<1>3. wire[c] \o Requests(t, b) \in Seq(Reply)
  BY <1>1, <1>2, ConcatProperties
<1>4. wire[c] = <<>> => wire[c] \o Requests(t, b) = Requests(t, b)
  BY <1>2, ConcatEmptySeq
<1> QED
  BY <1>1, <1>3, <1>4

LEMMA TailStream ==
  ASSUME Settled, NEW c \in Conns, wire[c] # <<>>, wire' = [wire EXCEPT ![c] = Tail(@)]
  PROVE  /\ wire' \in [Conns -> Seq(Reply)]
         /\ wire'[c] = Tail(wire[c])
         /\ \A d \in Conns \ {c} : wire'[d] = wire[d]
<1>1. wire \in [Conns -> Seq(Reply)]
  BY TypeParts DEF Settled, PoolTyped
<1>2. Tail(wire[c]) \in Seq(Reply)
  BY <1>1, HeadTailProperties
<1> QED
  BY <1>1, <1>2

LEMMA SendStep ==
  ASSUME Settled, NEW t \in Threads, Send(t)
  PROVE  Settled'
<1>1. PICK c \in Conns : c = conn[t]
  BY InCall DEF Send
<1>2. /\ pc[t] = "send" /\ c \in open /\ pipe' = pipe
      /\ wire' = [wire EXCEPT ![c] = @ \o Requests(t, todo[t])]
      /\ UNCHANGED <<pool, mode, sock, borrowed, tainted, open, ended>>
  BY <1>1 DEF Send, sock
<1>3. todo[t] \in [1 .. 1 -> Kinds] /\ todo[t] \in Batches
  BY <1>2, InCall, BatchFacts
<1>4. Turn(t, "read", c, todo[t]) /\ Fits("read", c, todo[t], pipe[t])
  BY <1>1, <1>3, TypeParts DEF Send, Turn, Fits, Settled, CallTyped
<1>5. PoolTyped /\ borrowed \subseteq Threads
  BY TypeParts DEF Settled, ModeTyped
<1>6. /\ wire' \in [Conns -> Seq(Reply)]
      /\ wire[c] = <<>> => wire'[c] = Requests(t, todo[t])
      /\ \A d \in Conns \ {c} : Same(d)
  BY <1>2, <1>3, RequestStream DEF Same
<1>7. c \in open \ tainted => wire[c] = <<>>
  BY <1>1, <1>2, InCall DEF Reading
<1>8. Clean(c)'
  BY <1>1, <1>2, <1>4, <1>6, <1>7, ReadByOne
<1> QED
  BY <1>1, <1>2, <1>4, <1>5, <1>6, <1>8, TurnStep DEF PoolTyped, Calling

LEMMA ReadStep ==
  ASSUME Settled, NEW t \in Threads, Read(t)
  PROVE  Settled'
<1>1. PICK c \in Conns : c = conn[t]
  BY InCall DEF Read
<1>2. /\ pc[t] = "read" /\ c \in open /\ wire[c] # <<>> /\ pipe' = pipe
      /\ wire' = [wire EXCEPT ![c] = Tail(@)]
      /\ UNCHANGED <<pool, mode, borrowed, tainted, open, ended>>
  BY <1>1 DEF Read, sock, Answered
<1>3. Turn(t, "finally", c, <<>>) /\ Fits("finally", c, <<>>, pipe[t])
  BY <1>1, TypeParts DEF Read, Turn, Fits, Settled, CallTyped
<1>4. PoolTyped /\ borrowed \subseteq Threads
  BY TypeParts DEF Settled, ModeTyped
<1>5. /\ wire' \in [Conns -> Seq(Reply)] /\ wire'[c] = Tail(wire[c])
      /\ \A d \in Conns \ {c} : Same(d)
  BY <1>2, TailStream DEF Same
<1>6. c \in open \ tainted => wire'[c] = <<>>
  <2>1. todo[t] \in [1 .. 1 -> Kinds]
    BY <1>2, InCall
  <2>2. Len(todo[t]) = 1 /\ todo[t] \in Batches
    BY <2>1, BatchFacts
  <2>3. Tail(todo[t]) = <<>>
    BY <2>2, BatchFacts
  <2>4. Requests(t, <<>>) = <<>>
    BY NoRequests
  <2> QED
    BY <1>1, <1>2, <1>5, <2>3, <2>4, InCall DEF Reading
<1>7. Clean(c)'
  BY <1>1, <1>2, <1>3, <1>6, NotRead
<1> QED
  BY <1>1, <1>2, <1>3, <1>4, <1>5, <1>7, TurnStep DEF PoolTyped, Calling

LEMMA ExecuteFailsStep ==
  ASSUME Settled, NEW t \in Threads, ExecuteFails(t)
  PROVE  Settled'
<1>1. PICK c \in Conns : c = conn[t]
  BY InCall DEF ExecuteFails
<1>2. /\ pc[t] \in {"send", "read"} /\ Closed(c) /\ pipe' = pipe
      /\ UNCHANGED <<pool, mode, borrowed>>
  BY <1>1 DEF ExecuteFails
<1>3. Turn(t, "finally", c, <<>>) /\ Fits("finally", c, <<>>, pipe[t])
  BY <1>1, TypeParts DEF ExecuteFails, Turn, Fits, Settled, CallTyped
<1>4. TypeOK /\ borrowed \subseteq Threads
  BY TypeParts DEF Settled, ModeTyped
<1>5. Clean(c)'
  BY <1>1, <1>2, <1>3, <1>4, ClosedFacts, NotRead
<1>6. open' \subseteq open
  BY <1>2 DEF Closed
<1> QED
  BY <1>1, <1>2, <1>3, <1>4, <1>5, <1>6, ClosedFacts, TurnStep DEF Calling

LEMMA InterruptedStep ==
  ASSUME Settled, NEW t \in Threads, Interrupted(t)
  PROVE  Settled'
<1>1. PICK c \in Conns : c = conn[t]
  BY InCall DEF Interrupted
<1>2. /\ pc[t] \in {"send", "read"} /\ c \in open /\ pipe' = pipe
      /\ UNCHANGED <<pool, mode, borrowed, open, ended>>
      /\ \/ pc[t] = "send" /\ wire' = wire /\ tainted' = tainted
         \/ /\ pc[t] = "send" /\ wire' = [wire EXCEPT ![c] = @ \o Requests(t, todo[t])]
            /\ tainted' = tainted \cup {c}
         \/ wire' = wire /\ tainted' = tainted \cup {c}
  BY <1>1 DEF Interrupted, sock
<1>3. Turn(t, "finally", c, <<>>) /\ Fits("finally", c, <<>>, pipe[t])
  BY <1>1, TypeParts DEF Interrupted, Turn, Fits, Settled, CallTyped
<1>4. PoolTyped /\ borrowed \subseteq Threads
  BY TypeParts DEF Settled, ModeTyped
<1>5. todo[t] \in Batches
  BY <1>2, InCall, BatchFacts
<1>6. wire' \in [Conns -> Seq(Reply)] /\ \A d \in Conns \ {c} : wire'[d] = wire[d]
  BY <1>2, <1>4, <1>5, RequestStream DEF PoolTyped
<1>7. c \in open' \ tainted' => wire'[c] = <<>>
  BY <1>1, <1>2, InCall DEF Reading
<1>8. Clean(c)'
  BY <1>1, <1>2, <1>3, <1>7, NotRead
<1>9. \A d \in Conns \ {c} : Same(d)
  BY <1>2, <1>6 DEF Same
<1>10. tainted' \subseteq open' /\ ended' \subseteq tainted'
  BY <1>2, <1>4 DEF PoolTyped
<1> QED
  BY <1>1, <1>2, <1>3, <1>4, <1>6, <1>8, <1>9, <1>10, TurnStep DEF PoolTyped, Calling

-----------------------------------------------------------------------------
(* Pipeline.execute *)

LEMMA ExecuteBatchStep ==
  ASSUME Settled, NEW t \in Threads, ExecuteBatch(t)
  PROVE  Settled'
<1>1. PoolTyped /\ CallTyped
  BY TypeParts DEF Settled
<1>2. PICK c \in Conns : c = pipe[t]
  BY <1>1 DEF ExecuteBatch, PoolTyped
<1>3. PICK b \in Batches :
        /\ wire' = [wire EXCEPT ![c] = @ \o Requests(t, b)]
        /\ todo' = [todo EXCEPT ![t] = b]
  BY <1>2 DEF ExecuteBatch
<1>4. /\ pc[t] = "idle" /\ c \in open /\ pipe' = pipe
      /\ UNCHANGED <<pool, mode, borrowed, tainted, open, ended>>
  BY <1>2 DEF ExecuteBatch, sock
<1>5. Turn(t, "collect", c, b) /\ Fits("collect", c, b, pipe[t])
  BY <1>2, <1>3 DEF ExecuteBatch, Turn, Fits
<1>6. /\ wire' \in [Conns -> Seq(Reply)]
      /\ wire[c] = <<>> => wire'[c] = Requests(t, b)
      /\ \A d \in Conns \ {c} : Same(d)
  BY <1>3, <1>4, RequestStream DEF Same
<1>7. conn[t] = None
  BY <1>4 DEF Settled, Coherent
<1>8. c \in open \ tainted => wire[c] = <<>>
  <2>1. \A u \in Threads : ~Reads(u, c)
    BY <1>2, <1>7, OnlyReader, Numbers DEF Reads
  <2> QED
    BY <2>1 DEF Settled, Streams, Clean
<1>9. Clean(c)'
  BY <1>2, <1>4, <1>5, <1>6, <1>8, ReadByOne
<1>10. /\ "collect" \notin Calling
       /\ open' \subseteq Conns /\ open' \subseteq open /\ tainted' \subseteq open' /\ ended' \subseteq tainted'
  BY <1>1, <1>4 DEF PoolTyped, Calling
<1>11. UNCHANGED <<pool, mode, pipe>>
  BY <1>4
<1>12. borrowed' \subseteq Threads
  BY <1>4, TypeParts DEF Settled, ModeTyped
<1> QED
  BY <1>2, <1>5, <1>6, <1>7, <1>9, <1>10, <1>11, <1>12, TurnStep

\* The ways out of the loop: whatever is left unread there is nobody's, or taints c.
LEMMA LeaveCollect ==
  ASSUME Settled, NEW t \in Threads, pc[t] = "collect", NEW c \in Conns, c = conn[t],
         Turn(t, "idle", None, <<>>), UNCHANGED <<pool, mode, borrowed, pipe>>,
         open' \subseteq open, tainted' \subseteq open', ended' \subseteq tainted',
         wire' \in [Conns -> Seq(Reply)],
         \A d \in Conns \ {c} : Same(d),
         c \in open' \ tainted' \/ c \notin open' => wire'[c] = <<>>
  PROVE  Settled'
<1>1. PoolTyped /\ borrowed \subseteq Threads
  BY TypeParts DEF Settled, ModeTyped
<1>2. Fits("idle", None, <<>>, pipe[t]) /\ c = pipe[t]
  BY InCall DEF Fits
<1>3. Clean(c)'
  BY NotRead
<1>4. "idle" \notin Calling /\ open' \subseteq Conns
  BY <1>1 DEF PoolTyped, Calling
<1> QED
  BY <1>1, <1>2, <1>3, <1>4, TurnStep

LEMMA CollectStep ==
  ASSUME Settled, NEW t \in Threads, Collect(t)
  PROVE  Settled'
<1>1. PICK c \in Conns : c = conn[t]
  BY InCall DEF Collect
<1>2. /\ pc[t] = "collect" /\ c \in open /\ wire[c] # <<>> /\ pipe' = pipe
      /\ wire' = [wire EXCEPT ![c] = Tail(@)]
      /\ UNCHANGED <<pool, mode, borrowed, tainted, open, ended>>
  BY <1>1 DEF Collect, sock, Answered
<1>3. todo[t] \in Batches /\ c = pipe[t]
  BY <1>1, <1>2, InCall
<1>4. PoolTyped /\ CallTyped /\ borrowed \subseteq Threads
  BY TypeParts DEF Settled, ModeTyped
<1>5. /\ wire' \in [Conns -> Seq(Reply)] /\ wire'[c] = Tail(wire[c])
      /\ \A d \in Conns \ {c} : Same(d)
  BY <1>2, TailStream DEF Same
<1>6. c \in open \ tainted => wire'[c] = Requests(t, Tail(todo[t]))
  BY <1>1, <1>2, <1>5, InCall DEF Reading
<1>7. CASE Len(todo[t]) = 1
  <2>1. Tail(todo[t]) = <<>> /\ Requests(t, <<>>) = <<>>
    <3>1. Tail(todo[t]) = <<>>
      BY <1>3, <1>7, BatchFacts
    <3> QED
      BY <3>1, NoRequests
  <2>2. Turn(t, "idle", None, <<>>)
    BY <1>7, <2>1 DEF Collect, Turn
  <2> QED
    BY <1>1, <1>2, <1>4, <1>5, <1>6, <2>1, <2>2, LeaveCollect DEF PoolTyped
<1>8. CASE Len(todo[t]) # 1
  <2>1. Tail(todo[t]) \in Batches
    BY <1>3, <1>8, BatchFacts
  <2>2. /\ Turn(t, "collect", c, Tail(todo[t]))
        /\ Fits("collect", c, Tail(todo[t]), pipe[t])
    BY <1>1, <1>2, <1>3, <1>4, <1>8, <2>1 DEF Collect, Turn, Fits, CallTyped
  <2>3. Clean(c)'
    BY <1>1, <1>2, <1>6, <2>2, ReadByOne
  <2> QED
    BY <1>1, <1>2, <1>3, <1>4, <1>5, <2>2, <2>3, TurnStep DEF PoolTyped, Calling
<1> QED
  BY <1>7, <1>8

LEMMA CollectErrorStep ==
  ASSUME Settled, NEW t \in Threads, CollectError(t)
  PROVE  Settled'
<1>1. PICK c \in Conns : c = conn[t]
  BY InCall DEF CollectError
<1>2. /\ pc[t] = "collect" /\ c \in open /\ wire[c] # <<>>
      /\ wire' = [Orphaned(t, c) EXCEPT ![c] = Tail(@)]
      /\ tainted' = IF Len(todo[t]) = 1 THEN tainted ELSE tainted \cup {c}
      /\ UNCHANGED <<pool, mode, borrowed, pipe, open, ended>>
  BY <1>1 DEF CollectError, sock, Answered
<1>3. Turn(t, "idle", None, <<>>)
  BY DEF CollectError, Turn
<1>4. PoolTyped /\ borrowed \subseteq Threads
  BY TypeParts DEF Settled, ModeTyped
<1>5. todo[t] \in Batches
  BY <1>2, InCall
<1>6. /\ wire[c] \in Seq(Reply) /\ Len(wire[c]) \in Nat \ {0}
      /\ Orphaned(t, c)[c] \in Seq(Reply) /\ Orphaned(t, c)[c] # <<>>
      /\ Len(Orphaned(t, c)[c]) = Len(wire[c])
  <2>1. wire[c] \in Seq(Reply) /\ Len(wire[c]) \in Nat \ {0}
    BY <1>2, <1>4, EmptySeq, LenProperties DEF PoolTyped
  <2>2. Orphaned(t, c)[c] \in Seq(Reply) /\ Len(Orphaned(t, c)[c]) = Len(wire[c])
    BY OrphanedFacts
  <2> QED
    BY <2>1, <2>2, EmptySeq
<1>7. /\ Tail(Orphaned(t, c)[c]) \in Seq(Reply)
      /\ Len(Tail(Orphaned(t, c)[c])) = Len(wire[c]) - 1
  BY <1>6, HeadTailProperties
<1>8. /\ wire' \in [Conns -> Seq(Reply)]
      /\ wire'[c] = Tail(Orphaned(t, c)[c])
      /\ \A d \in Conns \ {c} : wire'[d] = wire[d]
  <2> DEFINE o == Orphaned(t, c)
  <2>1. o \in [Conns -> Seq(Reply)] /\ \A d \in Conns \ {c} : o[d] = wire[d]
    BY OrphanedFacts
  <2>2. wire' = [o EXCEPT ![c] = Tail(@)] /\ Tail(o[c]) \in Seq(Reply)
    BY <1>2, <1>7
  <2> HIDE DEF o
  <2>3. /\ wire' \in [Conns -> Seq(Reply)] /\ wire'[c] = Tail(o[c])
        /\ \A d \in Conns \ {c} : wire'[d] = wire[d]
    BY <2>1, <2>2
  <2> QED
    BY <2>3 DEF o
<1>9. \A d \in Conns \ {c} : Same(d)
  BY <1>2, <1>8 DEF Same
<1>10. c \in open' \ tainted' => wire'[c] = <<>>
  <2> SUFFICES ASSUME c \notin tainted'
               PROVE  wire'[c] = <<>>
    OBVIOUS
  <2>1. c \notin tainted /\ Len(todo[t]) = 1
    BY <1>2
  <2>2. wire[c] = Requests(t, todo[t])
    BY <1>1, <1>2, <2>1, InCall DEF Reading
  <2>3. Len(wire[c]) = 1
    BY <1>5, <2>1, <2>2, BatchFacts, RequestFacts
  <2>4. Len(wire'[c]) = 0 /\ wire'[c] \in Seq(Reply)
    BY <1>7, <1>8, <2>3
  <2> QED
    BY <2>4, EmptySeq
<1>11. tainted' \subseteq open' /\ ended' \subseteq tainted' /\ c \in open'
  <2>1. tainted' \in {tainted, tainted \cup {c}} /\ open' = open /\ ended' = ended
    BY <1>2
  <2> QED
    BY <1>2, <1>4, <2>1 DEF PoolTyped
<1> QED
  BY <1>1, <1>2, <1>3, <1>8, <1>9, <1>10, <1>11, LeaveCollect

LEMMA CollectEndsStep ==
  ASSUME Settled, NEW t \in Threads, CollectEnds(t) \/ CollectInterrupted(t)
  PROVE  Settled'
<1>1. PICK c \in Conns : c = conn[t]
  BY InCall DEF CollectEnds, CollectInterrupted
<1>2. /\ pc[t] = "collect" /\ c \in open
      /\ wire' = Orphaned(t, c) /\ tainted' = tainted \cup {c}
      /\ ended' \subseteq ended \cup {c}
      /\ UNCHANGED <<pool, mode, borrowed, pipe, open>>
  BY <1>1 DEF CollectEnds, CollectInterrupted, sock
<1>3. Turn(t, "idle", None, <<>>)
  BY DEF CollectEnds, CollectInterrupted, Turn
<1>4. PoolTyped /\ borrowed \subseteq Threads
  BY TypeParts DEF Settled, ModeTyped
<1>5. wire' \in [Conns -> Seq(Reply)] /\ \A d \in Conns \ {c} : Same(d)
  BY <1>2, OrphanedFacts DEF Same
<1>6. tainted' \subseteq open' /\ ended' \subseteq tainted' /\ c \in open' /\ c \in tainted'
  BY <1>2, <1>4 DEF PoolTyped
<1> QED
  BY <1>1, <1>2, <1>3, <1>5, <1>6, LeaveCollect

LEMMA CollectFailsStep ==
  ASSUME Settled, NEW t \in Threads, CollectFails(t)
  PROVE  Settled'
<1>1. PICK c \in Conns : c = conn[t]
  BY InCall DEF CollectFails
<1>2. pc[t] = "collect" /\ Closed(c) /\ UNCHANGED <<pool, mode, borrowed, pipe>>
  BY <1>1 DEF CollectFails
<1>3. Turn(t, "idle", None, <<>>) /\ open' \subseteq open
  BY <1>2 DEF CollectFails, Turn, Closed
<1>4. TypeOK
  BY DEF Settled
<1> QED
  BY <1>1, <1>2, <1>3, <1>4, ClosedFacts, LeaveCollect

-----------------------------------------------------------------------------
(* Taking a connection *)

\* What an idle thread has.
LEMMA Idle ==
  ASSUME Settled, NEW t \in Threads, pc[t] = "idle"
  PROVE  /\ conn[t] = None /\ todo[t] = <<>> /\ t \notin Executing
         /\ \A c \in Conns : ~Reads(t, c)
<1>1. conn[t] = None /\ todo[t] = <<>>
  BY DEF Settled, Coherent
<1> QED
  BY <1>1, Numbers DEF Executing, Calling, Reads

\* Nobody reads a dedicated connection whose thread is idle.
LEMMA DedicatedIdle ==
  ASSUME Settled, NEW t \in Threads, NEW c \in Conns, dedicated = c, opener = t, pc[t] = "idle"
  PROVE  /\ \A u \in Threads : ~Reads(u, c)
         /\ c \notin tainted \/ c \notin open => wire[c] = <<>>
<1>1. \A u \in Threads : ~Reads(u, c)
  BY Idle, OnlyReader DEF Reads
<1> QED
  BY <1>1 DEF Settled, Streams, Clean

\* An idle thread may use the client.
MayUse(t) == pc[t] = "idle" /\ opener \in {None, t}

LEMMA CallDedicatedStep ==
  ASSUME Settled, NEW t \in Threads, NEW c \in Conns, NEW kind \in Kinds,
         MayUse(t), dedicated = c, UNCHANGED <<pool, sock, wire, tainted, mode, pipe>>,
         borrowed' = borrowed, Turn(t, "send", c, <<kind>>)
  PROVE  Settled'
<1>1. c # None /\ pc[t] = "idle" /\ opener = t
  BY Numbers DEF MayUse, Settled, Homes
<1>2. Fits("send", c, <<kind>>, pipe[t])
  BY BatchFacts DEF Fits
<1>3. PoolTyped /\ borrowed \subseteq Threads
  BY TypeParts DEF Settled, ModeTyped
<1>4. Clean(c)'
  BY <1>1, DedicatedIdle, NotRead DEF sock
<1>5. /\ open' \subseteq Conns /\ open' \subseteq open /\ tainted' \subseteq open'
      /\ ended' \subseteq tainted' /\ wire' \in [Conns -> Seq(Reply)]
      /\ \A d \in Conns \ {c} : Same(d)
  BY <1>3 DEF PoolTyped, sock, Same
<1> QED
  BY <1>1, <1>2, <1>3, <1>4, <1>5, Idle, TurnStep

\* An idle thread has taken connection c from the pool, for a call or for a pipeline.
Took(t, c) ==
  /\ \A u \in Threads \ {t} :
       pc'[u] = pc[u] /\ conn'[u] = conn[u] /\ todo'[u] = todo[u] /\ pipe'[u] = pipe[u]
  /\ \/ pc'[t] = "send" /\ conn'[t] = c /\ todo'[t] \in [1 .. 1 -> Kinds] /\ pipe'[t] = pipe[t]
     \/ pc'[t] = "idle" /\ conn'[t] = None /\ todo'[t] = <<>> /\ pipe[t] = None /\ pipe'[t] = c

LEMMA TookStep ==
  ASSUME Settled, NEW t \in Threads, pc[t] = "idle", dedicated = None,
         UNCHANGED <<dedicated, opener>>, borrowed' \subseteq Threads,
         NEW c \in Conns, GetConnection(c), Took(t, c), CallTyped', Coherent'
  PROVE  Settled'
<1>1. PoolTyped /\ Homes /\ Streams /\ CallTyped /\ ModeTyped /\ Quiet
  BY TypeParts DEF Settled
<1>2. dedicated' = None /\ opener' = opener /\ ModeTyped'
  BY <1>1, GetFacts DEF ModeTyped
<1>3. TypeOK'
  BY <1>2, GetFacts DEF TypeOK, PoolTyped, CallTyped, ModeTyped, Reply
<1>4. conn[t] = None /\ t \notin Executing /\ \A d \in Conns : ~Reads(t, d)
  BY Idle
<1>5. /\ NoRepeat(queue') /\ Elems(queue') \subseteq Elems(queue)
      /\ c \notin Elems(queue') /\ c # None
      /\ \A u \in Threads : c # conn[u] /\ c # pipe[u]
  BY GetFacts
<1>6. Homes'
  <2>1. \A u \in Threads : conn'[u] \notin Elems(queue') /\ pipe'[u] \notin Elems(queue')
    BY <1>1, <1>5, QueueFacts DEF Settled, Homes, Took
  <2>2. \A u, v \in Threads :
          u # v => /\ conn'[u] # None => conn'[u] # conn'[v] /\ conn'[u] # pipe'[v]
                   /\ pipe'[u] # None => pipe'[u] # pipe'[v]
    BY <1>1, <1>5 DEF Homes, Took
  <2>3. \A u \in Threads : pc'[u] \in Calling => conn'[u] # pipe'[u]
    BY <1>1, <1>5 DEF Homes, Took, Calling
  <2>4. None \notin Elems(queue')
    BY <1>5, QueueFacts DEF Settled
  <2>5. opener = None
    BY <1>1 DEF Homes
  <2> QED
    BY <1>2, <1>5, <2>1, <2>2, <2>3, <2>4, <2>5 DEF Homes
<1>7. \A d \in open' : Held(d)'
  <2>1. Held(c)'
    BY DEF Took, Held
  <2>2. ASSUME NEW d \in Conns \ {c}, d \in open'
        PROVE  Held(d)'
    <3>1. d \in open /\ (d \in Elems(queue) => d \in Elems(queue'))
      BY <2>2, GetFacts DEF Same
    <3>2. Held(d) /\ d # None
      BY <1>1, <3>1, Numbers DEF Streams
    <3> QED
      BY <1>2, <1>4, <3>1, <3>2 DEF Held, Took
  <2>3. open' \subseteq Conns
    BY <1>3 DEF TypeOK
  <2> QED
    BY <2>1, <2>2, <2>3
<1>8. \A d \in Conns : Clean(d)'
  <2>1. ~Reads(t, c)' /\ \A u \in Threads \ {t} : ~Reads(u, c)'
    BY <1>5 DEF Took, Reads, Reading
  <2>2. Clean(c)'
    BY <2>1, GetFacts DEF Clean
  <2>3. ASSUME NEW d \in Conns \ {c}
        PROVE  Clean(d)'
    <3>1. ~Reads(t, d)'
      BY <1>4, Numbers DEF Took, Reads
    <3>2. \A u \in Threads \ {t} :
            /\ Reads(u, d)' <=> Reads(u, d)
            /\ Requests(u, todo'[u]) = Requests(u, todo[u])
      BY DEF Took, Reads, Reading
    <3>3. Clean(d) /\ ~Reads(t, d)
      BY <1>1, <1>4 DEF Streams
    <3>4. (d \in open' => Same(d)) /\ (d \notin open' => wire'[d] = <<>>)
      BY GetFacts
    <3> QED
      BY <3>1, <3>2, <3>3, <3>4 DEF Clean, Same
  <2> QED
    BY <2>2, <2>3
<1>9. Counted'
  <2>1. Executing' \subseteq Executing \cup {t}
    BY DEF Took, Executing
  <2>2. Cardinality(Executing \cup {t}) = Cardinality(Executing) + 1
    BY <1>4, ExecutingFinite, FS_AddElement
  <2>3. /\ Cardinality(Executing') \in Nat /\ Cardinality(Executing) \in Nat
        /\ Cardinality(Executing') <= Cardinality(Executing) + 1
    <3>1. Executing' \in SUBSET Threads /\ Executing \cup {t} \in SUBSET Threads
      BY DEF Executing
    <3> QED
      BY <2>1, <2>2, <3>1, ExecutingFinite, FS_Subset
  <2>4. active >= Len(queue) + Cardinality(Executing) /\ active \in Nat /\ Len(queue) \in Nat
    BY Numbers, QueueFacts DEF Settled, Counted, Slots, TypeOK
  <2>5. \/ Len(queue') = Len(queue) /\ active' = active + 1
        \/ Len(queue') = Len(queue) - 1 /\ active' = active
    <3>1. \/ queue' = queue /\ active' = active + 1
          \/ queue # <<>> /\ queue' = Tail(queue) /\ active' = active
      BY GetFacts
    <3>2. queue # <<>> => Len(Tail(queue)) = Len(queue) - 1
      BY QueueFacts DEF Settled
    <3> QED
      BY <3>1, <3>2
  <2>6. active' >= Len(queue') + Cardinality(Executing')
    BY <2>3, <2>4, <2>5
  <2> QED
    BY <1>2, <2>6 DEF Counted, Slots
<1>10. Quiet'
  BY <1>1 DEF Quiet, Took
<1> QED
  BY <1>3, <1>6, <1>7, <1>8, <1>9, <1>10 DEF Settled, Streams

LEMMA CallExecuteStep ==
  ASSUME Settled, NEW t \in Threads, MayUse(t), CallExecute(t)
  PROVE  Settled'
<1>1. PICK kind \in Kinds, c \in Conns : GetConn(c) /\ Turn(t, "send", c, <<kind>>)
  BY DEF CallExecute, Turn
<1>2. /\ pc[t] = "idle" /\ UNCHANGED <<dedicated, opener, pipe>> /\ CallTyped
      /\ borrowed' = IF dedicated = None THEN borrowed \cup {t} ELSE borrowed
      /\ borrowed' \subseteq Threads
  BY TypeParts DEF CallExecute, Settled, ModeTyped
<1>3. CASE dedicated = c /\ UNCHANGED <<pool, sock, wire, tainted, lent>>
  BY <1>1, <1>2, <1>3, CallDedicatedStep, Numbers DEF mode
<1>4. CASE dedicated = None /\ GetConnection(c)
  <2>1. Fits("send", c, <<kind>>, pipe[t]) /\ <<kind>> \in [1 .. 1 -> Kinds]
    BY BatchFacts DEF Fits
  <2>2. CallTyped' /\ Coherent'
    BY <1>1, <1>2, <2>1, TurnCoherent
  <2>3. Took(t, c)
    BY <1>1, <1>2, <2>1, TurnValues DEF Took
  <2> QED
    BY <1>2, <1>4, <2>2, <2>3, TookStep
<1> QED
  BY <1>1, <1>3, <1>4 DEF GetConn

LEMMA MakePipelineStep ==
  ASSUME Settled, NEW t \in Threads, MayUse(t), MakePipeline(t)
  PROVE  Settled'
<1>1. PICK c \in Conns : GetConn(c) /\ pipe' = [pipe EXCEPT ![t] = c]
  BY DEF MakePipeline
<1>2. /\ pc[t] = "idle" /\ pipe[t] = None
      /\ UNCHANGED <<call, pc, conn, todo, borrowed, dedicated, opener>>
  BY DEF MakePipeline, call
<1>3. Quiet /\ ModeTyped /\ CallTyped /\ Coherent /\ Homes /\ Streams /\ Counted /\ TypeOK /\ PoolTyped
  BY TypeParts DEF Settled
<1>4. pipe'[t] = c /\ \A u \in Threads \ {t} : pipe'[u] = pipe[u]
  BY <1>1, <1>3 DEF CallTyped
<1>5. CallTyped' /\ Coherent'
  <2>1. CallTyped'
    BY <1>1, <1>2, <1>3 DEF CallTyped
  <2> QED
    BY <1>2, <1>3, <1>4, <2>1 DEF Coherent
<1>6. CASE dedicated = None /\ GetConnection(c)
  <2>1. Took(t, c)
    BY <1>2, <1>4, Idle DEF Took
  <2> QED
    BY <1>2, <1>3, <1>5, <1>6, <2>1, TookStep DEF ModeTyped
<1>7. CASE dedicated = c /\ UNCHANGED <<pool, sock, wire, tainted, lent>>
  <2>1. /\ c # None /\ opener = t
        /\ UNCHANGED <<queue, active, open, ended>>
    BY <1>3, <1>7, Numbers DEF MayUse, Homes, pool, sock
  <2>2. TypeOK'
    BY <1>2, <1>3, <1>5, <1>7, <2>1 DEF TypeOK, CallTyped
  <2>3. Homes'
    BY <1>2, <1>3, <1>4, <1>7, <2>1 DEF Homes
  <2>4. Streams'
    <3>1. \A d \in open' : Held(d)'
      BY <1>2, <1>3, <1>4, <1>7, <2>1, Numbers DEF Streams, Held, PoolTyped
    <3>2. \A d \in Conns : Clean(d)'
      BY <1>2, <1>3, <1>7, <2>1 DEF Streams, Clean, Reads, Reading
    <3> QED
      BY <3>1, <3>2 DEF Streams
  <2>5. Counted'
    BY <1>2, <1>3, <1>7, <2>1 DEF Counted, Slots, Executing
  <2>6. Quiet'
    BY <1>2, <1>3 DEF Quiet
  <2> QED
    BY <1>5, <2>2, <2>3, <2>4, <2>5, <2>6 DEF Settled
<1> QED
  BY <1>1, <1>6, <1>7 DEF GetConn

\* KacheClient.connect: nobody has a connection, one is taken.
LEMMA ConnectStep ==
  ASSUME Settled, NEW t \in Threads, Connect(t), opener = None,
         \A u \in Threads : pc[u] = "idle" /\ pipe[u] = None
  PROVE  Connecting(t)'
<1>1. PICK c \in Conns : GetConnection(c) /\ conn' = [conn EXCEPT ![t] = c]
  BY DEF Connect
<1>2. /\ dedicated' = dedicated /\ opener' = t /\ pc' = [pc EXCEPT ![t] = "connect"]
      /\ UNCHANGED <<todo, borrowed, pipe>>
  BY DEF Connect
<1>3. CallTyped /\ Coherent /\ Homes /\ Streams /\ TypeOK /\ ModeTyped
  BY TypeParts DEF Settled
<1>4. dedicated = None /\ \A u \in Threads : conn[u] = None /\ todo[u] = <<>> /\ ~Reading(u)
  <2>1. dedicated = None
    BY <1>3, Numbers DEF Homes
  <2> QED
    BY <2>1, Idle DEF Reading
<1>5. /\ pc'[t] = "connect" /\ conn'[t] = c
      /\ \A u \in Threads \ {t} : pc'[u] = "idle" /\ conn'[u] = None
  BY <1>1, <1>2, <1>3, <1>4 DEF CallTyped
<1>6. CallTyped' /\ Coherent'
  <2>1. CallTyped'
    BY <1>1, <1>2, <1>3 DEF CallTyped
  <2> QED
    BY <1>2, <1>4, <1>5, <2>1 DEF Coherent
<1>7. TypeOK' /\ Alone(t)'
  <2>1. ModeTyped'
    BY <1>1, <1>2, <1>3, <1>4, GetFacts DEF ModeTyped
  <2>2. TypeOK'
    BY <1>1, <1>4, <1>6, <2>1, GetFacts DEF TypeOK, PoolTyped, CallTyped, ModeTyped, Reply
  <2> QED
    BY <1>2, <1>5, <2>2 DEF Alone
<1>8. \A d \in open' : Held(d)'
  <2>1. ASSUME NEW d \in Conns \ {c}, d \in open'
        PROVE  Held(d)'
    <3>1. d \in open /\ (d \in Elems(queue) => d \in Elems(queue'))
      BY <1>1, <1>4, <2>1, GetFacts DEF Same
    <3>2. Held(d) /\ d # None
      BY <1>3, <3>1, Numbers DEF Streams
    <3> QED
      BY <1>2, <1>4, <3>1, <3>2 DEF Held
  <2>2. open' \subseteq Conns
    BY <1>7 DEF TypeOK
  <2> QED
    BY <1>5, <2>1, <2>2 DEF Held
<1>9. \A d \in Conns : Clean(d)'
  <2>1. \A u \in Threads, d \in Conns : ~Reads(u, d) /\ ~Reads(u, d)'
    BY <1>4, <1>5 DEF Reads, Reading
  <2>2. ASSUME NEW d \in Conns \ {c}
        PROVE  Clean(d)'
    <3>1. (d \in open' => Same(d)) /\ (d \notin open' => wire'[d] = <<>>)
      BY <1>1, <1>4, GetFacts
    <3> QED
      BY <1>3, <2>1, <3>1 DEF Streams, Clean, Same
  <2>3. Clean(c)'
    BY <1>1, <1>4, <2>1, GetFacts DEF Clean
  <2> QED
    BY <2>2, <2>3
<1>10. active' >= Len(queue') + 1
  <2>1. active \in Nat /\ Len(queue) \in Nat /\ active >= Len(queue)
    <3>1. active >= Len(queue) + Cardinality(Executing)
      BY <1>4 DEF Settled, Counted, Slots
    <3> QED
      BY <1>3, <3>1, Numbers, QueueFacts, ExecutingFinite DEF TypeOK, Settled
  <2>2. queue # <<>> => Len(Tail(queue)) = Len(queue) - 1
    BY <1>3, QueueFacts
  <2>3. \/ queue' = queue /\ active' = active + 1
        \/ queue # <<>> /\ queue' = Tail(queue) /\ active' = active
    BY <1>1, <1>4, GetFacts
  <2> QED
    BY <2>1, <2>2, <2>3
<1>11. NoRepeat(queue') /\ conn'[t] \notin Elems(queue')
  BY <1>1, <1>4, <1>5, GetFacts
<1> QED
  BY <1>2, <1>4, <1>5, <1>6, <1>7, <1>8, <1>9, <1>10, <1>11 DEF Connecting, Streams

\* It becomes the dedicated one; there was none to be left.
LEMMA ConnectedStep ==
  ASSUME NEW t \in Threads, Connecting(t), Connected(t)
  PROVE  Settled'
<1>1. /\ TypeOK /\ CallTyped /\ PoolTyped /\ ModeTyped /\ Coherent /\ Streams
      /\ pc[t] = "connect" /\ dedicated = None /\ opener = t /\ pipe[t] = None
      /\ NoRepeat(queue) /\ conn[t] \notin Elems(queue) /\ active >= Len(queue) + 1
      /\ \A u \in Threads \ {t} : pc[u] = "idle" /\ conn[u] = None /\ pipe[u] = None
  BY TypeParts DEF Connecting, Alone
<1>2. PICK c \in Conns : c = conn[t] /\ c # None
  BY <1>1, Numbers DEF Coherent
<1>3. /\ dedicated' = c /\ lent' = lent \cup {c} /\ pc' = [pc EXCEPT ![t] = "idle"]
      /\ conn' = [conn EXCEPT ![t] = None]
      /\ UNCHANGED <<queue, active, opener, todo, borrowed, pipe, open, ended, wire, tainted>>
  BY <1>1, <1>2 DEF Connected, Left, pool, sock
<1>4. /\ \A u \in Threads : pc'[u] = "idle" /\ conn'[u] = None /\ pipe'[u] = None
      /\ todo[t] = <<>> /\ \A u \in Threads : todo'[u] = <<>>
  BY <1>1, <1>3 DEF CallTyped, Coherent
<1>5. TypeOK' /\ Coherent' /\ Quiet'
  <2>1. CallTyped'
    BY <1>1, <1>3 DEF CallTyped
  <2>2. PoolTyped'
    BY <1>1, <1>3 DEF PoolTyped
  <2>3. ModeTyped'
    BY <1>1, <1>2, <1>3 DEF ModeTyped
  <2>4. TypeOK'
    BY <2>1, <2>2, <2>3 DEF TypeOK, PoolTyped, CallTyped, ModeTyped, Reply
  <2> QED
    BY <1>4, <2>4 DEF Coherent, Quiet
<1>6. Homes'
  <2>1. None \notin Elems(queue)
    <3>1. queue \in Seq(Conns) /\ DOMAIN queue = 1 .. Len(queue)
      BY <1>1, LenProperties DEF PoolTyped
    <3> QED
      BY <3>1, Numbers DEF Elems
  <2> QED
    BY <1>1, <1>2, <1>3, <1>4, <2>1 DEF Homes
<1>7. Streams'
  <2>1. \A d \in open' : Held(d)'
    <3>1. \A d \in open : d # None
      BY <1>1, Numbers DEF PoolTyped
    <3> QED
      BY <1>1, <1>2, <1>3, <1>4, <3>1 DEF Streams, Held
  <2>2. \A u \in Threads, d \in Conns : ~Reads(u, d) /\ ~Reads(u, d)'
    BY <1>1, <1>4 DEF Reads, Reading
  <2>3. \A d \in Conns : Clean(d)'
    BY <1>1, <1>3, <2>2 DEF Streams, Clean
  <2> QED
    BY <2>1, <2>3 DEF Streams
<1>8. Counted'
  BY <1>1, <1>2, <1>3 DEF Counted, Slots
<1> QED
  BY <1>5, <1>6, <1>7, <1>8 DEF Settled

-----------------------------------------------------------------------------
(* Giving a connection back *)

\* The Pipeline object is dropped.
LEMMA DropPipelineStep ==
  ASSUME Settled, NEW t \in Threads, DropPipeline(t)
  PROVE  Settled'
<1>1. /\ pc[t] = "idle" /\ pipe[t] # None /\ pipe' = [pipe EXCEPT ![t] = None]
      /\ Left(pipe[t], wire)
      /\ UNCHANGED <<queue, active, dedicated, opener, lent, borrowed, pc, conn, todo>>
  BY DEF DropPipeline, pool, mode, call
<1>2. Quiet /\ ModeTyped /\ CallTyped /\ Coherent /\ Homes /\ Streams /\ TypeOK /\ PoolTyped
  BY TypeParts DEF Settled
<1>3. PICK c \in Conns : c = pipe[t]
  BY <1>1, <1>2 DEF CallTyped
<1>4. /\ pipe'[t] = None /\ \A u \in Threads \ {t} : pipe'[u] = pipe[u]
      /\ conn[t] = None
  BY <1>1, <1>2, Idle DEF CallTyped
<1>5. CallTyped' /\ Coherent'
  <2>1. CallTyped'
    BY <1>1, <1>2 DEF CallTyped
  <2> QED
    BY <1>1, <1>2, <1>4, <2>1 DEF Coherent
<1>6. c # None /\ \A u \in Threads : conn[u] # c /\ (u # t => pipe[u] # c)
  BY <1>3, <1>4, OnlyReader, Numbers
<1>7. /\ open' \subseteq Conns /\ tainted' \subseteq open' /\ ended' \subseteq tainted'
      /\ wire' \in [Conns -> Seq(Reply)]
      /\ \A d \in Conns \ {c} : Same(d)
      /\ c \in open' => Held(c)'
      /\ Same(c) \/ (c \notin open' /\ wire'[c] = <<>>)
  <2>1. wire \in [Conns -> Seq(Reply)]
    BY <1>2 DEF PoolTyped
  <2>2. /\ open' \subseteq Conns /\ tainted' \subseteq open' /\ ended' \subseteq tainted'
        /\ open' \subseteq open
        /\ wire' \in [Conns -> Seq(Reply)]
        /\ c \in open' => Held(c)'
        /\ \/ c \notin open' /\ wire'[c] = <<>>
           \/ /\ wire'[c] = wire[c]
              /\ (c \in open' <=> c \in open) /\ (c \in tainted' <=> c \in tainted)
        /\ \A d \in Conns \ {c} : Same(d)
    BY <1>1, <1>2, <1>3, <2>1, LeftFacts
  <2> QED
    BY <2>2 DEF Same
<1>8. TypeOK' /\ Quiet'
  <2>1. TypeOK'
    BY <1>1, <1>2, <1>5, <1>7 DEF TypeOK, PoolTyped, CallTyped, ModeTyped, Reply
  <2> QED
    BY <1>1, <1>2, <2>1 DEF Quiet
<1>9. Homes'
  <2>1. \A u \in Threads : pipe'[u] \notin Elems(queue)
    BY <1>2, <1>4, QueueFacts DEF Homes
  <2>2. \A u, v \in Threads :
          u # v => /\ conn[u] # None => conn[u] # pipe'[v]
                   /\ pipe'[u] # None => pipe'[u] # pipe'[v]
    BY <1>2, <1>4 DEF Homes
  <2>3. dedicated = None => \A u \in Threads : pc[u] \in Calling => conn[u] # pipe'[u]
    BY <1>1, <1>2, <1>4 DEF Homes, Calling
  <2>4. dedicated # None =>
          /\ \A u \in Threads : pipe'[u] \in {None, dedicated}
          /\ \A u \in Threads \ {opener} : pipe'[u] = None
    BY <1>2, <1>4 DEF Homes
  <2> QED
    BY <1>1, <1>2, <2>1, <2>2, <2>3, <2>4 DEF Homes
<1>10. \A d \in open' : Held(d)'
  <2>1. ASSUME NEW d \in open'
        PROVE  Held(d)'
    <3>1. d \in Conns /\ d # None /\ (d # c => d \in open)
      BY <1>7, Numbers DEF Same
    <3>2. CASE d = c
      BY <1>7, <2>1, <3>2
    <3>3. CASE d # c
      BY <1>1, <1>2, <1>3, <1>4, <3>1, <3>3 DEF Streams, Held
    <3> QED
      BY <3>2, <3>3
  <2> QED
    BY <2>1
<1>11. \A d \in Conns : Clean(d)'
  <2>1. \A u \in Threads, d \in Conns : Reads(u, d)' <=> Reads(u, d)
    BY <1>1 DEF Reads, Reading
  <2>2. \A d \in Conns : Clean(d) /\ (Same(d) \/ d = c)
    BY <1>2, <1>7 DEF Streams
  <2>3. \A u \in Threads : Requests(u, todo'[u]) = Requests(u, todo[u])
    BY <1>1
  <2> QED
    BY <1>7, <2>1, <2>2, <2>3 DEF Clean, Same
<1>12. Counted'
  BY <1>1 DEF Settled, Counted, Slots, Executing
<1> QED
  BY <1>5, <1>8, <1>9, <1>10, <1>11, <1>12 DEF Settled, Streams

\* A call's connection goes back to the pool.
LEMMA FinallyReleases ==
  ASSUME Settled, NEW t \in Threads, Finally(t), dedicated = None
  PROVE  Settled'
<1>1. PICK c \in Conns : c = conn[t]
  BY InCall DEF Finally
<1>2. /\ pc[t] = "finally" /\ Released(c, Orphaned(t, c))
      /\ dedicated' = dedicated /\ opener' = opener /\ lent' = lent /\ pipe' = pipe
      /\ borrowed' = borrowed \ {t}
      /\ todo[t] = <<>> /\ todo' = todo /\ c # None
  BY <1>1, InCall DEF Finally, mode
<1>3. Quiet /\ ModeTyped /\ CallTyped /\ Coherent /\ Homes /\ Streams /\ TypeOK /\ PoolTyped
  BY TypeParts DEF Settled
<1>4. Turn(t, "idle", None, <<>>) /\ Fits("idle", None, <<>>, pipe[t])
  BY <1>2, <1>3 DEF Finally, Turn, Fits, CallTyped
<1>5. CallTyped' /\ Coherent'
  BY <1>2, <1>4, TurnCoherent
<1>6. /\ pc'[t] = "idle" /\ conn'[t] = None
      /\ \A u \in Threads \ {t} : pc'[u] = pc[u] /\ conn'[u] = conn[u]
  BY <1>3, <1>4, TurnValues
<1>7. /\ c \notin Elems(queue) /\ c # pipe[t]
      /\ \A u \in Threads \ {t} : conn[u] # c /\ pipe[u] # c
  BY <1>1, <1>2, <1>3, OnlyReader DEF Homes, Calling
<1>8. t \in Executing /\ Cardinality(Executing \ {t}) = Cardinality(Executing) - 1
      /\ Cardinality(Executing) \in Nat /\ Cardinality(Executing \ {t}) \in Nat
  <2>1. t \in Executing
    BY <1>2 DEF Executing, Calling
  <2>2. Executing \ {t} \in SUBSET Threads
    BY DEF Executing
  <2> QED
    BY <2>1, <2>2, ExecutingFinite, FS_RemoveElement
<1>9. /\ active >= Len(queue) + Cardinality(Executing)
      /\ active \in Nat /\ Len(queue) \in Nat /\ active # 0
  <2>1. active >= Len(queue) + Cardinality(Executing) /\ active \in Nat /\ Len(queue) \in Nat
    BY Numbers, QueueFacts DEF Settled, Counted, Slots, TypeOK
  <2> QED
    BY <1>8, <2>1
<1>10. /\ Orphaned(t, c) \in [Conns -> Seq(Reply)]
       /\ \A d \in Conns \ {c} : Orphaned(t, c)[d] = wire[d]
       /\ wire[c] = <<>> => Orphaned(t, c)[c] = <<>>
  BY OrphanedFacts
<1>11. /\ PoolTyped'
       /\ NoRepeat(queue') /\ Elems(queue) \subseteq Elems(queue')
       /\ Elems(queue') \subseteq Elems(queue) \cup {c}
       /\ c \in open' => /\ c \in Elems(queue') /\ wire'[c] = Orphaned(t, c)[c]
                         /\ c \in tainted' <=> c \in tainted
       /\ c \notin open' => wire'[c] = <<>>
       /\ \A d \in Conns \ {c} : Same(d)
       /\ \/ Len(queue') = Len(queue) + 1 /\ active' = active
          \/ queue' = queue /\ active' = active - 1
  BY <1>2, <1>7, <1>9, <1>10, ReleaseFacts
<1>12. TypeOK' /\ Quiet'
  <2>1. TypeOK'
    BY <1>2, <1>3, <1>5, <1>11 DEF TypeOK, PoolTyped, CallTyped, ModeTyped, Reply
  <2> QED
    BY <1>3, <1>6, <2>1 DEF Quiet
<1>13. Homes'
  <2>1. \A u \in Threads : conn'[u] \notin Elems(queue') /\ pipe'[u] \notin Elems(queue')
    BY <1>2, <1>3, <1>6, <1>7, <1>11, QueueFacts DEF Homes
  <2>2. None \notin Elems(queue')
    BY <1>2, <1>3, <1>11, QueueFacts
  <2> QED
    BY <1>2, <1>3, <1>6, <1>11, <2>1, <2>2 DEF Homes, Calling
<1>14. \A d \in open' : Held(d)'
  <2>1. ASSUME NEW d \in Conns \ {c}, d \in open'
        PROVE  Held(d)'
    <3>1. Held(d) /\ d # None
      BY <1>3, <1>11, <2>1, Numbers DEF Streams, Same
    <3> QED
      BY <1>1, <1>2, <1>6, <1>11, <2>1, <3>1 DEF Held
  <2>2. open' \subseteq Conns
    BY <1>11 DEF PoolTyped
  <2> QED
    BY <1>11, <2>1, <2>2 DEF Held
<1>15. \A d \in Conns : Clean(d)'
  <2>1. wire[c] = <<>> \/ c \in open \cap tainted
    BY <1>1, <1>2, <1>3, InCall DEF Reading, Streams, Clean
  <2>2. Clean(c)'
    <3>1. c \in open' \ tainted' \/ c \notin open' => wire'[c] = <<>>
      BY <1>10, <1>11, <2>1
    <3> QED
      BY <1>1, <1>4, <3>1, NotRead
  <2>3. ASSUME NEW d \in Conns \ {c}
        PROVE  Clean(d)'
    <3>1. ~Reads(t, d) /\ d # None
      BY <1>1, Numbers DEF Reads
    <3> QED
      BY <1>4, <1>11, <3>1, CleanElsewhere
  <2> QED
    BY <2>2, <2>3
<1>16. Counted'
  <2>1. Executing' = Executing \ {t}
    BY <1>6 DEF Executing, Calling
  <2>2. active' >= Len(queue') + Cardinality(Executing')
    BY <1>8, <1>9, <1>11, <2>1
  <2> QED
    BY <1>2, <2>2 DEF Counted, Slots
<1> QED
  BY <1>5, <1>12, <1>13, <1>14, <1>15, <1>16 DEF Settled, Streams

LEMMA FinallyStep ==
  ASSUME Settled, NEW t \in Threads, Finally(t)
  PROVE  Settled'
<1>1. CASE dedicated = None
  BY <1>1, FinallyReleases
<1>2. CASE dedicated # None
  <2>1. PICK c \in Conns : c = conn[t]
    BY InCall DEF Finally
  <2>2. /\ pc[t] = "finally" /\ Left(c, Orphaned(t, c)) /\ pipe' = pipe
        /\ UNCHANGED <<pool, mode>> /\ borrowed' = borrowed \ {t}
        /\ c = dedicated /\ todo[t] = <<>> /\ todo' = todo
    BY <1>2, <2>1, InCall DEF Finally
  <2>3. Turn(t, "idle", None, <<>>) /\ Fits("idle", None, <<>>, pipe[t])
    BY <2>2, TypeParts DEF Finally, Turn, Fits, CallTyped, Settled
  <2>4. TypeOK /\ borrowed' \subseteq Threads
    BY <2>2, TypeParts DEF Settled, ModeTyped
  <2>5. /\ open' \subseteq open /\ open' \subseteq Conns
        /\ tainted' \subseteq open' /\ ended' \subseteq tainted'
        /\ wire' \in [Conns -> Seq(Reply)]
        /\ \/ c \notin open' /\ wire'[c] = <<>>
           \/ /\ wire'[c] = Orphaned(t, c)[c]
              /\ (c \in open' <=> c \in open) /\ (c \in tainted' <=> c \in tainted)
        /\ \A d \in Conns \ {c} : Same(d)
    BY <2>2, <2>4, OrphanedFacts, LeftFacts
  <2>6. Clean(c)'
    <3>1. wire[c] = <<>> \/ c \in open \cap tainted
      BY <2>1, <2>2, InCall DEF Reading, Settled, Streams, Clean
    <3>2. wire[c] = <<>> => wire'[c] = <<>>
      BY <2>5, OrphanedFacts
    <3>3. c \in open' \ tainted' \/ c \notin open' => wire'[c] = <<>>
      BY <2>5, <3>1, <3>2
    <3> QED
      BY <2>1, <2>3, <3>3, NotRead
  <2>7. "idle" \notin Calling
    BY DEF Calling
  <2> QED
    BY <1>2, <2>1, <2>2, <2>3, <2>4, <2>5, <2>6, <2>7, TurnStep
<1> QED
  BY <1>1, <1>2

\* KacheClient.close: the thread that connected is the only one with a connection.
LEMMA CloseStep ==
  ASSUME Settled, NEW t \in Threads, Close(t), MayUse(t), pipe[t] = None
  PROVE  Closing(t)'
<1>1. /\ opener = t /\ dedicated # None /\ pc[t] = "idle" /\ pipe[t] = None
      /\ Released(dedicated, wire) /\ pc' = [pc EXCEPT ![t] = "closing"]
      /\ UNCHANGED <<dedicated, opener, lent, borrowed, conn, todo, pipe>>
  BY Numbers DEF Close, MayUse, mode, Settled, Homes
<1>2. ModeTyped /\ CallTyped /\ Coherent /\ Homes /\ Streams /\ TypeOK /\ PoolTyped
  BY TypeParts DEF Settled
<1>3. PICK c \in Conns : c = dedicated
  BY <1>1, <1>2 DEF TypeOK
<1>4. \A u \in Threads : conn[u] = None /\ pipe[u] = None
  BY <1>1, <1>2, Idle DEF Homes
<1>5. CallTyped' /\ Coherent' /\ Alone(t)' /\ pc'[t] = "closing"
  <2>1. pc'[t] = "closing" /\ \A u \in Threads \ {t} : pc'[u] = pc[u]
    BY <1>1, <1>2 DEF CallTyped
  <2>2. CallTyped'
    BY <1>1, <1>2 DEF CallTyped
  <2>3. \A u \in Threads \ {t} : pc[u] = "idle"
    BY <1>2, <1>4, Numbers DEF Coherent, Settled, Quiet, CallTyped
  <2> QED
    BY <1>1, <1>2, <1>4, <2>1, <2>2, <2>3 DEF Coherent, Alone
<1>6. /\ active >= Len(queue) + 1
      /\ active \in Nat /\ Len(queue) \in Nat /\ active # 0
  <2>1. active >= Len(queue) + 1 /\ active \in Nat /\ Len(queue) \in Nat
    BY <1>1, Numbers, QueueFacts DEF Settled, Counted, Slots, TypeOK
  <2> QED
    BY <2>1
<1>7. c \notin Elems(queue) /\ c # None /\ wire \in [Conns -> Seq(Reply)]
  BY <1>2, <1>3, Numbers DEF Homes, PoolTyped
<1>8. /\ PoolTyped'
      /\ NoRepeat(queue') /\ Elems(queue) \subseteq Elems(queue')
      /\ Elems(queue') \subseteq Elems(queue) \cup {c}
      /\ c \in open' => /\ c \in Elems(queue') /\ wire'[c] = wire[c]
                        /\ c \in tainted' <=> c \in tainted
      /\ c \notin open' => wire'[c] = <<>>
      /\ \A d \in Conns \ {c} : Same(d)
      /\ \/ Len(queue') = Len(queue) + 1 /\ active' = active
         \/ queue' = queue /\ active' = active - 1
  BY <1>1, <1>3, <1>6, <1>7, ReleaseFacts
<1>9. TypeOK'
  BY <1>1, <1>2, <1>5, <1>8 DEF TypeOK, PoolTyped, CallTyped, ModeTyped, Reply
<1>12. \A d \in open' : Held(d)'
  <2>1. ASSUME NEW d \in Conns \ {c}, d \in open'
        PROVE  Held(d)'
    <3>1. Held(d) /\ d # None
      BY <1>2, <1>8, <2>1, Numbers DEF Streams, Same
    <3> QED
      BY <1>1, <1>3, <1>4, <1>8, <2>1, <3>1 DEF Held
  <2>2. open' \subseteq Conns
    BY <1>8 DEF PoolTyped
  <2> QED
    BY <1>8, <2>1, <2>2 DEF Held
<1>13. \A d \in Conns : Clean(d)'
  <2>1. \A u \in Threads, d \in Conns : ~Reads(u, d) /\ ~Reads(u, d)'
    BY <1>1, <1>4, Numbers DEF Reads
  <2>2. ASSUME NEW d \in Conns \ {c}
        PROVE  Clean(d)'
    BY <1>2, <1>8, <2>1 DEF Streams, Clean, Same
  <2>3. Clean(c)'
    BY <1>2, <1>8, <2>1 DEF Streams, Clean
  <2> QED
    BY <2>2, <2>3
<1>14. active' >= Len(queue')
  BY <1>6, <1>8
<1> QED
  BY <1>1, <1>5, <1>8, <1>9, <1>12, <1>13, <1>14 DEF Closing, Streams

\* No connection is dedicated any more.
LEMMA CloseDoneStep ==
  ASSUME NEW t \in Threads, Closing(t), CloseDone(t)
  PROVE  Settled'
<1>1. /\ TypeOK /\ CallTyped /\ PoolTyped /\ ModeTyped /\ Coherent /\ Streams
      /\ pc[t] = "closing" /\ dedicated # None /\ opener = t /\ pipe[t] = None
      /\ NoRepeat(queue) /\ active >= Len(queue)
      /\ \A u \in Threads \ {t} : pc[u] = "idle" /\ conn[u] = None /\ pipe[u] = None
  BY TypeParts DEF Closing, Alone
<1>2. PICK c \in Conns : c = dedicated
  BY <1>1 DEF ModeTyped
<1>3. /\ dedicated' = None /\ opener' = None /\ pc' = [pc EXCEPT ![t] = "idle"]
      /\ UNCHANGED <<queue, active, lent, conn, todo, borrowed, pipe>>
      /\ Left(c, wire)
  BY <1>2 DEF CloseDone, pool
<1>4. /\ \A u \in Threads : pc'[u] = "idle" /\ conn[u] = None /\ pipe[u] = None
      /\ \A u \in Threads : todo[u] = <<>>
  BY <1>1, <1>3 DEF CallTyped, Coherent
<1>5. /\ open' \subseteq open /\ open' \subseteq Conns
      /\ tainted' \subseteq open' /\ ended' \subseteq tainted'
      /\ wire' \in [Conns -> Seq(Reply)]
      /\ c \in open' => Held(c)'
      /\ Same(c) \/ (c \notin open' /\ wire'[c] = <<>>)
      /\ \A d \in Conns \ {c} : Same(d)
  <2>1. wire \in [Conns -> Seq(Reply)]
    BY <1>1 DEF PoolTyped
  <2>2. /\ open' \subseteq Conns /\ tainted' \subseteq open' /\ ended' \subseteq tainted'
        /\ open' \subseteq open
        /\ wire' \in [Conns -> Seq(Reply)]
        /\ c \in open' => Held(c)'
        /\ \/ c \notin open' /\ wire'[c] = <<>>
           \/ /\ wire'[c] = wire[c]
              /\ (c \in open' <=> c \in open) /\ (c \in tainted' <=> c \in tainted)
        /\ \A d \in Conns \ {c} : Same(d)
    BY <1>1, <1>3, <2>1, LeftFacts
  <2> QED
    BY <2>2 DEF Same
<1>6. TypeOK' /\ Coherent' /\ Quiet'
  <2>1. CallTyped'
    BY <1>1, <1>3 DEF CallTyped
  <2>2. PoolTyped'
    BY <1>1, <1>3, <1>5 DEF PoolTyped
  <2>3. ModeTyped'
    BY <1>1, <1>3 DEF ModeTyped
  <2>4. TypeOK'
    BY <2>1, <2>2, <2>3 DEF TypeOK, PoolTyped, CallTyped, ModeTyped, Reply
  <2> QED
    BY <1>3, <1>4, <2>4 DEF Coherent, Quiet
<1>7. Homes'
  <2>1. None \notin Elems(queue)
    <3>1. queue \in Seq(Conns) /\ DOMAIN queue = 1 .. Len(queue)
      BY <1>1, LenProperties DEF PoolTyped
    <3> QED
      BY <3>1, Numbers DEF Elems
  <2> QED
    BY <1>1, <1>3, <1>4, <2>1 DEF Homes, Calling
<1>8. Streams'
  <2>1. ASSUME NEW d \in open', d # c
        PROVE  Held(d)'
    <3>1. d \in Conns /\ Held(d) /\ d # None
      BY <1>1, <1>5, <2>1, Numbers DEF Streams
    <3> QED
      BY <1>2, <1>3, <1>4, <2>1, <3>1 DEF Held
  <2>2. \A u \in Threads, d \in Conns : ~Reads(u, d) /\ ~Reads(u, d)'
    BY <1>1, <1>4 DEF Reads, Reading
  <2>3. \A d \in Conns : Clean(d)'
    <3>1. \A d \in Conns : Clean(d) /\ (Same(d) \/ d = c)
      BY <1>1, <1>5 DEF Streams
    <3> QED
      BY <1>5, <2>2, <3>1 DEF Clean, Same
  <2> QED
    BY <1>5, <2>1, <2>3 DEF Streams
<1>9. Counted'
  <2>1. Executing' = {}
    BY <1>4 DEF Executing, Calling
  <2>2. Cardinality(Executing') = 0
    BY <2>1, FS_EmptySet
  <2>3. queue \in Seq(Conns) /\ active \in Nat
    BY <1>1, Numbers DEF PoolTyped
  <2> QED
    BY <1>1, <1>3, <2>2, <2>3 DEF Counted, Slots
<1> QED
  BY <1>6, <1>7, <1>8, <1>9 DEF Settled

-----------------------------------------------------------------------------
(* The theorems *)

LEMMA InvInit == Init => Settled
<1> SUFFICES ASSUME Init
             PROVE  Settled
  OBVIOUS
<1>1. /\ queue = <<>> /\ active = 0 /\ dedicated = None /\ opener = None
      /\ open = {} /\ ended = {} /\ tainted = {}
      /\ wire = [c \in Conns |-> <<>>]
      /\ pc = [t \in Threads |-> "idle"] /\ conn = [t \in Threads |-> None]
      /\ todo = [t \in Threads |-> <<>>] /\ pipe = [t \in Threads |-> None]
      /\ lent = {} /\ borrowed = {}
  BY DEF Init
<1>2. queue \in Seq(Conns) /\ Len(queue) = 0 /\ DOMAIN queue = {} /\ Elems(queue) = {}
  BY <1>1, EmptySeq DEF Elems
<1>3. active \in 0 .. MaxConnections
  BY <1>1, Numbers
<1>4. PoolTyped
  BY <1>1, <1>2, <1>3, EmptySeq DEF PoolTyped
<1>5. CallTyped
  BY <1>1 DEF CallTyped
<1>6. TypeOK
  <2>1. ModeTyped
    BY <1>1 DEF ModeTyped
  <2> QED
    BY <1>4, <1>5, <2>1, TypeParts
<1>7. Coherent /\ Quiet
  BY <1>1 DEF Coherent, Quiet
<1>8. Homes
  BY <1>1, <1>2 DEF Homes, NoRepeat, Calling
<1>9. Streams
  BY <1>1 DEF Streams, Clean
<1>10. Counted
  <2>1. Executing = {}
    BY <1>1 DEF Executing, Calling
  <2>2. Cardinality(Executing) = 0
    BY <2>1, FS_EmptySet
  <2> QED
    BY <1>1, <1>2, <2>2 DEF Counted, Slots
<1> QED
  BY <1>6, <1>7, <1>8, <1>9, <1>10 DEF Settled

LEMMA Unchanged ==
  ASSUME Inv, UNCHANGED vars
  PROVE  Inv'
<1>1. /\ UNCHANGED <<queue, active, dedicated, opener, lent, open, ended, wire>>
      /\ UNCHANGED <<pc, conn, todo, borrowed, pipe, tainted>>
  BY DEF vars
<1>2. TypeOK => TypeOK'
  BY <1>1 DEF TypeOK
<1>3. Coherent => Coherent'
  BY <1>1 DEF Coherent
<1>4. Streams => Streams'
  BY <1>1 DEF Streams, Clean, Held, Reads, Reading
<1>5. CASE Settled
  <2>1. Quiet' /\ Homes'
    BY <1>1, <1>5 DEF Settled, Quiet, Homes
  <2>2. Counted'
    BY <1>1, <1>5 DEF Settled, Counted, Slots, Executing
  <2> QED
    BY <1>2, <1>3, <1>4, <1>5, <2>1, <2>2 DEF Settled, Inv
<1>6. ASSUME NEW t \in Threads, Connecting(t)
      PROVE  Connecting(t)'
  BY <1>1, <1>2, <1>3, <1>4, <1>6 DEF Connecting, Alone
<1>7. ASSUME NEW t \in Threads, Closing(t)
      PROVE  Closing(t)'
  BY <1>1, <1>2, <1>3, <1>4, <1>7 DEF Closing, Alone
<1> QED
  BY <1>5, <1>6, <1>7 DEF Inv

Step(t) == Execute(t) \/ Dedicated(t) \/ Pipeline(t)

\* What a thread does while another has the client to itself.
LEMMA Beside ==
  ASSUME TypeOK, NEW t \in Threads, Step(t), pc[t] = "idle", pipe[t] = None
  PROVE  UNCHANGED vars \/ pc'[t] # pc[t] \/ pipe'[t] # pipe[t]
<1>1. CallTyped /\ None \notin open
  BY TypeParts, Numbers DEF PoolTyped
<1>2. CASE CallExecute(t) \/ Connect(t) \/ Close(t)
  BY <1>1, <1>2 DEF CallExecute, Connect, Close, CallTyped
<1>3. CASE MakePipeline(t)
  <2>1. PICK c \in Conns : pipe' = [pipe EXCEPT ![t] = c]
    BY <1>3 DEF MakePipeline
  <2> QED
    BY <1>1, <2>1, Numbers DEF CallTyped
<1>4. CASE Refused(t)
  BY <1>4 DEF Refused
<1>5. ~Send(t) /\ ~Read(t) /\ ~ExecuteFails(t) /\ ~Interrupted(t) /\ ~Finally(t)
  BY DEF Send, Read, ExecuteFails, Interrupted, Finally
<1>6. ~Connected(t) /\ ~CloseDone(t) /\ ~DropPipeline(t) /\ ~ExecuteBatch(t)
  BY <1>1 DEF Connected, CloseDone, DropPipeline, ExecuteBatch
<1>7. ~Collect(t) /\ ~CollectError(t) /\ ~CollectEnds(t) /\ ~CollectInterrupted(t) /\ ~CollectFails(t)
  BY DEF Collect, CollectError, CollectEnds, CollectInterrupted, CollectFails
<1> QED
  BY <1>2, <1>3, <1>4, <1>5, <1>6, <1>7 DEF Step, Execute, Dedicated, Pipeline

\* What a thread does in the middle of connect or close.
LEMMA Amid ==
  ASSUME NEW t \in Threads, Step(t), pc[t] \in {"connect", "closing"}
  PROVE  IF pc[t] = "connect" THEN Connected(t) ELSE CloseDone(t)
<1>1. /\ ~CallExecute(t) /\ ~Refused(t) /\ ~Send(t) /\ ~Read(t)
      /\ ~ExecuteFails(t) /\ ~Interrupted(t) /\ ~Finally(t)
  BY DEF CallExecute, Refused, Send, Read, ExecuteFails, Interrupted, Finally
<1>2. ~Connect(t) /\ ~Close(t) /\ ~MakePipeline(t) /\ ~DropPipeline(t) /\ ~ExecuteBatch(t)
  BY DEF Connect, Close, MakePipeline, DropPipeline, ExecuteBatch
<1>3. ~Collect(t) /\ ~CollectError(t) /\ ~CollectEnds(t) /\ ~CollectInterrupted(t) /\ ~CollectFails(t)
  BY DEF Collect, CollectError, CollectEnds, CollectInterrupted, CollectFails
<1>4. Connected(t) => pc[t] = "connect"
  BY DEF Connected
<1>5. CloseDone(t) => pc[t] = "closing"
  BY DEF CloseDone
<1> QED
  BY <1>1, <1>2, <1>3, <1>4, <1>5 DEF Step, Execute, Dedicated, Pipeline

LEMMA SettledStep ==
  ASSUME Settled, NEW t \in Threads, Step(t), Disciplined
  PROVE  Inv'
<1>1. pc'[t] # pc[t] \/ pipe'[t] # pipe[t] => WithBlock(t)
  BY DEF Disciplined
<1>2. CallTyped /\ pc[t] \notin {"connect", "closing"}
  BY TypeParts DEF Settled, Quiet
<1>3. CASE CallExecute(t)
  <2>1. pc'[t] # pc[t] /\ pc[t] = "idle"
    BY <1>2, <1>3 DEF CallExecute, CallTyped
  <2> QED
    BY <1>1, <1>3, <2>1, CallExecuteStep DEF WithBlock, MayUse, Inv
<1>4. CASE MakePipeline(t)
  <2>1. PICK c \in Conns : pipe' = [pipe EXCEPT ![t] = c]
    BY <1>4 DEF MakePipeline
  <2>2. pipe'[t] # pipe[t] /\ pc[t] = "idle"
    BY <1>2, <1>4, <2>1, Numbers DEF MakePipeline, CallTyped
  <2> QED
    BY <1>1, <1>4, <2>2, MakePipelineStep DEF WithBlock, MayUse, Inv
<1>5. CASE Connect(t)
  <2>1. pc'[t] = "connect"
    BY <1>2, <1>5 DEF Connect, CallTyped
  <2> QED
    BY <1>1, <1>2, <1>5, <2>1, ConnectStep DEF WithBlock, Inv
<1>6. CASE Close(t)
  <2>1. pc'[t] = "closing" /\ pc[t] = "idle"
    BY <1>2, <1>6 DEF Close, CallTyped
  <2> QED
    BY <1>1, <1>2, <1>6, <2>1, CloseStep DEF WithBlock, MayUse, Inv
<1>7. CASE Refused(t)
  BY <1>7, Unchanged DEF Refused, Inv
<1>8. CASE Send(t) \/ Read(t) \/ ExecuteFails(t) \/ Interrupted(t) \/ Finally(t)
  BY <1>8, SendStep, ReadStep, ExecuteFailsStep, InterruptedStep, FinallyStep DEF Inv
<1>9. CASE DropPipeline(t) \/ ExecuteBatch(t) \/ Collect(t) \/ CollectError(t)
  BY <1>9, DropPipelineStep, ExecuteBatchStep, CollectStep, CollectErrorStep DEF Inv
<1>10. CASE CollectEnds(t) \/ CollectInterrupted(t) \/ CollectFails(t)
  BY <1>10, CollectEndsStep, CollectFailsStep DEF Inv
<1>11. ~Connected(t) /\ ~CloseDone(t)
  BY <1>2 DEF Connected, CloseDone
<1> QED
  BY <1>3, <1>4, <1>5, <1>6, <1>7, <1>8, <1>9, <1>10, <1>11
  DEF Step, Execute, Dedicated, Pipeline

\* While one thread connects or closes, it does nothing else, and the others nothing.
LEMMA EdgeStep ==
  ASSUME NEW u \in Threads, Connecting(u) \/ Closing(u),
         NEW t \in Threads, Step(t), Disciplined
  PROVE  Inv'
<1>1. Inv /\ TypeOK /\ Alone(u) /\ pc[u] \in {"connect", "closing"}
  BY DEF Inv, Connecting, Closing
<1>2. CASE t = u
  <2>1. CASE Connecting(u)
    <3>1. Connected(u)
      BY <1>2, <2>1, Amid DEF Connecting
    <3> QED
      BY <2>1, <3>1, ConnectedStep DEF Inv
  <2>2. CASE Closing(u)
    <3>1. CloseDone(u)
      BY <1>2, <2>2, Amid DEF Closing
    <3> QED
      BY <2>2, <3>1, CloseDoneStep DEF Inv
  <2> QED
    BY <2>1, <2>2
<1>3. CASE t # u
  <2>1. pc[t] = "idle" /\ pipe[t] = None /\ opener = u
    BY <1>1, <1>3 DEF Alone
  <2>2. opener # None
    BY <2>1, Numbers
  <2>3. pc'[t] = pc[t] /\ pipe'[t] = pipe[t]
    BY <1>3, <2>1, <2>2 DEF Disciplined, WithBlock
  <2>4. UNCHANGED vars
    BY <1>1, <2>1, <2>3, Beside
  <2> QED
    BY <1>1, <2>4, Unchanged
<1> QED
  BY <1>2, <1>3

LEMMA InvStep == Inv /\ [Next /\ Disciplined]_vars => Inv'
<1> SUFFICES ASSUME Inv, [Next /\ Disciplined]_vars
             PROVE  Inv'
  OBVIOUS
<1>1. CASE UNCHANGED vars
  BY <1>1, Unchanged
<1>2. CASE Next /\ Disciplined
  <2>1. PICK t \in Threads : Step(t)
    BY <1>2 DEF Next, Step
  <2> QED
    BY <1>2, <2>1, SettledStep, EdgeStep DEF Inv
<1> QED
  BY <1>1, <1>2

LEMMA Invariant == WithSpec => []Inv
<1>1. Init => Inv
  BY InvInit DEF Inv
<1> QED
  BY <1>1, InvStep, PTL DEF WithSpec

\* Where a `with` block has the client to itself, the pool's queue and counter, the
\* streams of the connections and what the threads wait for always have their types;
\* the counter stays between zero and max_connections, and a connection whose server
\* side has closed is one a reply was given up on.
THEOREM TypeCorrect == WithSpec => []TypeOK
<1>1. Inv => TypeOK
  BY DEF Inv, Settled, Connecting, Closing
<1> QED
  BY <1>1, Invariant, PTL

\* A reply is tied to its command by nothing but the order on the connection, and where
\* a `with` block has the client to itself the order holds: until a failed batch or an
\* interrupt leaves replies on a connection, what is unread on it is what its one user
\* waits for, and nothing when nobody reads.
THEOREM RepliesInStep == WithSpec => []InStep
<1>1. Inv => InStep
  <2> SUFFICES ASSUME Inv
               PROVE  InStep
    OBVIOUS
  <2>1. open \subseteq Conns /\ \A c \in Conns : Clean(c)
    BY DEF Inv, Settled, Connecting, Closing, Streams, TypeOK
  <2> QED
    BY <2>1 DEF InStep, InStepOn, Clean, Reads
<1> QED
  BY <1>1, Invariant, PTL

-----------------------------------------------------------------------------
(* One user for every connection that was never dedicated, whatever anybody does *)

Pcs == {"idle", "send", "read", "finally", "connect", "closing", "collect"}

\* What the argument needs of the types; active may be anything.
PlacesTyped ==
  /\ queue \in Seq(Conns)
  /\ dedicated \in Conns \cup {None} /\ lent \subseteq Conns
  /\ pc \in [Threads -> Pcs]
  /\ conn \in [Threads -> Conns \cup {None}]
  /\ pipe \in [Threads -> Conns \cup {None}]

\* A thread's steps tell what it has; what is dedicated has been lent.
PlacesKnown ==
  /\ dedicated \in lent \cup {None}
  /\ \A t \in Threads :
       /\ pc[t] \in {"idle", "closing"} => conn[t] = None
       /\ pc[t] \notin {"idle", "closing"} => conn[t] \in Conns
       /\ pc[t] = "collect" => conn[t] = pipe[t]

Once(c) == \A i, j \in DOMAIN queue : queue[i] = c /\ queue[j] = c => i = j

\* Connection c has one user.
Single(c) ==
  /\ Once(c)
  /\ c \in Elems(queue) => c \notin InUse
  /\ \A t, u \in Threads :
       /\ conn[t] = c /\ conn[u] = c => t = u
       /\ pipe[t] = c /\ pipe[u] = c => t = u
       /\ conn[t] = c /\ pipe[u] = c => t = u /\ pc[t] = "collect"

Places == PlacesTyped /\ PlacesKnown /\ \A c \in Conns \ lent : Single(c)

LEMMA OneUserIs == OneUser <=> \A c \in Conns \ lent : Single(c)
  BY DEF OneUser, Single, Once, ToSet, Elems

LEMMA InUseIs ==
  ASSUME NEW c \in Conns
  PROVE  /\ c \in InUse <=> c = dedicated \/ \E t \in Threads : conn[t] = c \/ pipe[t] = c
         /\ c \in InUse' <=> c = dedicated' \/ \E t \in Threads : conn'[t] = c \/ pipe'[t] = c
  BY Numbers DEF InUse

\* get_connection: what it returns has no other user; the queue only loses its head.
LEMMA TakenFacts ==
  ASSUME Places, NEW c \in Conns, GetConnection(c)
  PROVE  /\ queue' \in Seq(Conns) /\ lent' \subseteq lent /\ lent \subseteq lent' \cup {c}
         /\ c \notin lent' => c \notin Elems(queue') /\ c \notin InUse
         /\ Elems(queue') \subseteq Elems(queue)
         /\ \A d \in Conns : Once(d) => Once(d)'
<1>1. queue \in Seq(Conns) /\ Len(queue) \in Nat /\ DOMAIN queue = 1 .. Len(queue)
  BY LenProperties DEF Places, PlacesTyped
<1>2. ASSUME queue # <<>>, queue' = Tail(queue)
      PROVE  /\ queue' \in Seq(Conns) /\ Elems(queue') \subseteq Elems(queue)
             /\ \A d \in Conns : Once(d) => Once(d)'
             /\ Head(queue) \in Elems(queue) /\ Head(queue) \in Conns
             /\ Once(Head(queue)) => Head(queue) \notin Elems(queue')
  <2>1. /\ Tail(queue) \in Seq(Conns) /\ Len(Tail(queue)) = Len(queue) - 1 /\ Len(queue) \in Nat \ {0}
        /\ \A i \in 1 .. Len(queue) - 1 : Tail(queue)[i] = queue[i + 1]
        /\ Head(queue) = queue[1]
    BY <1>1, <1>2, HeadTailProperties, EmptySeq
  <2>2. DOMAIN queue' = 1 .. Len(queue) - 1 /\ \A i \in DOMAIN queue' : queue'[i] = queue[i + 1]
    BY <1>2, <2>1, LenProperties
  <2>3. \A i \in DOMAIN queue' : i + 1 \in DOMAIN queue /\ i + 1 # 1 /\ i \in Int
    BY <1>1, <2>1, <2>2
  <2>4. 1 \in DOMAIN queue
    BY <1>1, <2>1
  <2>5. Elems(queue') \subseteq Elems(queue)
    BY <2>2, <2>3 DEF Elems
  <2>6. ASSUME NEW d \in Conns, Once(d), NEW i \in DOMAIN queue', NEW j \in DOMAIN queue',
               queue'[i] = d, queue'[j] = d
        PROVE  i = j
    <3>1. i + 1 = j + 1
      BY <2>2, <2>3, <2>6 DEF Once
    <3> QED
      BY <2>3, <3>1
  <2>7. Once(Head(queue)) => Head(queue) \notin Elems(queue')
    BY <2>1, <2>2, <2>3, <2>4 DEF Once, Elems
  <2>8. Head(queue) \in Elems(queue) /\ Head(queue) \in Conns
    BY <1>1, <2>1, <2>4 DEF Elems
  <2> QED
    BY <1>2, <2>1, <2>5, <2>6, <2>7, <2>8 DEF Once
<1>3. CASE Reused(c)
  <2>1. queue # <<>> /\ c = Head(queue) /\ queue' = Tail(queue) /\ lent' = lent
    BY <1>3 DEF Reused
  <2>2. c \notin lent => Single(c)
    BY DEF Places
  <2> QED
    BY <1>2, <2>1, <2>2 DEF Single
<1>4. CASE Created(c)
  <2>1. queue' = queue /\ lent' = lent \ {c} /\ c \in Conns \ Referenced
    BY <1>4 DEF Created
  <2>2. c \notin Elems(queue) /\ c \notin InUse
    BY <2>1 DEF Referenced, ToSet, Elems
  <2> QED
    BY <1>1, <2>1, <2>2 DEF Once
<1>5. CASE Replaced(c)
  <2>1. /\ queue # <<>> /\ queue' = Tail(queue) /\ lent' = lent \ {c}
        /\ c \in Conns \ (InUse \cup ToSet(queue'))
    BY <1>5 DEF Replaced
  <2>2. c \notin Elems(queue') /\ c \notin InUse
    BY <2>1 DEF ToSet, Elems
  <2> QED
    BY <1>2, <2>1, <2>2
<1> QED
  BY <1>3, <1>4, <1>5 DEF GetConnection

\* A thread that had nothing, or whose pipeline had nothing, has what it took.
LEMMA TakenSingle ==
  ASSUME Places, NEW t \in Threads, conn[t] = None,
         NEW c \in Conns, GetConnection(c), dedicated' = dedicated, PlacesTyped',
         \/ conn' = [conn EXCEPT ![t] = c] /\ pipe' = pipe /\ pc'[t] # "collect"
         \/ conn' = conn /\ pipe' = [pipe EXCEPT ![t] = c],
         \A u \in Threads \ {t} : pc'[u] = pc[u]
  PROVE  \A d \in Conns \ lent' : Single(d)'
<1> SUFFICES ASSUME NEW d \in Conns \ lent'
             PROVE  Single(d)'
  OBVIOUS
<1>1. /\ d # None /\ conn \in [Threads -> Conns \cup {None}] /\ pipe \in [Threads -> Conns \cup {None}]
  BY Numbers DEF Places, PlacesTyped
<1>2. \A u \in Threads \ {t} : conn'[u] = conn[u] /\ pipe'[u] = pipe[u]
  BY <1>1
<1>3. \/ conn'[t] = c /\ pipe'[t] = pipe[t] /\ pc'[t] # "collect"
      \/ conn'[t] = None /\ pipe'[t] = c
  BY <1>1
<1>4. CASE d = c
  <2>1. c \notin Elems(queue') /\ c \notin InUse
    BY <1>4, TakenFacts
  <2>2. c # dedicated /\ \A u \in Threads : conn[u] # c /\ pipe[u] # c
    BY <2>1, InUseIs
  <2>3. Once(c)'
    BY <2>1 DEF Once, Elems
  <2>4. \A u, v \in Threads :
          /\ conn'[u] = c /\ conn'[v] = c => u = v
          /\ pipe'[u] = c /\ pipe'[v] = c => u = v
          /\ ~(conn'[u] = c /\ pipe'[v] = c)
    BY <1>1, <1>2, <1>3, <1>4, <2>2
  <2> QED
    BY <1>4, <2>1, <2>3, <2>4 DEF Single
<1>5. CASE d # c
  <2>1. d \notin lent /\ Single(d) /\ Once(d)' /\ Elems(queue') \subseteq Elems(queue)
    BY <1>5, TakenFacts DEF Places, Single
  <2>2. \A u \in Threads : (conn'[u] = d => conn[u] = d /\ u # t) /\ (pipe'[u] = d => pipe[u] = d)
    BY <1>1, <1>2, <1>3, <1>5
  <2>3. d \in InUse' => d \in InUse
    BY <2>2, InUseIs
  <2> QED
    BY <2>1, <2>2, <2>3 DEF Single
<1> QED
  BY <1>4, <1>5

\* What goes back to the pool is in no other place.
LEMMA ReturnedSingle ==
  ASSUME Places, NEW c \in Conns, NEW w, Released(c, w),
         c \notin lent => c \notin Elems(queue) /\ c \notin InUse',
         lent' = lent, dedicated' = dedicated, pipe' = pipe,
         \A u \in Threads : conn'[u] \in {conn[u], None} /\ (conn'[u] # None => pc'[u] = pc[u])
  PROVE  queue' \in Seq(Conns) /\ \A d \in Conns \ lent' : Single(d)'
<1>1. queue \in Seq(Conns) /\ Len(queue) \in Nat /\ DOMAIN queue = 1 .. Len(queue)
  BY LenProperties DEF Places, PlacesTyped
<1>2. queue' = queue \/ queue' = Append(queue, c)
  BY DEF Released
<1>3. ASSUME queue' = Append(queue, c)
      PROVE  /\ queue' \in Seq(Conns) /\ DOMAIN queue' = 1 .. Len(queue) + 1
             /\ queue'[Len(queue) + 1] = c /\ \A i \in DOMAIN queue : queue'[i] = queue[i]
  <2>1. /\ Append(queue, c) \in Seq(Conns) /\ Len(Append(queue, c)) = Len(queue) + 1
        /\ \A i \in 1 .. Len(queue) : Append(queue, c)[i] = queue[i]
        /\ Append(queue, c)[Len(queue) + 1] = c
    BY <1>1, AppendProperties
  <2> QED
    BY <1>1, <1>3, <2>1, LenProperties
<1>4. queue' \in Seq(Conns)
  BY <1>1, <1>2, <1>3
<1>5. ASSUME NEW d \in Conns \ lent'
      PROVE  Single(d)'
  <2>1. Single(d) /\ d # None
    BY Numbers DEF Places
  <2>2. \A u \in Threads : conn'[u] = d => conn[u] = d /\ pc'[u] = pc[u]
    BY <2>1
  <2>3. d \in InUse' => d \in InUse
    BY <2>2, InUseIs
  <2>4. CASE queue' = queue
    BY <2>1, <2>2, <2>3, <2>4 DEF Single, Once
  <2>5. CASE queue' = Append(queue, c) /\ d = c
    <3>1. c \notin Elems(queue) /\ c \notin InUse'
      BY <2>5
    <3>2. \A i \in DOMAIN queue' : queue'[i] = c => i = Len(queue) + 1
      BY <1>1, <1>3, <2>5, <3>1 DEF Elems
    <3> QED
      BY <2>1, <2>2, <2>5, <3>1, <3>2 DEF Single, Once
  <2>6. CASE queue' = Append(queue, c) /\ d # c
    <3>1. \A i \in DOMAIN queue' : queue'[i] = d => i \in DOMAIN queue /\ queue[i] = d
      BY <1>1, <1>3, <2>6
    <3>2. Once(d)' /\ (d \in Elems(queue') => d \in Elems(queue))
      BY <2>1, <3>1 DEF Single, Once, Elems
    <3> QED
      BY <2>1, <2>2, <2>3, <3>2 DEF Single
  <2> QED
    BY <1>2, <2>4, <2>5, <2>6
<1> QED
  BY <1>4, <1>5

\* A step of one thread: its next step, its connection, its pipeline's.
Moves(t, p, k, q) ==
  /\ pc' = [pc EXCEPT ![t] = p]
  /\ conn' = [conn EXCEPT ![t] = k]
  /\ pipe' = [pipe EXCEPT ![t] = q]

\* What goes together.
Matches(p, k, q) ==
  /\ p \in Pcs /\ k \in Conns \cup {None} /\ q \in Conns \cup {None}
  /\ k = None <=> p \in {"idle", "closing"}
  /\ p = "collect" => k = q

LEMMA MovesValues ==
  ASSUME PlacesTyped, NEW t \in Threads, NEW p, NEW k, NEW q, Moves(t, p, k, q)
  PROVE  /\ pc'[t] = p /\ conn'[t] = k /\ pipe'[t] = q
         /\ \A u \in Threads \ {t} :
              pc'[u] = pc[u] /\ conn'[u] = conn[u] /\ pipe'[u] = pipe[u]
  BY DEF Moves, PlacesTyped

LEMMA MovesKnown ==
  ASSUME Places, NEW t \in Threads, NEW p, NEW k, NEW q, Moves(t, p, k, q), Matches(p, k, q),
         queue' \in Seq(Conns), lent' \subseteq Conns, dedicated' \in lent' \cup {None}
  PROVE  PlacesTyped' /\ PlacesKnown'
<1>1. PlacesTyped /\ PlacesKnown
  BY DEF Places
<1>2. PlacesTyped'
  BY <1>1 DEF PlacesTyped, Moves, Matches
<1>3. PlacesKnown'
  <2>1. k \in Conns \/ k = None
    BY DEF Matches
  <2> QED
    BY <1>1, <2>1, MovesValues DEF PlacesKnown, Matches
<1> QED
  BY <1>2, <1>3

\* A step that leaves the pool alone: the thread gives up what it has, calls on its
\* pipeline's connection, or takes one that was lent.
LEMMA KeptStep ==
  ASSUME Places, NEW t \in Threads, NEW p, NEW k, NEW q, Moves(t, p, k, q), Matches(p, k, q),
         queue' = queue, lent \subseteq lent', lent' \subseteq Conns,
         dedicated' \in lent' \cup {None},
         k \in {None} \cup lent' \/ k = conn[t] \/ (k = pipe[t] /\ p = "collect"),
         q \in {None, pipe[t]} \cup lent',
         pc[t] = "collect" => p \in {"idle", "collect"}
  PROVE  Places'
<1>1. PlacesTyped /\ PlacesKnown /\ queue \in Seq(Conns)
  BY DEF Places, PlacesTyped
<1>2. PlacesTyped' /\ PlacesKnown'
  BY <1>1, MovesKnown
<1>3. /\ pc'[t] = p /\ conn'[t] = k /\ pipe'[t] = q
      /\ \A u \in Threads \ {t} : pc'[u] = pc[u] /\ conn'[u] = conn[u] /\ pipe'[u] = pipe[u]
  BY <1>1, MovesValues
<1>4. ASSUME NEW d \in Conns \ lent'
      PROVE  Single(d)'
  <2>1. d # None /\ d \notin lent /\ Single(d)
    BY Numbers DEF Places
  <2>2. /\ k = d => conn[t] = d \/ (pipe[t] = d /\ p = "collect")
        /\ q = d => pipe[t] = d
        /\ dedicated' # d /\ dedicated # d
    BY <1>1, <2>1 DEF PlacesKnown
  <2>3. \A u \in Threads :
          /\ conn'[u] = d => conn[u] = d \/ (pipe[u] = d /\ pc'[u] = "collect")
          /\ pipe'[u] = d => pipe[u] = d
          /\ pc[u] = "collect" /\ conn'[u] = d => pc'[u] = "collect"
    BY <1>3, <2>1, <2>2 DEF Matches
  <2>4. d \in InUse' => d \in InUse
    BY <2>2, <2>3, InUseIs
  <2>5. \A u, v \in Threads :
          /\ conn'[u] = d /\ conn'[v] = d => u = v
          /\ pipe'[u] = d /\ pipe'[v] = d => u = v
          /\ conn'[u] = d /\ pipe'[v] = d => u = v /\ pc'[u] = "collect"
    BY <2>1, <2>3 DEF Single
  <2> QED
    BY <2>1, <2>4, <2>5 DEF Single, Once
<1> QED
  BY <1>2, <1>4 DEF Places

\* A step of an idle thread that takes a connection from the pool.
LEMMA TakenStep ==
  ASSUME Places, NEW t \in Threads, pc[t] = "idle", NEW c \in Conns, GetConnection(c),
         dedicated' = dedicated,
         \/ \E p \in {"send", "connect"} : Moves(t, p, c, pipe[t])
         \/ Moves(t, "idle", None, c)
  PROVE  Places'
<1>1. PlacesTyped /\ PlacesKnown /\ conn[t] = None
  BY DEF Places, PlacesKnown
<1>2. /\ queue' \in Seq(Conns) /\ lent' \subseteq lent /\ lent \subseteq lent' \cup {c}
      /\ c \notin lent' => c \notin InUse
  BY TakenFacts
<1>3. dedicated \in lent' \cup {None} /\ lent' \subseteq Conns
  BY <1>1, <1>2, InUseIs DEF PlacesKnown, PlacesTyped
<1>4. c # None /\ pipe[t] \in Conns \cup {None}
  BY <1>1, Numbers DEF PlacesTyped
<1>5. CASE \E p \in {"send", "connect"} : Moves(t, p, c, pipe[t])
  <2>1. PICK p \in {"send", "connect"} : Moves(t, p, c, pipe[t])
    BY <1>5
  <2>2. Matches(p, c, pipe[t])
    BY <1>4 DEF Matches, Pcs
  <2>3. PlacesTyped' /\ PlacesKnown'
    BY <1>2, <1>3, <2>1, <2>2, MovesKnown
  <2>4. pc'[t] = p /\ \A u \in Threads \ {t} : pc'[u] = pc[u]
    BY <1>1, <2>1, MovesValues
  <2>5. conn' = [conn EXCEPT ![t] = c] /\ pipe' = pipe
    BY <1>1, <2>1 DEF Moves, PlacesTyped
  <2> QED
    BY <1>1, <2>3, <2>4, <2>5, TakenSingle DEF Places
<1>6. CASE Moves(t, "idle", None, c)
  <2>1. Matches("idle", None, c)
    BY <1>4 DEF Matches, Pcs
  <2>2. PlacesTyped' /\ PlacesKnown'
    BY <1>2, <1>3, <1>6, <2>1, MovesKnown
  <2>3. \A u \in Threads \ {t} : pc'[u] = pc[u]
    BY <1>1, <1>6, MovesValues
  <2>4. conn' = conn /\ pipe' = [pipe EXCEPT ![t] = c]
    BY <1>1, <1>6 DEF Moves, PlacesTyped
  <2> QED
    BY <1>1, <2>2, <2>3, <2>4, TakenSingle DEF Places
<1> QED
  BY <1>5, <1>6

\* The steps of a call, of connect and of close.
LEMMA CallPlaces ==
  ASSUME Places, NEW t \in Threads, Execute(t) \/ Dedicated(t)
  PROVE  Places'
<1>1. /\ PlacesTyped /\ PlacesKnown /\ lent \subseteq Conns /\ dedicated \in lent \cup {None}
      /\ pc[t] \in Pcs /\ pipe[t] \in Conns \cup {None}
      /\ pipe' = pipe => pipe' = [pipe EXCEPT ![t] = pipe[t]]
      /\ conn' = conn => conn' = [conn EXCEPT ![t] = conn[t]]
      /\ pc[t] \in {"idle", "closing"} => conn[t] = None
      /\ pc[t] \notin {"idle", "closing"} => conn[t] \in Conns /\ conn[t] # None
  BY Numbers DEF Places, PlacesTyped, PlacesKnown
<1>2. CASE CallExecute(t)
  <2>1. PICK c \in Conns : GetConn(c) /\ Moves(t, "send", c, pipe[t])
    BY <1>1, <1>2 DEF CallExecute, Moves
  <2>2. dedicated' = dedicated /\ pc[t] = "idle"
    BY <1>2 DEF CallExecute
  <2>3. CASE dedicated = c /\ UNCHANGED <<pool, sock, wire, tainted, lent>>
    <3>1. Matches("send", c, pipe[t]) /\ c \in lent /\ queue' = queue /\ lent' = lent
      BY <1>1, <2>3, Numbers DEF Matches, Pcs, pool
    <3> QED
      BY <1>1, <2>1, <2>2, <3>1, KeptStep
  <2>4. CASE dedicated = None /\ GetConnection(c)
    BY <2>1, <2>2, <2>4, TakenStep
  <2> QED
    BY <2>1, <2>3, <2>4 DEF GetConn
<1>3. CASE Send(t) \/ Read(t) \/ ExecuteFails(t) \/ Interrupted(t)
  <2>1. /\ pc[t] \in {"send", "read"} /\ UNCHANGED <<queue, dedicated, lent, conn, pipe>>
        /\ \E p \in {"read", "finally"} : pc' = [pc EXCEPT ![t] = p]
    BY <1>3 DEF Send, Read, ExecuteFails, Interrupted, pool, mode
  <2>2. PICK p \in {"read", "finally"} : Moves(t, p, conn[t], pipe[t])
    BY <1>1, <2>1 DEF Moves
  <2>3. Matches(p, conn[t], pipe[t])
    BY <1>1, <2>1 DEF Matches, Pcs
  <2> QED
    BY <1>1, <2>1, <2>2, <2>3, KeptStep
<1>4. CASE Finally(t)
  <2>1. /\ pc[t] = "finally" /\ Moves(t, "idle", None, pipe[t]) /\ UNCHANGED <<dedicated, lent, pipe>>
        /\ dedicated = None => Released(conn[t], Orphaned(t, conn[t]))
        /\ dedicated # None => queue' = queue
    BY <1>1, <1>4 DEF Finally, Moves, mode, pool
  <2>2. Matches("idle", None, pipe[t])
    BY <1>1 DEF Matches, Pcs
  <2>3. CASE dedicated # None
    BY <1>1, <2>1, <2>2, <2>3, KeptStep
  <2>4. CASE dedicated = None
    <3>1. PICK c \in Conns : c = conn[t]
      BY <1>1, <2>1
    <3>2. /\ conn'[t] = None
          /\ \A u \in Threads \ {t} : pc'[u] = pc[u] /\ conn'[u] = conn[u]
      BY <1>1, <2>1, MovesValues
    <3>3. c \notin lent => c \notin Elems(queue) /\ c \notin InUse'
      <4> SUFFICES ASSUME c \notin lent
                   PROVE  c \notin Elems(queue) /\ c \notin InUse'
        OBVIOUS
      <4>1. Single(c) /\ c # None
        BY Numbers DEF Places
      <4>2. c \in InUse
        BY <3>1, InUseIs
      <4>3. \A u \in Threads : conn'[u] # c /\ pipe'[u] # c
        BY <2>1, <3>1, <3>2, <4>1 DEF Single
      <4> QED
        BY <2>1, <2>4, <4>1, <4>2, <4>3, InUseIs DEF Single
    <3>4. queue' \in Seq(Conns) /\ \A d \in Conns \ lent' : Single(d)'
      <4>1. \A u \in Threads : conn'[u] \in {conn[u], None} /\ (conn'[u] # None => pc'[u] = pc[u])
        BY <3>2
      <4> QED
        BY <2>1, <2>4, <3>1, <3>3, <4>1, ReturnedSingle
    <3> QED
      BY <1>1, <2>1, <2>2, <2>4, <3>4, MovesKnown DEF Places
  <2> QED
    BY <2>3, <2>4
<1>5. CASE Connect(t)
  <2>1. PICK c \in Conns : GetConnection(c) /\ Moves(t, "connect", c, pipe[t])
    BY <1>1, <1>5 DEF Connect, Moves
  <2>2. dedicated' = dedicated /\ pc[t] = "idle"
    BY <1>5 DEF Connect
  <2> QED
    BY <2>1, <2>2, TakenStep
<1>6. CASE Connected(t)
  <2>1. /\ pc[t] = "connect" /\ Moves(t, "idle", None, pipe[t]) /\ queue' = queue
        /\ dedicated' = conn[t] /\ lent' = lent \cup {conn[t]}
    BY <1>1, <1>6 DEF Connected, Moves, pool
  <2>2. Matches("idle", None, pipe[t])
    BY <1>1 DEF Matches, Pcs
  <2> QED
    BY <1>1, <2>1, <2>2, KeptStep
<1>7. CASE Close(t)
  <2>1. /\ pc[t] = "idle" /\ Released(dedicated, wire) /\ UNCHANGED <<dedicated, lent, pipe, conn>>
        /\ pc' = [pc EXCEPT ![t] = "closing"] /\ dedicated \in lent
    BY <1>1, <1>7 DEF Close, mode
  <2>2. Moves(t, "closing", None, pipe[t]) /\ Matches("closing", None, pipe[t])
    BY <1>1, <2>1 DEF Moves, Matches, Pcs
  <2>3. \A u \in Threads : conn'[u] \in {conn[u], None} /\ (conn'[u] # None => pc'[u] = pc[u])
    BY <1>1, <2>1, <2>2, MovesValues
  <2>4. queue' \in Seq(Conns) /\ \A d \in Conns \ lent' : Single(d)'
    BY <1>1, <2>1, <2>3, ReturnedSingle
  <2> QED
    BY <1>1, <2>1, <2>2, <2>4, MovesKnown DEF Places
<1>8. CASE CloseDone(t)
  <2>1. /\ pc[t] = "closing" /\ Moves(t, "idle", None, pipe[t])
        /\ queue' = queue /\ lent' = lent /\ dedicated' = None
    BY <1>1, <1>8 DEF CloseDone, Moves, pool
  <2>2. Matches("idle", None, pipe[t])
    BY <1>1 DEF Matches, Pcs
  <2> QED
    BY <1>1, <2>1, <2>2, KeptStep
<1>9. CASE Refused(t)
  <2>1. UNCHANGED <<queue, lent, dedicated, pc, conn, pipe>>
    BY <1>9 DEF Refused, vars
  <2>2. Moves(t, pc[t], conn[t], pipe[t]) /\ Matches(pc[t], conn[t], pipe[t])
    BY <1>1, <2>1 DEF Moves, Matches, PlacesKnown, PlacesTyped
  <2> QED
    BY <1>1, <1>9, <2>1, <2>2, KeptStep DEF Refused
<1> QED
  BY <1>2, <1>3, <1>4, <1>5, <1>6, <1>7, <1>8, <1>9 DEF Execute, Dedicated

LEMMA PipelinePlaces ==
  ASSUME Places, NEW t \in Threads, Pipeline(t)
  PROVE  Places'
<1>1. /\ PlacesTyped /\ PlacesKnown /\ lent \subseteq Conns /\ dedicated \in lent \cup {None}
      /\ pc[t] \in Pcs /\ pipe[t] \in Conns \cup {None}
      /\ pc' = pc => pc' = [pc EXCEPT ![t] = pc[t]]
      /\ pipe' = pipe => pipe' = [pipe EXCEPT ![t] = pipe[t]]
      /\ conn' = conn => conn' = [conn EXCEPT ![t] = conn[t]]
      /\ pc[t] = "idle" => conn[t] = None
      /\ pc[t] = "collect" => conn[t] \in Conns /\ conn[t] # None /\ conn[t] = pipe[t]
  BY Numbers DEF Places, PlacesTyped, PlacesKnown
<1>2. CASE MakePipeline(t)
  <2>1. /\ pc[t] = "idle" /\ dedicated' = dedicated
        /\ \E c \in Conns : GetConn(c) /\ Moves(t, "idle", None, c)
    BY <1>1, <1>2 DEF MakePipeline, Moves, call
  <2>2. PICK c \in Conns : GetConn(c) /\ Moves(t, "idle", None, c)
    BY <2>1
  <2>3. CASE dedicated = c /\ UNCHANGED <<pool, sock, wire, tainted, lent>>
    <3>1. Matches("idle", None, c) /\ c \in lent /\ queue' = queue /\ lent' = lent
      BY <1>1, <2>3, Numbers DEF Matches, Pcs, pool
    <3> QED
      BY <1>1, <2>1, <2>2, <3>1, KeptStep
  <2>4. CASE dedicated = None /\ GetConnection(c)
    BY <2>1, <2>2, <2>4, TakenStep
  <2> QED
    BY <2>2, <2>3, <2>4 DEF GetConn
<1>3. CASE DropPipeline(t)
  <2>1. /\ pc[t] = "idle" /\ UNCHANGED <<queue, dedicated, lent>> /\ Moves(t, "idle", None, None)
    BY <1>1, <1>3 DEF DropPipeline, Moves, pool, mode, call
  <2>2. Matches("idle", None, None)
    BY DEF Matches, Pcs
  <2> QED
    BY <1>1, <2>1, <2>2, KeptStep
<1>4. CASE ExecuteBatch(t)
  <2>1. /\ pc[t] = "idle" /\ UNCHANGED <<queue, dedicated, lent>>
        /\ pipe[t] # None /\ Moves(t, "collect", pipe[t], pipe[t])
    BY <1>1, <1>4 DEF ExecuteBatch, Moves, pool, mode
  <2>2. Matches("collect", pipe[t], pipe[t])
    BY <1>1, <2>1 DEF Matches, Pcs
  <2> QED
    BY <1>1, <2>1, <2>2, KeptStep
<1>5. CASE Collect(t) \/ CollectError(t) \/ CollectEnds(t) \/ CollectInterrupted(t) \/ CollectFails(t)
  <2>1. /\ pc[t] = "collect" /\ UNCHANGED <<queue, dedicated, lent, pipe>>
        /\ \/ pc' = [pc EXCEPT ![t] = "idle"] /\ conn' = [conn EXCEPT ![t] = None]
           \/ pc' = pc /\ conn' = conn
    BY <1>5 DEF Collect, CollectError, CollectEnds, CollectInterrupted, CollectFails, pool, mode
  <2>2. CASE pc' = [pc EXCEPT ![t] = "idle"] /\ conn' = [conn EXCEPT ![t] = None]
    <3>1. Moves(t, "idle", None, pipe[t]) /\ Matches("idle", None, pipe[t])
      BY <1>1, <2>1, <2>2 DEF Moves, Matches, Pcs
    <3> QED
      BY <1>1, <2>1, <3>1, KeptStep
  <2>3. CASE pc' = pc /\ conn' = conn
    <3>1. Moves(t, "collect", conn[t], pipe[t]) /\ Matches("collect", conn[t], pipe[t])
      BY <1>1, <2>1, <2>3 DEF Moves, Matches, Pcs
    <3> QED
      BY <1>1, <2>1, <3>1, KeptStep
  <2> QED
    BY <2>1, <2>2, <2>3
<1> QED
  BY <1>2, <1>3, <1>4, <1>5 DEF Pipeline

LEMMA PlacesInit == Init => Places
<1> SUFFICES ASSUME Init
             PROVE  Places
  OBVIOUS
<1>1. PlacesTyped /\ PlacesKnown
  BY DEF Init, PlacesTyped, PlacesKnown, Pcs
<1>2. ASSUME NEW c \in Conns
      PROVE  Single(c)
  BY <1>2, Numbers DEF Init, Single, Once, Elems
<1> QED
  BY <1>1, <1>2 DEF Places

LEMMA PlacesStutter ==
  ASSUME Places, UNCHANGED vars
  PROVE  Places'
<1>1. PlacesTyped' /\ PlacesKnown'
  BY DEF Places, PlacesTyped, PlacesKnown, vars
<1>2. ASSUME NEW c \in Conns \ lent
      PROVE  Single(c)'
  BY <1>2 DEF Places, Single, Once, Elems, InUse, vars
<1> QED
  BY <1>1, <1>2 DEF Places, vars

LEMMA PlacesStep == Places /\ [Next]_vars => Places'
<1> SUFFICES ASSUME Places, [Next]_vars
             PROVE  Places'
  OBVIOUS
<1>1. CASE UNCHANGED vars
  BY <1>1, PlacesStutter
<1>2. ASSUME NEW t \in Threads, Execute(t) \/ Dedicated(t) \/ Pipeline(t)
      PROVE  Places'
  BY <1>2, CallPlaces, PipelinePlaces
<1> QED
  BY <1>1, <1>2 DEF Next

\* _get_conn reads _conn without a lock and _release_conn reads it again, so connect and
\* close of other threads turn checkouts into dedicated connections and back.  Whatever
\* the threads call, in whatever order, a connection that was never dedicated keeps to
\* one user: it is queued once, or in one call, or in one pipeline.  The connections
\* that suffer from the races are those that connect has dedicated.
THEOREM CheckoutsNeverShared == Spec => []OneUser
<1>1. Places => OneUser
  BY OneUserIs DEF Places
<1> QED
  BY <1>1, PlacesInit, PlacesStep, PTL DEF Spec

=============================================================================
