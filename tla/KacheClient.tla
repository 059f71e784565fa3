----------------------------- MODULE KacheClient -----------------------------
(***************************************************************************)
(* kachedb.client.KacheClient, kachedb.pipeline.Pipeline and the request / *)
(* reply stream of kachedb.connection.Connection.                          *)
(*                                                                         *)
(* The server answers the commands of a connection in the order they were  *)
(* sent, and Connection.read_response hands out whatever reply comes next: *)
(* nothing but the order ties a reply to its command.  wire[c] holds the   *)
(* commands sent on c whose replies were not read yet.                     *)
(*                                                                         *)
(* ConnectionPool shows what the pool does step by step; here              *)
(* get_connection and release_connection are one step each.                *)
(*                                                                         *)
(* Any thread may call anything at any time: the client asks for nothing   *)
(* else.  `_conn`, the dedicated connection, has no lock, and every method *)
(* reads it anew.  (When it becomes None between the test and the return   *)
(* of _get_conn, or between the test and the release of close, the call    *)
(* raises an AttributeError and changes nothing.)                          *)
(*                                                                         *)
(* A connection nothing refers to any more is collected, which closes it.  *)
(***************************************************************************)
EXTENDS Integers, Sequences, FiniteSets, SequencesExt

CONSTANTS
  Threads,         \* the threads that share the client
  Conns,           \* identities of Connection objects
  None,            \* no connection, no thread
  MaxConnections,  \* max_connections
  Interrupts,      \* TRUE iff there is a KeyboardInterrupt now and then
  MaxBatch,        \* bound: commands in one pipeline
  MaxPending,      \* bound: unread replies on a connection at a new request
  MaxDebt          \* bound: how far active may be below zero at a new request

ASSUME ClientAssumption ==
  /\ IsFiniteSet(Threads)
  /\ None \notin Conns \cup Threads
  /\ Interrupts \in BOOLEAN
  /\ {MaxConnections, MaxBatch, MaxPending} \subseteq Nat \ {0}
  /\ MaxDebt \in Nat

\* All that matters of a command: whether its reply is PONG.
Kinds == {"PING", "OTHER"}

Batches == UNION {[1 .. n -> Kinds] : n \in 1 .. MaxBatch}

VARIABLES
  queue,      \* the pool's idle connections
  active,     \* the pool's _active_count
  dedicated,  \* KacheClient._conn
  open,       \* the connections whose _sock is not None
  ended,      \* those of them whose server side has closed, which nobody noticed
  wire,       \* wire[c]: commands sent on c, replies not read, oldest first
  pc,         \* pc[t]: the next step of thread t
  conn,       \* conn[t]: the local variable `conn`, or the pipeline's _conn
  todo,       \* todo[t]: the commands whose replies thread t waits for
  pipe,       \* pipe[t]: the _conn of the Pipeline thread t keeps
  tainted,    \* history: connections on which a reply was given up unread
  opener,     \* history: the thread whose connect has not been closed
  lent,       \* history: the connections that were dedicated since they were made
  borrowed    \* history: the threads whose call has its connection from the pool

vars == <<queue, active, dedicated, open, ended, wire, pc, conn, todo, pipe, tainted,
          opener, lent, borrowed>>

pool == <<queue, active>>
mode == <<dedicated, opener, lent>>
sock == <<open, ended>>
call == <<pc, conn, todo, borrowed>>

Request(t, kind) == [by |-> t, kind |-> kind]

Requests(t, batch) == [i \in DOMAIN batch |-> Request(t, batch[i])]

\* A reply whose caller has gone.
Orphan(r) == [r EXCEPT !.by = None]

Orphaned(t, c) ==
  [wire EXCEPT ![c] = [i \in DOMAIN @ |-> IF @[i].by = t THEN Orphan(@[i]) ELSE @[i]]]

InUse ==
  ({dedicated} \cup {conn[t] : t \in Threads} \cup {pipe[t] : t \in Threads}) \ {None}

Referenced == ToSet(queue) \cup InUse

Init ==
  /\ queue = <<>>
  /\ active = 0
  /\ dedicated = None
  /\ open = {} /\ ended = {}
  /\ wire = [c \in Conns |-> <<>>]
  /\ pc = [t \in Threads |-> "idle"]
  /\ conn = [t \in Threads |-> None]
  /\ todo = [t \in Threads |-> <<>>]
  /\ pipe = [t \in Threads |-> None]
  /\ tainted = {}
  /\ opener = None /\ lent = {} /\ borrowed = {}

-----------------------------------------------------------------------------
(* the pool, one step per call *)

\* Connection.disconnect: unread replies go with the socket.
Closed(c) ==
  /\ open' = open \ {c}
  /\ ended' = ended \ {c}
  /\ wire' = [wire EXCEPT ![c] = <<>>]
  /\ tainted' = tainted \ {c}

\* A reference to connection c has gone, after which its unread replies are w.
Left(c, w) ==
  IF c \in Referenced' \cup {None}
    THEN wire' = w /\ UNCHANGED <<sock, tainted>>
    ELSE Closed(c)

\* check_health sends PING and compares the next reply, whosever it is.
Healthy(c) ==
  /\ c \in open \ ended
  /\ IF wire[c] = <<>> THEN TRUE ELSE Head(wire[c]).kind = "PING"

AfterHealthCheck(c) ==
  IF wire[c] = <<>> THEN wire
  ELSE [wire EXCEPT ![c] = Append(Tail(@), Request(None, "PING"))]

\* get_connection hands out a queued connection that passes its health check.
Reused(c) ==
  /\ queue # <<>> /\ c = Head(queue)
  /\ Healthy(c)
  /\ queue' = Tail(queue)
  /\ wire' = AfterHealthCheck(c)
  /\ UNCHANGED <<active, sock, tainted, lent>>

\* Mutant: the limit is compared with > instead of >=.
CreatedOneMore(c) ==
  /\ queue = <<>>
  /\ active <= MaxConnections
  /\ active' = active + 1
  /\ c \in Conns \ Referenced
  /\ open' = open \cup {c}
  /\ lent' = lent \ {c}
  /\ UNCHANGED <<queue, ended, wire, tainted>>

\* get_connection makes a connection, the queue being empty.
Created(c) ==
  /\ queue = <<>>
  /\ active < MaxConnections
  /\ active' = active + 1
  /\ c \in Conns \ Referenced
  /\ open' = open \cup {c}
  /\ lent' = lent \ {c}
  /\ UNCHANGED <<queue, ended, wire, tainted>>

\* get_connection discards the head of the queue (the peer may have closed it at
\* any time) and makes a connection in its place.
Replaced(c) ==
  /\ queue # <<>>
  /\ queue' = Tail(queue)
  /\ c \in Conns \ (InUse \cup ToSet(queue'))
  /\ open' = (open \ {Head(queue)}) \cup {c}
  /\ ended' = ended \ {Head(queue)}
  /\ wire' = [wire EXCEPT ![Head(queue)] = <<>>]
  /\ tainted' = tainted \ {Head(queue)}
  /\ lent' = lent \ {c}
  /\ UNCHANGED active

GetConnection(c) == Reused(c) \/ Created(c) \/ Replaced(c)

\* release_connection, for a connection whose unread replies become w.
Released(c, w) ==
  IF c \in open /\ Len(queue) < MaxConnections
    THEN /\ queue' = Append(queue, c)
         /\ wire' = w
         /\ UNCHANGED <<active, sock, tainted>>
    ELSE /\ active' = active - 1
         /\ Closed(c)
         /\ UNCHANGED queue

\* get_connection raises: PoolExhaustedError.
Refused(t) ==
  /\ pc[t] = "idle"
  /\ queue = <<>> /\ active >= MaxConnections
  /\ UNCHANGED vars

\* _get_conn: the dedicated connection, or one from the pool.
GetConn(c) ==
  \/ dedicated = c /\ UNCHANGED <<pool, sock, wire, tainted, lent>>
  \/ dedicated = None /\ GetConnection(c)

-----------------------------------------------------------------------------
(* KacheClient._execute *)

CallExecute(t) ==
  /\ pc[t] = "idle"
  /\ active >= -MaxDebt
  /\ \E kind \in Kinds, c \in Conns :
       /\ GetConn(c)
       /\ Len(wire[c]) < MaxPending
       /\ pc' = [pc EXCEPT ![t] = "send"]
       /\ conn' = [conn EXCEPT ![t] = c]
       /\ todo' = [todo EXCEPT ![t] = <<kind>>]
  /\ borrowed' = IF dedicated = None THEN borrowed \cup {t} ELSE borrowed
  /\ UNCHANGED <<dedicated, opener, pipe>>

\* The next reply has arrived, or will.
Answered(c) == c \in open \ ended /\ wire[c] # <<>>

Send(t) ==
  /\ pc[t] = "send"
  /\ conn[t] \in open
  /\ wire' = [wire EXCEPT ![conn[t]] = @ \o Requests(t, todo[t])]
  /\ pc' = [pc EXCEPT ![t] = "read"]
  /\ UNCHANGED <<pool, mode, sock, conn, todo, borrowed, pipe, tainted>>

\* read_response returns the next reply of the connection.
Read(t) ==
  /\ pc[t] = "read"
  /\ Answered(conn[t])
  /\ wire' = [wire EXCEPT ![conn[t]] = Tail(@)]
  /\ pc' = [pc EXCEPT ![t] = "finally"]
  /\ todo' = [todo EXCEPT ![t] = <<>>]
  /\ UNCHANGED <<pool, mode, sock, conn, borrowed, pipe, tainted>>

\* Mutant: the except clause does not discard the connection.
ExecuteFailsKept(t) ==
  /\ pc[t] \in {"send", "read"}
  /\ pc' = [pc EXCEPT ![t] = "finally"]
  /\ todo' = [todo EXCEPT ![t] = <<>>]
  /\ UNCHANGED <<pool, mode, sock, wire, tainted, conn, borrowed, pipe>>

\* Mutant: the except clause hands the connection back, as the finally clause does.
ExecuteFailsReleases(t) ==
  /\ pc[t] \in {"send", "read"}
  /\ Released(conn[t], Orphaned(t, conn[t]))
  /\ pc' = [pc EXCEPT ![t] = "finally"]
  /\ todo' = [todo EXCEPT ![t] = <<>>]
  /\ UNCHANGED <<mode, conn, borrowed, pipe>>

\* Sending or reading raises an Exception: not connected, a timeout, a broken
\* connection, an error reply.  The connection is discarded.
ExecuteFails(t) ==
  /\ pc[t] \in {"send", "read"}
  /\ Closed(conn[t])
  /\ pc' = [pc EXCEPT ![t] = "finally"]
  /\ todo' = [todo EXCEPT ![t] = <<>>]
  /\ UNCHANGED <<pool, mode, conn, borrowed, pipe>>

\* KeyboardInterrupt is no Exception: the except clause does not run, the
\* finally clause does.  It finds nothing of the command sent, a part of it, all of
\* it, or the reply half read.
Interrupted(t) ==
  /\ Interrupts
  /\ pc[t] \in {"send", "read"}
  /\ conn[t] \in open
  /\ \/ pc[t] = "send" /\ UNCHANGED <<wire, tainted>>
     \/ /\ pc[t] = "send" /\ wire' = [wire EXCEPT ![conn[t]] = @ \o Requests(t, todo[t])]
        /\ tainted' = tainted \cup {conn[t]}
     \/ UNCHANGED wire /\ tainted' = tainted \cup {conn[t]}
  /\ pc' = [pc EXCEPT ![t] = "finally"]
  /\ todo' = [todo EXCEPT ![t] = <<>>]
  /\ UNCHANGED <<pool, mode, sock, conn, borrowed, pipe>>

\* _release_conn in the finally clause; the call is over.
Finally(t) ==
  /\ pc[t] = "finally"
  /\ pc' = [pc EXCEPT ![t] = "idle"]
  /\ conn' = [conn EXCEPT ![t] = None]
  /\ borrowed' = borrowed \ {t}
  /\ UNCHANGED <<mode, todo, pipe>>
  /\ IF dedicated = None
       THEN Released(conn[t], Orphaned(t, conn[t]))
       ELSE UNCHANGED pool /\ Left(conn[t], Orphaned(t, conn[t]))

-----------------------------------------------------------------------------
(* KacheClient.connect and close *)

\* connect takes a connection from the pool, whatever `_conn` is,
Connect(t) ==
  /\ pc[t] = "idle"
  /\ active >= -MaxDebt
  /\ \E c \in Conns : GetConnection(c) /\ conn' = [conn EXCEPT ![t] = c]
  /\ pc' = [pc EXCEPT ![t] = "connect"]
  /\ opener' = t
  /\ UNCHANGED <<dedicated, todo, borrowed, pipe>>

\* and then makes it `_conn`; the one that was dedicated is left.
Connected(t) ==
  /\ pc[t] = "connect"
  /\ dedicated' = conn[t]
  /\ lent' = lent \cup {conn[t]}
  /\ pc' = [pc EXCEPT ![t] = "idle"]
  /\ conn' = [conn EXCEPT ![t] = None]
  /\ UNCHANGED <<pool, opener, todo, borrowed, pipe>>
  /\ Left(dedicated, wire)

\* close releases what `_conn` is,
Close(t) ==
  /\ pc[t] = "idle"
  /\ dedicated # None
  /\ Released(dedicated, wire)
  /\ pc' = [pc EXCEPT ![t] = "closing"]
  /\ UNCHANGED <<mode, conn, todo, borrowed, pipe>>

\* and then makes `_conn` None, whatever it has become.
CloseDone(t) ==
  /\ pc[t] = "closing"
  /\ dedicated' = None
  /\ opener' = None
  /\ pc' = [pc EXCEPT ![t] = "idle"]
  /\ UNCHANGED <<pool, lent, conn, todo, borrowed, pipe>>
  /\ Left(dedicated, wire)

-----------------------------------------------------------------------------
(* KacheClient.pipeline and Pipeline.execute *)

\* pipeline() keeps what _get_conn returns; nothing ever releases it.
MakePipeline(t) ==
  /\ pc[t] = "idle"
  /\ pipe[t] = None
  /\ \E c \in Conns : GetConn(c) /\ pipe' = [pipe EXCEPT ![t] = c]
  /\ UNCHANGED <<dedicated, opener, call>>

\* The Pipeline object is dropped, and its reference to the connection with it.
DropPipeline(t) ==
  /\ pc[t] = "idle"
  /\ pipe[t] # None
  /\ pipe' = [pipe EXCEPT ![t] = None]
  /\ UNCHANGED <<pool, mode, call>>
  /\ Left(pipe[t], wire)

\* send_packed sends the whole batch.
ExecuteBatch(t) ==
  /\ pc[t] = "idle"
  /\ pipe[t] # None /\ pipe[t] \in open
  /\ Len(wire[pipe[t]]) < MaxPending
  /\ \E batch \in Batches :
       /\ wire' = [wire EXCEPT ![pipe[t]] = @ \o Requests(t, batch)]
       /\ todo' = [todo EXCEPT ![t] = batch]
  /\ pc' = [pc EXCEPT ![t] = "collect"]
  /\ conn' = [conn EXCEPT ![t] = pipe[t]]
  /\ UNCHANGED <<pool, mode, sock, borrowed, pipe, tainted>>

\* One turn of the loop that collects the replies; the last one returns.
Collect(t) ==
  /\ pc[t] = "collect"
  /\ Answered(conn[t])
  /\ wire' = [wire EXCEPT ![conn[t]] = Tail(@)]
  /\ todo' = [todo EXCEPT ![t] = Tail(@)]
  /\ IF Len(todo[t]) = 1
       THEN pc' = [pc EXCEPT ![t] = "idle"] /\ conn' = [conn EXCEPT ![t] = None]
       ELSE UNCHANGED <<pc, conn>>
  /\ UNCHANGED <<pool, mode, sock, borrowed, pipe, tainted>>

\* A reply is an error: read_response raises ResponseError out of the loop, the
\* other replies of the batch stay unread and the connection stays open.
CollectError(t) ==
  /\ pc[t] = "collect"
  /\ Answered(conn[t])
  /\ LET c == conn[t]
     IN  wire' = [Orphaned(t, c) EXCEPT ![c] = Tail(@)]
  /\ tainted' = IF Len(todo[t]) = 1 THEN tainted ELSE tainted \cup {conn[t]}
  /\ pc' = [pc EXCEPT ![t] = "idle"]
  /\ conn' = [conn EXCEPT ![t] = None]
  /\ todo' = [todo EXCEPT ![t] = <<>>]
  /\ UNCHANGED <<pool, mode, sock, borrowed, pipe>>

\* recv returns nothing, the server has closed the connection: a ProtocolError,
\* which Connection.read_response does not catch.  _sock stays set.
CollectEnds(t) ==
  /\ pc[t] = "collect"
  /\ conn[t] \in open
  /\ ended' = ended \cup {conn[t]}
  /\ wire' = Orphaned(t, conn[t])
  /\ tainted' = tainted \cup {conn[t]}
  /\ pc' = [pc EXCEPT ![t] = "idle"]
  /\ conn' = [conn EXCEPT ![t] = None]
  /\ todo' = [todo EXCEPT ![t] = <<>>]
  /\ UNCHANGED <<pool, mode, open, borrowed, pipe>>

\* KeyboardInterrupt leaves the loop; nothing in Pipeline.execute catches it.
CollectInterrupted(t) ==
  /\ Interrupts
  /\ pc[t] = "collect"
  /\ conn[t] \in open
  /\ wire' = Orphaned(t, conn[t])
  /\ tainted' = tainted \cup {conn[t]}
  /\ pc' = [pc EXCEPT ![t] = "idle"]
  /\ conn' = [conn EXCEPT ![t] = None]
  /\ todo' = [todo EXCEPT ![t] = <<>>]
  /\ UNCHANGED <<pool, mode, sock, borrowed, pipe>>

\* A timeout or a broken connection: Connection.read_response disconnects.
CollectFails(t) ==
  /\ pc[t] = "collect"
  /\ Closed(conn[t])
  /\ pc' = [pc EXCEPT ![t] = "idle"]
  /\ conn' = [conn EXCEPT ![t] = None]
  /\ todo' = [todo EXCEPT ![t] = <<>>]
  /\ UNCHANGED <<pool, mode, borrowed, pipe>>

-----------------------------------------------------------------------------
Execute(t) ==
  CallExecute(t) \/ Refused(t) \/ Send(t) \/ Read(t) \/ ExecuteFails(t)
    \/ Interrupted(t) \/ Finally(t)

Pipeline(t) ==
  MakePipeline(t) \/ DropPipeline(t) \/ ExecuteBatch(t) \/ Collect(t)
    \/ CollectError(t) \/ CollectEnds(t) \/ CollectInterrupted(t) \/ CollectFails(t)

Dedicated(t) == Connect(t) \/ Connected(t) \/ Close(t) \/ CloseDone(t)

Next == \E t \in Threads : Execute(t) \/ Dedicated(t) \/ Pipeline(t)

Spec == Init /\ [][Next]_vars

\* The discipline of a `with` block of its own, which no code enforces: from connect
\* to close no other thread uses the client; nobody has a call or a pipeline when it
\* begins, and no pipeline of the block is kept past its end.
WithBlock(t) ==
  /\ opener \in {None, t}
  /\ pc'[t] = "connect" =>
       /\ opener = None
       /\ \A u \in Threads : pc[u] = "idle" /\ pipe[u] = None
  /\ pc'[t] = "closing" => pipe[t] = None

Disciplined == \A t \in Threads : <<pc[t], pipe[t]>>' # <<pc[t], pipe[t]>> => WithBlock(t)

WithSpec == Init /\ [][Next /\ Disciplined]_vars

-----------------------------------------------------------------------------
Reading(t) == pc[t] \in {"read", "collect"}

\* Of WithSpec: without the discipline releases in excess take active below zero.
TypeOK ==
  /\ queue \in Seq(Conns)
  /\ active \in 0 .. MaxConnections
  /\ dedicated \in Conns \cup {None} /\ opener \in Threads \cup {None}
  /\ open \subseteq Conns /\ tainted \subseteq open /\ ended \subseteq tainted
  /\ lent \subseteq Conns /\ borrowed \subseteq Threads
  /\ wire \in [Conns -> Seq([by : Threads \cup {None}, kind : Kinds])]
  /\ pc \in [Threads -> {"idle", "send", "read", "finally", "connect", "closing", "collect"}]
  /\ conn \in [Threads -> Conns \cup {None}]
  /\ todo \in [Threads -> {<<>>} \cup Batches]
  /\ pipe \in [Threads -> Conns \cup {None}]

\* The unread replies of each connection of cs are exactly those its present user
\* waits for, in the order it waits for them; nobody's, when nobody reads.  Nothing is
\* said of connections that a failed batch or an interrupt has left replies on.
InStepOn(cs) ==
  /\ \A t \in Threads :
       Reading(t) /\ conn[t] \in (cs \cap open) \ tainted =>
         wire[conn[t]] = Requests(t, todo[t])
  /\ \A c \in (cs \cap open) \ tainted :
       (\A t \in Threads : Reading(t) => conn[t] # c) => wire[c] = <<>>

\* Of WithSpec: a call gets its own reply, whatever failed on its connection before,
\* in a `with` block and out of one.
InStep == InStepOn(Conns)

\* Of Spec: so does a call or a pipeline on a connection that was never dedicated,
\* whatever the other threads connect and close meanwhile.
CheckoutsInStep == InStepOn(Conns \ lent)

\* Of Spec: whatever the other threads connect and close, in whatever order, a
\* connection that was never dedicated is queued once, or in one thread's call, or in
\* one thread's pipeline: no two calls share its socket.
OneUser ==
  \A c \in Conns \ lent :
    /\ \A i, j \in DOMAIN queue : queue[i] = c /\ queue[j] = c => i = j
    /\ c \in ToSet(queue) => c \notin InUse
    /\ \A t, u \in Threads :
         /\ conn[t] = c /\ conn[u] = c => t = u
         /\ pipe[t] = c /\ pipe[u] = c => t = u
         /\ conn[t] = c /\ pipe[u] = c => t = u /\ pc[t] = "collect"

\* _release_conn's docstring, first half: what a call gives back to the pool is "a
\* per-call checkout".
ReleasesCheckoutsOnly ==
  [][\A t \in Threads :
       pc[t] = "finally" /\ pc'[t] = "idle" /\ pool' # pool => t \in borrowed]_vars

\* Second half: a per-call checkout is given back.
ReleasesEveryCheckout ==
  [][\A t \in Threads :
       pc[t] = "finally" /\ pc'[t] = "idle" /\ t \in borrowed => pool' # pool]_vars

\* What Pipeline.execute's docstring says: it returns the responses "in the same
\* order as the queued commands", so each reply it reads answers its own command.
PipelineInOrder ==
  [][\A t \in Threads : Collect(t) => Head(wire[conn[t]]) = Request(t, Head(todo[t]))]_vars

=============================================================================
