-------------------------- MODULE AsyncKacheClient --------------------------
(***************************************************************************)
(* kachedb.pool.AsyncConnectionPool, kachedb.async_client.AsyncKacheClient *)
(* and kachedb.pipeline.AsyncPipeline: the tasks of one event loop share a *)
(* client that keeps one connection of its pool at a time; a pipeline      *)
(* keeps the connection the client had when it was made.                   *)
(*                                                                         *)
(* A task runs until an await suspends it.  No await lies within a section *)
(* of the pool's asyncio.Lock, so the lock is free whenever a task asks    *)
(* for it and never suspends one: the code between open_connection, the    *)
(* exchange of AUTH, a drain that has to wait and the wait for a reply is  *)
(* one action.  A task may be cancelled wherever it is suspended.          *)
(*                                                                         *)
(* asyncio's StreamReader is external: it lets one task wait for data and  *)
(* raises RuntimeError for a second one.                                   *)
(***************************************************************************)
EXTENDS Integers, Sequences, FiniteSets, SequencesExt

CONSTANTS
  Tasks,           \* the tasks that share the client
  Conns,           \* identities of stream pairs
  None,            \* no connection, no task
  MaxConnections,  \* max_connections
  Password,        \* TRUE iff a password is configured
  MaxBatch,        \* bound: commands in one pipeline
  MaxPending,      \* bound: unread replies on a connection
  MaxLost          \* bound: slots lost before a further call may fail

ASSUME AsyncAssumption ==
  /\ IsFiniteSet(Tasks) /\ None \notin Conns \cup Tasks
  /\ {MaxConnections, MaxBatch, MaxPending, MaxLost} \subseteq Nat \ {0}
  /\ Password \in BOOLEAN

VARIABLES
  pool,     \* _pool: the idle stream pairs
  active,   \* _active_count
  current,  \* the client's _reader, _writer and _resp_reader
  open,     \* the connections whose writer is not closing
  wire,     \* wire[c]: who sent the commands on c whose replies were not read
  pc,       \* pc[t]: where task t is suspended
  conn,     \* conn[t]: the connection task t is suspended on
  todo,     \* todo[t]: how many replies task t waits for
  pipe,     \* pipe[t]: the stream pair of the AsyncPipeline task t keeps
  lost,     \* history: slots of active that no connection stands for any more
  drift     \* history: slots in use when disconnect_all zeroed active

vars == <<pool, active, current, open, wire, pc, conn, todo, pipe, lost, drift>>

slots == <<active, lost, drift>>
streams == <<open, wire>>
task == <<pc, conn, todo>>

PCs == {"idle", "connecting", "auth", "drain", "pipeline drain", "reading"}

Connecting == {t \in Tasks : pc[t] \in {"connecting", "auth"}}

\* The slots in use: the client's connection and those being made.
InUse == Cardinality(Connecting) + (IF current = None THEN 0 ELSE 1)

Referenced ==
  (ToSet(pool) \cup {current} \cup {conn[t] : t \in Tasks} \cup {pipe[t] : t \in Tasks})
    \ {None}

Init ==
  /\ pool = <<>>
  /\ active = 0
  /\ current = None
  /\ open = {}
  /\ wire = [c \in Conns |-> <<>>]
  /\ pc = [t \in Tasks |-> "idle"]
  /\ conn = [t \in Tasks |-> None]
  /\ todo = [t \in Tasks |-> 0]
  /\ pipe = [t \in Tasks |-> None]
  /\ lost = 0
  /\ drift = 0

Suspend(t, at, c, n) ==
  /\ pc' = [pc EXCEPT ![t] = at]
  /\ conn' = [conn EXCEPT ![t] = c]
  /\ todo' = [todo EXCEPT ![t] = n]

Return(t) == Suspend(t, "idle", None, 0)

-----------------------------------------------------------------------------
(* AsyncKacheClient.connect and AsyncConnectionPool.get_connection *)

Stale == pool # <<>> /\ Head(pool) \notin open

\* connect overwrites the client's stream pair: nothing returns the one before.
Install(c) ==
  /\ current' = c
  /\ lost' = IF current = None THEN lost ELSE lost + 1

\* The queued connection is not closing: it is handed out as it is.
Reuse(t) ==
  /\ pc[t] = "idle"
  /\ pool # <<>> /\ Head(pool) \in open
  /\ current # None => lost < MaxLost
  /\ Install(Head(pool))
  /\ pool' = Tail(pool)
  /\ UNCHANGED <<active, drift, streams, task>>

\* Mutant: a stale connection keeps its slot.
CountAfterStaleKept == active

\* A stale connection gives its slot back.
CountAfterStale == IF Stale THEN active - 1 ELSE active

\* Mutant: the limit is compared with > instead of >=.
ClaimOneMore(t) ==
  /\ pc[t] = "idle"
  /\ pool = <<>> \/ Stale
  /\ CountAfterStale <= MaxConnections
  /\ pool' = IF Stale THEN Tail(pool) ELSE pool
  /\ active' = CountAfterStale + 1
  /\ Suspend(t, "connecting", None, 0)
  /\ UNCHANGED <<current, streams, lost, drift>>

\* No queued connection, or a stale one: a slot is claimed and open_connection
\* suspends the task.
Claim(t) ==
  /\ pc[t] = "idle"
  /\ pool = <<>> \/ Stale
  /\ CountAfterStale < MaxConnections
  /\ pool' = IF Stale THEN Tail(pool) ELSE pool
  /\ active' = CountAfterStale + 1
  /\ Suspend(t, "connecting", None, 0)
  /\ UNCHANGED <<current, streams, lost, drift>>

\* PoolExhaustedError
Exhausted(t) ==
  /\ pc[t] = "idle"
  /\ pool = <<>> \/ Stale
  /\ CountAfterStale >= MaxConnections
  /\ pool' = IF Stale THEN Tail(pool) ELSE pool
  /\ active' = CountAfterStale
  /\ UNCHANGED <<current, streams, task, lost, drift>>

\* open_connection returns; a stream pair nobody refers to was collected.
Opened(t) ==
  /\ pc[t] = "connecting"
  /\ \E c \in Conns \ Referenced :
       /\ open' = open \cup {c}
       /\ wire' = [wire EXCEPT ![c] = <<>>]
       /\ IF Password
            THEN Suspend(t, "auth", c, 0) /\ UNCHANGED <<current, lost>>
            ELSE (current # None => lost < MaxLost) /\ Install(c) /\ Return(t)
  /\ UNCHANGED <<pool, active, drift>>

\* open_connection raises OSError.
OpenFails(t) ==
  /\ pc[t] = "connecting"
  /\ active' = active - 1
  /\ Return(t)
  /\ UNCHANGED <<pool, current, streams, lost, drift>>

\* The answer to AUTH is OK.
AuthAccepted(t) ==
  /\ pc[t] = "auth"
  /\ current # None => lost < MaxLost
  /\ Install(conn[t])
  /\ Return(t)
  /\ UNCHANGED <<pool, active, drift, streams>>

\* The answer to AUTH is another value.
AuthRejected(t) ==
  /\ pc[t] = "auth"
  /\ open' = open \ {conn[t]}
  /\ active' = active - 1
  /\ Return(t)
  /\ UNCHANGED <<pool, current, wire, lost, drift>>

\* Any other exception leaves get_connection with the slot taken: a cancellation
\* while the connection is being opened; a cancellation, an error reply or a
\* broken connection during AUTH.
ConnectRaises(t) ==
  /\ t \in Connecting
  /\ lost < MaxLost
  /\ lost' = lost + 1
  /\ Return(t)
  /\ UNCHANGED <<pool, active, current, streams, drift>>

-----------------------------------------------------------------------------
(* AsyncKacheClient.close, AsyncConnectionPool.release_connection and *)
(* disconnect_all                                                     *)

\* Mutant: close leaves the client's fields set.
CloseKept(t) ==
  /\ pc[t] = "idle"
  /\ current # None
  /\ IF current \in open /\ Len(pool) < MaxConnections
       THEN pool' = Append(pool, current) /\ UNCHANGED <<active, open>>
       ELSE active' = active - 1 /\ open' = open \ {current} /\ UNCHANGED pool
  /\ UNCHANGED <<current, wire, task, lost, drift>>

Close(t) ==
  /\ pc[t] = "idle"
  /\ current # None
  /\ current' = None
  /\ IF current \in open /\ Len(pool) < MaxConnections
       THEN pool' = Append(pool, current) /\ UNCHANGED <<active, open>>
       ELSE /\ active' = active - 1
            /\ open' = open \ {current}
            /\ UNCHANGED pool
  /\ UNCHANGED <<wire, task, lost, drift>>

DisconnectAll(t) ==
  /\ pc[t] = "idle"
  /\ open' = open \ ToSet(pool)
  /\ pool' = <<>>
  /\ active' = 0
  /\ lost' = 0
  /\ drift' = InUse
  /\ UNCHANGED <<current, wire, task>>

-----------------------------------------------------------------------------
(* AsyncKacheClient._execute and AsyncPipeline.execute *)

\* Another task waits for data on c.
Occupied(c) == \E u \in Tasks : pc[u] = "reading" /\ conn[u] = c

\* The task's replies stay on the connection, and nobody waits for them.
GiveUp(t, w) ==
  /\ wire' = [d \in Conns |-> [i \in DOMAIN w[d] |-> IF w[d][i] = t THEN None ELSE w[d][i]]]
  /\ Return(t)

\* n commands of the task are written to connection c.
Sent(t, c, n) == [wire EXCEPT ![c] = @ \o [i \in 1 .. n |-> t]]

\* On a connection whose transport is lost a command raises and changes nothing.
MayWrite(t, c, n) ==
  /\ pc[t] = "idle"
  /\ c \in open
  /\ Len(wire[c]) + n <= MaxPending

\* The transport takes the commands at once, and the task waits for the replies.
Write(t, c, n) ==
  /\ MayWrite(t, c, n)
  /\ IF Occupied(c)
       THEN GiveUp(t, Sent(t, c, n))
       ELSE wire' = Sent(t, c, n) /\ Suspend(t, "reading", c, n)
  /\ UNCHANGED <<pool, current, open, slots>>

\* The transport's buffer is full: drain suspends the task.
WriteWaits(t, c, n, at) ==
  /\ MayWrite(t, c, n)
  /\ wire' = Sent(t, c, n)
  /\ Suspend(t, at, c, n)
  /\ UNCHANGED <<pool, current, open, slots>>

\* The drain is over: the replies are read from c.
ReadBehindDrain(t, c) ==
  /\ IF c = None \/ Occupied(c)
       THEN GiveUp(t, wire)
       ELSE Suspend(t, "reading", c, todo[t]) /\ UNCHANGED wire
  /\ UNCHANGED <<pool, current, open, slots>>

Execute(t) == current # None /\ Write(t, current, 1)

ExecuteWaits(t) == current # None /\ WriteWaits(t, current, 1, "drain")

\* Behind the drain the client's reader is looked up again: it may have been
\* closed, or be another connection's by now.
Drained(t) == pc[t] = "drain" /\ ReadBehindDrain(t, current)

\* A pipeline keeps its stream pair, whatever becomes of the client's.
ExecuteBatch(t) == pipe[t] # None /\ \E n \in 1 .. MaxBatch : Write(t, pipe[t], n)

ExecuteBatchWaits(t) ==
  /\ pipe[t] # None
  /\ \E n \in 1 .. MaxBatch : WriteWaits(t, pipe[t], n, "pipeline drain")

BatchDrained(t) == pc[t] = "pipeline drain" /\ ReadBehindDrain(t, conn[t])

\* The next reply of the connection goes to the task that waits.
Reply(t) ==
  /\ pc[t] = "reading"
  /\ conn[t] \in open /\ wire[conn[t]] # <<>>
  /\ wire' = [wire EXCEPT ![conn[t]] = Tail(@)]
  /\ IF todo[t] = 1 THEN Return(t) ELSE Suspend(t, "reading", conn[t], todo[t] - 1)
  /\ UNCHANGED <<pool, current, open, slots>>

\* An error reply in a batch leaves execute: the other replies stay unread.  (To a
\* single command an error is a reply like any other.)
ErrorReply(t) ==
  /\ pc[t] = "reading" /\ todo[t] > 1
  /\ conn[t] \in open /\ wire[conn[t]] # <<>>
  /\ GiveUp(t, [wire EXCEPT ![conn[t]] = Tail(@)])
  /\ UNCHANGED <<pool, current, open, slots>>

\* The task is cancelled, or the peer has closed the connection: nobody closes
\* anything.
ExecuteRaises(t) ==
  /\ pc[t] \in {"drain", "pipeline drain", "reading"}
  /\ GiveUp(t, wire)
  /\ UNCHANGED <<pool, current, open, slots>>

\* AsyncKacheClient.pipeline
MakePipeline(t) ==
  /\ pc[t] = "idle" /\ current # None
  /\ pipe' = [pipe EXCEPT ![t] = current]
  /\ UNCHANGED <<pool, current, streams, task, slots>>

\* The task drops the pipeline.
DropPipeline(t) ==
  /\ pc[t] = "idle" /\ pipe[t] # None
  /\ pipe' = [pipe EXCEPT ![t] = None]
  /\ UNCHANGED <<pool, current, streams, task, slots>>

\* The transport of a connection in use or in the queue is lost.
TransportLost(c) ==
  /\ c \in open \cap Referenced
  /\ open' = open \ {c}
  /\ UNCHANGED <<pool, current, wire, task, slots>>

-----------------------------------------------------------------------------
Connect(t) ==
  Reuse(t) \/ Claim(t) \/ Exhausted(t) \/ Opened(t) \/ OpenFails(t)
    \/ AuthAccepted(t) \/ AuthRejected(t) \/ ConnectRaises(t)

Command(t) ==
  \/ Execute(t) \/ ExecuteWaits(t) \/ Drained(t)
  \/ ExecuteBatch(t) \/ ExecuteBatchWaits(t) \/ BatchDrained(t)
  \/ Reply(t) \/ ErrorReply(t) \/ ExecuteRaises(t)

Next ==
  \/ /\ \/ \E t \in Tasks : Connect(t) \/ Command(t) \/ Close(t) \/ DisconnectAll(t)
        \/ \E c \in Conns : TransportLost(c)
     /\ UNCHANGED pipe
  \/ \E t \in Tasks : MakePipeline(t) \/ DropPipeline(t)

Spec == Init /\ [][Next]_vars

-----------------------------------------------------------------------------
TypeOK ==
  /\ pool \in Seq(Conns) /\ Len(pool) <= MaxConnections
  /\ active \in Int /\ active <= MaxConnections /\ lost \in 0 .. MaxLost /\ drift \in Nat
  /\ current \in Conns \cup {None}
  /\ open \subseteq Conns
  /\ wire \in [Conns -> Seq(Tasks \cup {None})]
  /\ pc \in [Tasks -> PCs]
  /\ conn \in [Tasks -> Conns \cup {None}] /\ pipe \in [Tasks -> Conns \cup {None}]
  /\ todo \in [Tasks -> 0 .. MaxBatch]

\* _active_count is the number of connections queued, kept by the client or being
\* made, plus the slots lost to exceptions and overwritten connections, minus
\* those disconnect_all forgot, wherever a task was cancelled.
SlotAccounting == active + drift = Len(pool) + InUse + lost

\* A connection is queued once, kept by the client, or being authenticated by one
\* task.
OneHome ==
  /\ \A i, j \in DOMAIN pool : pool[i] = pool[j] => i = j
  /\ current \notin ToSet(pool)
  /\ \A t \in Tasks :
       pc[t] = "auth" =>
         /\ conn[t] \notin ToSet(pool) \cup {current}
         /\ \A u \in Tasks : conn[u] = conn[t] => u = t

\* A command returns its own reply ("Execute a single command and return the response"):
\* what a task reads was not left by a command that was given up, nor is it another
\* task's.
OwnReplies == [][\A t \in Tasks : Reply(t) => Head(wire[conn[t]]) = t]_vars

\* The reply is read from the connection that the command was written to.
ReadsWhereItWrote ==
  [][\A t \in Tasks : pc[t] = "drain" /\ pc'[t] = "reading" => conn'[t] = conn[t]]_vars
=============================================================================
