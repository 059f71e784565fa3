--------------------------- MODULE ConnectionPool ---------------------------
(***************************************************************************)
(* kachedb.pool.ConnectionPool, shared by several threads.                 *)
(*                                                                         *)
(* The pool is a queue.Queue of idle connections and the integer           *)
(* _active_count, which is changed only under _lock.  Between a queue      *)
(* operation, a lock section and a socket operation any other thread may   *)
(* run, so each of them is one action here; pc[t] says which of them       *)
(* thread t executes next.  A lock section never blocks inside, so it is   *)
(* one step and the lock itself needs no variable.                         *)
(***************************************************************************)
EXTENDS Integers, Sequences, FiniteSets

CONSTANTS
  Threads,         \* the threads that share the pool
  Closers,         \* the threads that may call disconnect_all
  Conns,           \* identities of Connection objects
  NoConn,          \* the local variable `conn` is unbound
  MaxConnections,  \* max_connections
  Password,        \* TRUE iff a password is configured (password is not None)
  Faults           \* what may go wrong: a subset of FaultKinds

\* "refused": Connection.connect raises.  "autherror": sending AUTH or reading
\* its answer raises (the server's -ERR included).  "abandoned": the caller of
\* get_connection drops the connection without release_connection, as
\* KacheClient.pipeline does outside a `with` block.
FaultKinds == {"refused", "autherror", "abandoned"}

ASSUME ThreadsAssumption == IsFiniteSet(Threads) /\ Closers \subseteq Threads
ASSUME ConnsAssumption == IsFiniteSet(Conns) /\ NoConn \notin Conns
ASSUME MaxAssumption == MaxConnections \in Nat \ {0}
ASSUME PasswordAssumption == Password \in BOOLEAN
ASSUME FaultsAssumption == Faults \subseteq FaultKinds

VARIABLES
  pool,    \* _pool: the idle connections, first to be handed out first
  active,  \* _active_count
  open,    \* the connections whose _sock is not None
  authed,  \* the connections the server answered OK to AUTH on
  pc,      \* pc[t]: the next step of thread t
  conn,    \* conn[t]: the connection thread t works with
  lost,    \* history: slots of active that no connection stands for any more
  drift    \* history: connections that existed when disconnect_all zeroed active

vars == <<pool, active, open, authed, pc, conn, lost, drift>>

-----------------------------------------------------------------------------
PCs == {"idle", "health", "discard", "reserve", "connect", "auth", "authdec",
        "held", "reldec", "drain", "reset"}

\* The steps at which a thread owns one unit of active.
ChargedPCs == {"health", "discard", "connect", "auth", "authdec", "held", "reldec"}

Charged == {t \in Threads : pc[t] \in ChargedPCs}

Pooled == {pool[i] : i \in DOMAIN pool}

InHand == {conn[t] : t \in Threads} \ {NoConn}

\* A Connection object nobody references is collected, so its identity is free.
Fresh == Conns \ (Pooled \cup InHand)

Goto(t, from, to) == pc[t] = from /\ pc' = [pc EXCEPT ![t] = to]

SetConn(t, c) == conn' = [conn EXCEPT ![t] = c]

Drop(t) == SetConn(t, NoConn)

\* Connection.disconnect
Disconnect(c) == open' = open \ {c} /\ authed' = authed \ {c}

Init ==
  /\ pool = <<>>
  /\ active = 0
  /\ open = {}
  /\ authed = {}
  /\ pc = [t \in Threads |-> "idle"]
  /\ conn = [t \in Threads |-> NoConn]
  /\ lost = 0
  /\ drift = 0

-----------------------------------------------------------------------------
(* get_connection *)

\* Mutant: the connection is looked at, not taken.
TakePooledPeek(t) ==
  /\ Goto(t, "idle", "health")
  /\ pool # <<>>
  /\ SetConn(t, Head(pool))
  /\ UNCHANGED <<pool, active, open, authed, lost, drift>>

\* get_nowait finds an idle connection: it is health-checked next.
TakePooled(t) ==
  /\ Goto(t, "idle", "health")
  /\ pool # <<>>
  /\ SetConn(t, Head(pool))
  /\ pool' = Tail(pool)
  /\ UNCHANGED <<active, open, authed, lost, drift>>

\* get_nowait raises queue.Empty.
FindEmpty(t) ==
  /\ Goto(t, "idle", "reserve")
  /\ pool = <<>>
  /\ UNCHANGED <<pool, active, open, authed, conn, lost, drift>>

\* is_connected and check_health() hold: the connection is handed out.
HealthPass(t) ==
  /\ Goto(t, "health", "held")
  /\ conn[t] \in open
  /\ UNCHANGED <<pool, active, open, authed, conn, lost, drift>>

\* The PING fails, or its answer is not PONG: the connection is closed.
HealthFail(t) ==
  /\ Goto(t, "health", "discard")
  /\ Disconnect(conn[t])
  /\ Drop(t)
  /\ UNCHANGED <<pool, active, lost, drift>>

\* The lock section that gives the stale connection's slot back.
DiscardDec(t) ==
  /\ Goto(t, "discard", "reserve")
  /\ active' = active - 1
  /\ UNCHANGED <<pool, open, authed, conn, lost, drift>>

\* Mutant: the limit is compared with > instead of >=.
ReserveOneMore(t) ==
  /\ Goto(t, "reserve", "connect")
  /\ active <= MaxConnections
  /\ active' = active + 1
  /\ UNCHANGED <<pool, open, authed, conn, lost, drift>>

\* The lock section that claims a slot.
Reserve(t) ==
  /\ Goto(t, "reserve", "connect")
  /\ active < MaxConnections
  /\ active' = active + 1
  /\ UNCHANGED <<pool, open, authed, conn, lost, drift>>

\* Mutant: refused one connection early.
ExhaustedEarly(t) ==
  /\ Goto(t, "reserve", "idle")
  /\ active >= MaxConnections - 1
  /\ UNCHANGED <<pool, active, open, authed, conn, lost, drift>>

\* The same lock section raising PoolExhaustedError.
Exhausted(t) ==
  /\ Goto(t, "reserve", "idle")
  /\ active >= MaxConnections
  /\ UNCHANGED <<pool, active, open, authed, conn, lost, drift>>

\* Connection(...).connect() succeeds.
Connect(t) ==
  /\ Goto(t, "connect", IF Password THEN "auth" ELSE "held")
  /\ \E c \in Fresh :
       /\ SetConn(t, c)
       /\ open' = open \cup {c}
  /\ UNCHANGED <<pool, active, authed, lost, drift>>

\* connect() raises: nothing gives the slot claimed in Reserve back.
ConnectRefused(t) ==
  /\ "refused" \in Faults
  /\ Goto(t, "connect", "idle")
  /\ lost' = lost + 1
  /\ UNCHANGED <<pool, active, open, authed, conn, drift>>

\* Mutant: the answer to AUTH is not looked at.
AuthAcceptUnread(t) ==
  /\ Goto(t, "auth", "held")
  /\ UNCHANGED <<pool, active, open, authed, conn, lost, drift>>

\* The answer to AUTH is OK.
AuthAccept(t) ==
  /\ Goto(t, "auth", "held")
  /\ conn[t] \in open
  /\ authed' = authed \cup {conn[t]}
  /\ UNCHANGED <<pool, active, open, conn, lost, drift>>

\* The answer to AUTH is some other value.
AuthReject(t) ==
  /\ Goto(t, "auth", "authdec")
  /\ Disconnect(conn[t])
  /\ Drop(t)
  /\ UNCHANGED <<pool, active, lost, drift>>

\* The lock section after a rejected AUTH; ConnectionError is raised.
AuthDec(t) ==
  /\ Goto(t, "authdec", "idle")
  /\ active' = active - 1
  /\ UNCHANGED <<pool, open, authed, conn, lost, drift>>

\* send_command or read_response raises during AUTH: the exception leaves
\* get_connection, the Connection object is collected and its slot stays taken.
AuthError(t) ==
  /\ "autherror" \in Faults
  /\ Goto(t, "auth", "idle")
  /\ Disconnect(conn[t])
  /\ Drop(t)
  /\ lost' = lost + 1
  /\ UNCHANGED <<pool, active, drift>>

-----------------------------------------------------------------------------
(* what the holder of a connection does with it *)

\* A command fails: Connection or KacheClient._execute disconnects.
CommandFails(t) ==
  /\ pc[t] = "held"
  /\ conn[t] \in open
  /\ Disconnect(conn[t])
  /\ UNCHANGED <<pool, active, pc, conn, lost, drift>>

\* The holder drops the connection without releasing it.
Abandon(t) ==
  /\ "abandoned" \in Faults
  /\ Goto(t, "held", "idle")
  /\ Disconnect(conn[t])
  /\ Drop(t)
  /\ lost' = lost + 1
  /\ UNCHANGED <<pool, active, drift>>

-----------------------------------------------------------------------------
(* release_connection *)

\* Mutant: the local variable is cleared before put_nowait.
ReleaseToPoolCleared(t) ==
  /\ Goto(t, "held", "idle")
  /\ conn[t] \in open
  /\ Len(pool) < MaxConnections
  /\ pool' = Append(pool, NoConn)
  /\ Drop(t)
  /\ UNCHANGED <<active, open, authed, lost, drift>>

\* The connection is open and put_nowait has room for it.
ReleaseToPool(t) ==
  /\ Goto(t, "held", "idle")
  /\ conn[t] \in open
  /\ Len(pool) < MaxConnections
  /\ pool' = Append(pool, conn[t])
  /\ Drop(t)
  /\ UNCHANGED <<active, open, authed, lost, drift>>

\* The connection is broken, or put_nowait raises queue.Full.
ReleaseClose(t) ==
  /\ Goto(t, "held", "reldec")
  /\ conn[t] \notin open \/ Len(pool) >= MaxConnections
  /\ Disconnect(conn[t])
  /\ Drop(t)
  /\ UNCHANGED <<pool, active, lost, drift>>

\* Mutant: the slot of a broken connection is not given back.
ReleaseDecForgotten(t) ==
  /\ Goto(t, "reldec", "idle")
  /\ UNCHANGED <<pool, active, open, authed, conn, lost, drift>>

\* The lock section that follows.
ReleaseDec(t) ==
  /\ Goto(t, "reldec", "idle")
  /\ active' = active - 1
  /\ UNCHANGED <<pool, open, authed, conn, lost, drift>>

-----------------------------------------------------------------------------
(* disconnect_all *)

CallDisconnectAll(t) ==
  /\ t \in Closers
  /\ Goto(t, "idle", "drain")
  /\ UNCHANGED <<pool, active, open, authed, conn, lost, drift>>

\* Mutant: each drained connection's slot is given back at once.
DrainGiveBack(t) ==
  /\ pc[t] = "drain"
  /\ pool # <<>>
  /\ Disconnect(Head(pool))
  /\ pool' = Tail(pool)
  /\ active' = active - 1
  /\ UNCHANGED <<pc, conn, lost, drift>>

\* One turn of the loop: an idle connection is taken and closed; its slot is
\* not given back before the loop has ended.
Drain(t) ==
  /\ pc[t] = "drain"
  /\ pool # <<>>
  /\ Disconnect(Head(pool))
  /\ pool' = Tail(pool)
  /\ lost' = lost + 1
  /\ UNCHANGED <<active, pc, conn, drift>>

\* get_nowait raises queue.Empty: the loop ends.
DrainEnd(t) ==
  /\ Goto(t, "drain", "reset")
  /\ pool = <<>>
  /\ UNCHANGED <<pool, active, open, authed, conn, lost, drift>>

\* The lock section sets _active_count to 0, whatever exists by now.
Reset(t) ==
  /\ Goto(t, "reset", "idle")
  /\ active' = 0
  /\ lost' = 0
  /\ drift' = Len(pool) + Cardinality(Charged)
  /\ UNCHANGED <<pool, open, authed, conn>>

-----------------------------------------------------------------------------
GetConnection(t) ==
  \/ TakePooled(t) \/ FindEmpty(t) \/ HealthPass(t) \/ HealthFail(t)
  \/ DiscardDec(t) \/ Reserve(t) \/ Exhausted(t) \/ Connect(t)
  \/ ConnectRefused(t) \/ AuthAccept(t) \/ AuthReject(t) \/ AuthDec(t)
  \/ AuthError(t)

ReleaseConnection(t) == ReleaseToPool(t) \/ ReleaseClose(t) \/ ReleaseDec(t)

DisconnectAll(t) == CallDisconnectAll(t) \/ Drain(t) \/ DrainEnd(t) \/ Reset(t)

Hold(t) == CommandFails(t) \/ Abandon(t)

Next ==
  \E t \in Threads :
    GetConnection(t) \/ ReleaseConnection(t) \/ DisconnectAll(t) \/ Hold(t)

Spec == Init /\ [][Next]_vars

\* The interpreter schedules every thread that can run: a call in progress
\* takes its next step.  Nothing obliges a thread to start a call, nor a holder
\* to release.
Running(t) == pc[t] \notin {"idle", "held"}

Step(t) == Running(t) /\ (GetConnection(t) \/ ReleaseConnection(t) \/ DisconnectAll(t))

Fairness == \A t \in Threads : WF_vars(Step(t))

FairSpec == Spec /\ Fairness

-----------------------------------------------------------------------------
TypeOK ==
  /\ pool \in Seq(Conns)
  /\ active \in Int
  /\ open \subseteq Conns
  /\ authed \subseteq Conns
  /\ pc \in [Threads -> PCs]
  /\ conn \in [Threads -> Conns \cup {NoConn}]
  /\ lost \in Nat
  /\ drift \in Nat

\* A connection is at one place: it is queued once, or it is in the hands of
\* one thread.  (get_connection and release_connection never let two users
\* write commands to the same socket.)
ExclusiveOwnership ==
  /\ \A i, j \in DOMAIN pool : pool[i] = pool[j] => i = j
  /\ \A t \in Threads : conn[t] \notin Pooled
  /\ \A t, u \in Threads : conn[t] = conn[u] /\ conn[t] # NoConn => t = u

\* What waits in the queue can be used at once: its socket is open and, where a
\* password is configured, the server has accepted it.
PooledReady == \A c \in Pooled : c \in open /\ (Password => c \in authed)

\* _active_count is the number of connections queued, in hand or being made,
\* plus the slots nothing stands for, minus what disconnect_all forgot.
SlotAccounting == active + drift = Len(pool) + Cardinality(Charged) + lost

\* At most max_connections sockets are open at once, but for the connections
\* that disconnect_all's `_active_count = 0` no longer counts.
ConnectionLimit == Cardinality(open) <= MaxConnections + drift

\* What the docstring says: max_connections is the "Maximum number of
\* simultaneous connections".
DocumentedLimit == Cardinality(open) <= MaxConnections

\* A call is refused only when max_connections slots are taken, by connections
\* that are queued, in use or in the making or by calls that failed: no path on
\* which nothing failed uses up a slot for good.
RefusedOnlyAtLimit ==
  [][\A t \in Threads :
       Exhausted(t) => Len(pool) + Cardinality(Charged) + lost >= MaxConnections]_vars

\* Every call of get_connection, release_connection and disconnect_all returns.
\* The loop of disconnect_all ends although other threads keep releasing: a
\* drained connection's slot is not given back before the loop is over, so only
\* so many new connections can be made meanwhile.
EveryCallReturns == \A t \in Threads : Running(t) ~> ~Running(t)

-----------------------------------------------------------------------------
\* How far disconnect_all may take the pool: its queue and the threads in the
\* middle of a call.
Capacity ==
  IF Closers = {} THEN MaxConnections ELSE MaxConnections + Cardinality(Threads)

UsableConn == [t \in Threads |-> IF conn[t] \in open THEN conn[t] ELSE NoConn]

Abstract == INSTANCE ResourcePool
  WITH Users <- Threads, Resources <- Conns, None <- NoConn,
       idle <- Pooled, owner <- UsableConn

\* The pool is a resource pool of max_connections sockets: each is idle or
\* belongs to one thread, whatever the interleaving of the steps above.
ImplementsResourcePool == Abstract!Spec
=============================================================================
