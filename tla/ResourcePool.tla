---------------------------- MODULE ResourcePool ----------------------------
(***************************************************************************)
(* What a connection pool promises its users, without queues, counters or  *)
(* locks: a resource is idle or has one owner, and never more than         *)
(* Capacity of them exist.                                                 *)
(***************************************************************************)
EXTENDS Integers, FiniteSets

CONSTANTS Users, Resources, None, Capacity

VARIABLES
  idle,   \* the resources anybody may take
  owner   \* owner[u]: the resource user u works with, or None

vars == <<idle, owner>>

Owned == {owner[u] : u \in Users} \ {None}

Init ==
  /\ idle = {}
  /\ owner = [u \in Users |-> None]

Take(u) ==
  /\ owner[u] = None
  /\ \E r \in idle :
       /\ idle' = idle \ {r}
       /\ owner' = [owner EXCEPT ![u] = r]

Create(u) ==
  /\ owner[u] = None
  /\ Cardinality(idle \cup Owned) < Capacity
  /\ \E r \in Resources \ (idle \cup Owned) : owner' = [owner EXCEPT ![u] = r]
  /\ UNCHANGED idle

GiveBack(u) ==
  /\ owner[u] # None
  /\ idle' = idle \cup {owner[u]}
  /\ owner' = [owner EXCEPT ![u] = None]

Destroy(u) ==
  /\ owner[u] # None
  /\ owner' = [owner EXCEPT ![u] = None]
  /\ UNCHANGED idle

Evict ==
  /\ \E r \in idle : idle' = idle \ {r}
  /\ UNCHANGED owner

Next == Evict \/ \E u \in Users : Take(u) \/ Create(u) \/ GiveBack(u) \/ Destroy(u)

Spec == Init /\ [][Next]_vars
=============================================================================
