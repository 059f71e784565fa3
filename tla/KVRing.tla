-------------------------------- MODULE KVRing --------------------------------
(***************************************************************************)
(* kachedb.dma.KacheDBMemoryManager: a byte buffer that paged KV blocks    *)
(* are written to one after the other, starting again at 0 when the next   *)
(* block does not fit behind the write head.  Nothing records what a write *)
(* overwrites.                                                             *)
(*                                                                         *)
(* A slot is a descriptor followed by the key and the value tensor; the    *)
(* buffer is counted in cells, and a cell holds its place in the slot it   *)
(* was written with.                                                       *)
(***************************************************************************)
EXTENDS Integers, Sequences, SequencesExt

CONSTANTS
  PoolSize,  \* pool_size_bytes, in cells
  MaxSlot    \* the largest slot that is written

ASSUME RingAssumption == MaxSlot \in Nat \ {0} /\ PoolSize \in Nat /\ MaxSlot <= PoolSize

VARIABLES
  ring,   \* [mem: _buf, head: _write_head]
  trail   \* history: the slots written last: a set of [of, at, size, age]

\* A cell that was never written.
Blank == [of |-> <<>>, at |-> 0]

RingInit ==
  /\ ring = [mem |-> [a \in 0 .. PoolSize - 1 |-> Blank], head |-> 0]
  /\ trail = {}

\* Mutant: the slot goes to 0 and the write head is not reset.
NextHeadUnwrapped(r, size) == r.head + size

\* Mutant: the test for the wrap forgets the size of the slot.
PlaceUnsized(r, size) == IF r.head >= PoolSize THEN 0 ELSE r.head

\* The offset of the next slot.
Place(r, size) == IF r.head + size > PoolSize THEN 0 ELSE r.head

NextHead(r, size) == Place(r, size) + size

\* write_paged_block of a block x.
Written(r, x, size) ==
  LET o == Place(r, size)
  IN  [mem |-> [a \in DOMAIN r.mem |->
                  IF a \in o .. o + size - 1 THEN [of |-> x, at |-> a - o] ELSE r.mem[a]],
       head |-> NextHead(r, size)]

\* Slots written one after the other, the blocks of xs: what the ring is after i of
\* them.
Rings(r, xs, size) ==
  LET after[i \in 0 .. Len(xs)] ==
        IF i = 0 THEN r ELSE Written(after[i - 1], xs[i], size)
  IN  after

\* Where they went.
Offsets(r, xs, size) == [i \in DOMAIN xs |-> Place(Rings(r, xs, size)[i - 1], size)]

\* Mutant: the descriptor is not skipped.
PayloadAtSlot(r, o, n) == [i \in 1 .. n |-> r.mem[o + i - 1]]

\* read_paged_block: n cells behind the descriptor at o.
Payload(r, o, n) == [i \in 1 .. n |-> r.mem[o + i]]

\* The cells a block x of n payload cells is written with.
PayloadOf(x, n) == [i \in 1 .. n |-> [of |-> x, at |-> i]]

-----------------------------------------------------------------------------
\* A slot's age is the number of cells written since, its own included.  One no
\* older than Window cannot have been overwritten: at most MaxSlot - 1 cells are
\* left unused where the ring wraps.
Window == PoolSize - MaxSlot + 1

\* The trail after one more slot, of a block x, written at offset o.
Trailing(slots, x, o, size) ==
  {s \in {[old EXCEPT !.age = @ + size] : old \in slots}
           \cup {[of |-> x, at |-> o, size |-> size, age |-> size]} :
     s.age <= Window}

\* And after i slots of xs, written at the offsets.
Trails(slots, xs, offsets, size) ==
  LET after[i \in 0 .. Len(xs)] ==
        IF i = 0 THEN slots ELSE Trailing(after[i - 1], xs[i], offsets[i], size)
  IN  after

WriteAll(xs, size) ==
  /\ ring' = Rings(ring, xs, size)[Len(xs)]
  /\ trail' = Trails(trail, xs, Offsets(ring, xs, size), size)[Len(xs)]

\* The slot of a block that was written last.
Youngest(s) == \A u \in trail : u.of = s.of => s.age <= u.age

\* Whatever was written within the window is still there, whole: the ring loses
\* blocks only by age.
RecentIntact ==
  \A s \in trail : \A k \in 0 .. s.size - 1 : ring.mem[s.at + k] = [of |-> s.of, at |-> k]
=============================================================================
