----------------------------- MODULE MCTensorShm -----------------------------
EXTENDS TensorShm, TLC

\* A descriptor at 0 with a payload of one unit, and one at 2 with two.
MCBlocks == 0 :> 1 @@ 2 :> 2

\* The second core is asked for more than its file has, too.
MCCalls ==
  {[core |-> 0, offset |-> 0, size |-> 5], [core |-> 0, offset |-> 2, size |-> 5],
   [core |-> 1, offset |-> 0, size |-> 6], [core |-> 1, offset |-> 0, size |-> 5]}

\* Two blocks of one core.
MCOneCore == {a \in MCCalls : a.core = 0}

\* One core, of which the second call asks for more than the first.
MCSizes ==
  {[core |-> 0, offset |-> 0, size |-> 2], [core |-> 0, offset |-> 2, size |-> 5]}

\* The variables that refer to mmap objects.
Places == {<<c, "cache">> : c \in Cores} \cup (Threads \X {"shm", "view"})

Ref(p) ==
  CASE p[2] = "cache" -> IF p[1] \in DOMAIN cache THEN cache[p[1]] ELSE None
    [] p[2] = "shm"   -> shm[p[1]]
    [] p[2] = "view"  -> view[p[1]]

State(m) == [map[m] EXCEPT !.pos = IF \E t \in Threads : pc[t] = "read" /\ shm[t] = m THEN @ ELSE 0]

\* Which object is which does not matter, only who refers to the same one; a
\* position is read only behind a seek, and size_bytes only where a file is mapped.
ReachableState ==
  <<file, made, {<<State(m), {p \in Places : Ref(p) = m}>> : m \in Referenced},
    pc,
    [t \in Threads |->
       [call[t] EXCEPT !.size = IF pc[t] \in {"open", "map"} THEN @ ELSE None]],
    fd, header, left, count, raised, floor, late>>
=============================================================================
