------------------------- MODULE MCAsyncKacheClient -------------------------
EXTENDS AsyncKacheClient, TLC

Symmetry == Permutations(Tasks)

\* The variables that refer to connections.
Places == {<<i, "pool">> : i \in DOMAIN pool} \cup (Tasks \X {"conn", "pipe"}) \cup {<<None, "current">>}

Ref(p) ==
  CASE p[2] = "pool"    -> pool[p[1]]
    [] p[2] = "conn"    -> conn[p[1]]
    [] p[2] = "pipe"    -> pipe[p[1]]
    [] p[2] = "current" -> current

\* Which connection is which does not matter, only what refers to the same one; nor
\* whose a reply is, to what the run checks; and Opened sets all there is to a
\* connection anew.
View ==
  <<{<<c \in open, IF c \in open THEN Len(wire[c]) ELSE 0, {p \in Places : Ref(p) = c}>> :
       c \in Referenced},
    active, pc, todo, lost, drift>>
=============================================================================
