--------------------------- MODULE SglangConnector ---------------------------
(***************************************************************************)
(* kachedb.sglang: KacheDBSGLangConnector offloads the nodes that the      *)
(* engine evicts from its radix tree into the ring, and restores the chain *)
(* of nodes that its KacheDBRadixAdapter matches with a prompt.            *)
(*                                                                         *)
(* A node holds a slice of tokens of any length.  Its chained hash stands  *)
(* for its path, the slices from the root down to its own (64-bit          *)
(* collisions are not modelled).  The engine evicts leaves first, evicts a *)
(* node again when it came back, and splits a node when a prompt leaves it *)
(* in the middle: a node may come in any order, any number of times, and   *)
(* in two slicings.                                                        *)
(***************************************************************************)
EXTENDS KVConnector

CONSTANTS
  Paths,       \* the paths of the nodes the engine evicts: sequences of slices
  MaxOffloads  \* bound of the checking: nodes that are offloaded

\* Key and value of n tokens, in the element type the restore asks for.
Cells(n) == 2 * n

SlotOf(path) == 1 + Cells(Len(Last(path)))

ASSUME SglangAssumption ==
  /\ Paths \subseteq Seq(Seq(Tokens) \ {<<>>}) \ {<<>>}
  /\ \A p \in Paths : SlotOf(p) <= MaxSlot

VARIABLES
  nodes,    \* _nodes in its insertion order: [path, offsets]
  offloads  \* history: offload_node calls so far

vars == <<ring, trail, nodes, offloads, restored>>

Init ==
  /\ RingInit
  /\ nodes = <<>>
  /\ offloads = 0
  /\ restored = NoRestore

Known(path) == \E i \in DOMAIN nodes : nodes[i].path = path

OffsetsOf(path) == nodes[CHOOSE i \in DOMAIN nodes : nodes[i].path = path].offsets

\* Mutant: a node that is known keeps its descriptor.
RegisteredOnce(node) == IF Known(node.path) THEN nodes ELSE Append(nodes, node)

\* register_node: a known node keeps its place in the dict.
Registered(node) ==
  IF Known(node.path)
  THEN [i \in DOMAIN nodes |-> IF nodes[i].path = node.path THEN node ELSE nodes[i]]
  ELSE Append(nodes, node)

\* offload_node: writes every layer, whether the node is known or not.
Offload(path) ==
  /\ offloads < MaxOffloads
  /\ offloads' = offloads + 1
  /\ WriteAll(LayersOf(path), SlotOf(path))
  /\ nodes' = Registered([path |-> path,
                          offsets |-> Offsets(ring, LayersOf(path), SlotOf(path))])
  /\ restored' = NoRestore

\* Mutant: the parent of a candidate is not compared.
CandidatesAnywhere(prompt, path) ==
  {i \in DOMAIN nodes :
     IsPrefix(FlattenSeq(path) \o Last(nodes[i].path), prompt)}

\* Mutant: a slice that ends with the prompt is not taken.
CandidatesShort(prompt, path) ==
  {i \in DOMAIN nodes :
     /\ Front(nodes[i].path) = path
     /\ IsStrictPrefix(FlattenSeq(path) \o Last(nodes[i].path), prompt)}

\* The children of a node whose slice comes next in the prompt.
Candidates(prompt, path) ==
  {i \in DOMAIN nodes :
     /\ Front(nodes[i].path) = path
     /\ IsPrefix(FlattenSeq(path) \o Last(nodes[i].path), prompt)}

\* A turn of the loop: the candidate that was registered first, if there is one.
Extended(prompt, chain) ==
  LET c == Candidates(prompt, IF chain = <<>> THEN <<>> ELSE Last(chain))
  IN  IF c = {} THEN chain
      ELSE Append(chain, nodes[CHOOSE i \in c : \A j \in c : i <= j].path)

\* find_matching_nodes: from the root, as long as the prompt lasts.
Matching(prompt) ==
  LET chain[n \in 0 .. Len(prompt)] ==
        IF n = 0 THEN <<>> ELSE Extended(prompt, chain[n - 1])
  IN  chain[Len(prompt)]

\* restore_prefix: each layer of each matched node goes behind the tokens that
\* were restored before it; no descriptor is compared.
Restore(prompt) ==
  LET chain == Matching(prompt)
  IN  /\ restored' =
           [prompt |-> prompt,
            blocks |-> [i \in DOMAIN chain |->
                          [l \in 1 .. Layers |->
                             Payload(ring, OffsetsOf(chain[i])[l], Cells(Len(Last(chain[i]))))]]]
      /\ UNCHANGED <<ring, trail, nodes, offloads>>

Next ==
  \/ \E path \in Paths : Offload(path)
  \/ \E prompt \in Prompts : Restore(prompt)

Spec == Init /\ [][Next]_vars

-----------------------------------------------------------------------------
TypeOK ==
  /\ DOMAIN ring.mem = 0 .. PoolSize - 1 /\ ring.head \in 0 .. PoolSize
  /\ \A i \in DOMAIN nodes :
       /\ nodes[i].path \in Paths
       /\ nodes[i].offsets \in [1 .. Layers -> 0 .. PoolSize - SlotOf(nodes[i].path)]
  /\ \A i, j \in DOMAIN nodes : nodes[i].path = nodes[j].path => i = j

\* The youngest copy of a node is the one its descriptor points at.
IndexFindsRecent ==
  \A s \in trail :
    Youngest(s) => Known(s.of[1]) /\ OffsetsOf(s.of[1])[s.of[2]] = s.at

\* What a restore copies is a prefix of the prompt, node behind node: the tokens
\* it reports as matched are the tokens whose tensors it read.
MatchIsPrefix ==
  \A prompt \in Prompts :
    LET chain == Matching(prompt)
    IN  \A i \in DOMAIN chain :
          /\ IsPrefix(FlattenSeq(chain[i]), prompt)
          /\ chain[i] = [j \in 1 .. i |-> Last(chain[j])]

\* Siblings that begin with the same token exist only where the engine has split
\* a node.
Unsplit ==
  \A i, j \in DOMAIN nodes :
    /\ i # j
    /\ Front(nodes[i].path) = Front(nodes[j].path)
    => Head(Last(nodes[i].path)) # Head(Last(nodes[j].path))

\* Without a split the match misses nothing: a node on the prompt's way whose
\* ancestors are all known is restored, in whatever order they were evicted.
MatchIsLongest ==
  Unsplit =>
    \A prompt \in Prompts, i \in DOMAIN nodes :
      LET path == nodes[i].path
      IN  /\ IsPrefix(FlattenSeq(path), prompt)
          /\ \A n \in 1 .. Len(path) : Known(SubSeq(path, 1, n))
          => path \in ToSet(Matching(prompt))

\* A node whose youngest copy is within the window is restored as it was written.
RecentRestoreIsRight ==
  [][\A prompt \in Prompts :
       LET young == {s.of : s \in trail}
           chain == Matching(prompt)
       IN  Restore(prompt) =>
             \A i \in DOMAIN chain, l \in 1 .. Layers :
               <<chain[i], l>> \in young =>
                 restored'.blocks[i][l] = PayloadOf(<<chain[i], l>>, Cells(Len(Last(chain[i]))))]_vars
=============================================================================
