---------------------------- MODULE VllmConnector ----------------------------
(***************************************************************************)
(* kachedb.vllm: KacheDBConnector offloads the KV blocks of a prompt into  *)
(* the ring and restores the longest prefix it finds in its                *)
(* KacheDBPrefixCache.                                                     *)
(*                                                                         *)
(* A prompt is the sequence of its full token blocks.  A block's chained   *)
(* hash stands for the prefix that ends with it (64-bit collisions are not *)
(* modelled), and the KV tensors of a block depend on that whole prefix    *)
(* and on the layer, so <<prefix, layer>> names a stored block.            *)
(***************************************************************************)
EXTENDS KVConnector

CONSTANT
  Width  \* bytes per element of the KV caches

\* read_paged_block takes the blocks for float16 where its caller, like this
\* connector, names no dtype.
ReadWidth == 2

Slot == 1 + 2 * Width

ASSUME VllmAssumption == Width \in Nat /\ Width >= ReadWidth /\ MaxSlot = Slot

VARIABLES
  index,    \* KacheDBPrefixCache._index: prefix -> layer_offsets
  offered   \* history: the prompts that were offloaded

vllmVars == <<ring, trail, index, offered, restored>>

VllmInit ==
  /\ RingInit
  /\ index = [p \in {} |-> <<>>]
  /\ offered = {}
  /\ restored = NoRestore

\* compute_sequence_hashes
Hashes(prompt) == [b \in 1 .. Len(prompt) |-> SubSeq(prompt, 1, b)]

\* Mutant: the lookup is forgotten.
MissingUnchecked(prompt) == Hashes(prompt)

\* Mutant: a known block ends the loop.
MissingUpToHit(prompt) ==
  LET hits == {b \in 1 .. Len(prompt) : Hashes(prompt)[b] \in DOMAIN index}
  IN  IF hits = {} THEN Hashes(prompt) ELSE <<>>

\* The blocks of a prompt that are not registered yet, in order.
Missing(prompt) ==
  LET upTo[b \in 0 .. Len(prompt)] ==
        IF b = 0 THEN <<>>
        ELSE IF Hashes(prompt)[b] \in DOMAIN index THEN upTo[b - 1]
        ELSE Append(upTo[b - 1], Hashes(prompt)[b])
  IN  upTo[Len(prompt)]

\* All the blocks' layers in the order they are written.
Stored(prefixes) == FlattenSeq([i \in DOMAIN prefixes |-> LayersOf(prefixes[i])])

\* send_kv_caches_and_hidden_states: writes every layer of every missing block
\* and registers the offsets.
Send(prompt) ==
  LET new == Missing(prompt)
      offsets == Offsets(ring, Stored(new), Slot)
      At(prefix) == CHOOSE i \in DOMAIN new : new[i] = prefix
  IN  /\ WriteAll(Stored(new), Slot)
      /\ index' = [h \in DOMAIN index \cup ToSet(new) |->
                     IF h \in DOMAIN index THEN index[h]
                     ELSE [l \in 1 .. Layers |-> offsets[(At(h) - 1) * Layers + l]]]
      /\ offered' = offered \cup {prompt}
      /\ UNCHANGED restored

\* find_longest_prefix: the number of leading blocks the index knows.
Matched(prompt) ==
  LET unknown == {b \in 1 .. Len(prompt) : Hashes(prompt)[b] \notin DOMAIN index}
  IN  IF unknown = {} THEN Len(prompt)
      ELSE (CHOOSE b \in unknown : \A c \in unknown : b <= c) - 1

\* recv_kv_caches_and_hidden_states: key and value of every matched block and
\* layer are read at the registered offset; no descriptor is compared.
Receive(prompt) ==
  /\ restored' =
       [prompt |-> prompt,
        blocks |-> [b \in 1 .. Matched(prompt) |->
                      [l \in 1 .. Layers |->
                         Payload(ring, index[Hashes(prompt)[b]][l], 2 * ReadWidth)]]]
  /\ UNCHANGED <<ring, trail, index, offered>>

VllmNext == \E prompt \in Prompts : Send(prompt) \/ Receive(prompt)

VllmSpec == VllmInit /\ [][VllmNext]_vllmVars

-----------------------------------------------------------------------------
VllmTypeOK ==
  /\ DOMAIN ring.mem = 0 .. PoolSize - 1 /\ ring.head \in 0 .. PoolSize
  /\ \A h \in DOMAIN index : index[h] \in [1 .. Layers -> 0 .. PoolSize - Slot]
  /\ offered \subseteq Prompts

\* The offset the index keeps for a block is the one its latest copy was written
\* at, and a block has one copy: as long as that copy is within the window, a
\* restore finds it.
OffsetsFindRecent ==
  \A s \in trail : s.of[1] \in DOMAIN index /\ index[s.of[1]][s.of[2]] = s.at

\* A prompt that was offloaded is matched to its last full block from then on:
\* the index has no holes in front of a block.
OffloadedIsMatched == \A prompt \in offered : Matched(prompt) = Len(prompt)

\* What was written within the window is restored as it was written, for every
\* block of the matched prefix.
RecentBlocksAreRight ==
  [][\A prompt \in Prompts :
       LET young == {s.of : s \in trail}
       IN  Receive(prompt) =>
             \A b \in DOMAIN restored'.blocks, l \in 1 .. Layers :
               <<SubSeq(prompt, 1, b), l>> \in young =>
                 restored'.blocks[b][l] = PayloadOf(<<SubSeq(prompt, 1, b), l>>, 2 * Width)]_vllmVars

\* What recv's docstring says: it restores "matching cached prefix blocks", so
\* each block it copies is the block of that prefix and layer.
RestoreIsRight ==
  \A b \in DOMAIN restored.blocks, l \in 1 .. Layers :
    restored.blocks[b][l] = PayloadOf(<<SubSeq(restored.prompt, 1, b), l>>, 2 * Width)
=============================================================================
