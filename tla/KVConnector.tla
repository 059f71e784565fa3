------------------------------ MODULE KVConnector ------------------------------
(***************************************************************************)
(* What the vLLM and the SGLang connector have in common: prompts are made *)
(* of tokens, what is stored of a prompt has a part for each layer of the  *)
(* model, and a restore copies parts out of the ring.                      *)
(***************************************************************************)
EXTENDS KVRing

CONSTANTS
  Tokens,   \* what prompts are made of: token ids, or full blocks of them
  Prompts,  \* the prompts that come
  Layers    \* len(kv_caches), len(k_tensors), len(target_k_buffers)

ASSUME ConnectorAssumption == Layers \in Nat \ {0} /\ Prompts \subseteq Seq(Tokens)

VARIABLE
  restored  \* history: the last restore: [prompt, blocks: what was copied, by layer]

NoRestore == [prompt |-> <<>>, blocks |-> <<>>]

\* The blocks of x in the order they are written.
LayersOf(x) == [l \in 1 .. Layers |-> <<x, l>>]
=============================================================================
