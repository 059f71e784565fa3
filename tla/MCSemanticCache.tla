--------------------------- MODULE MCSemanticCache ---------------------------
EXTENDS SemanticCache, TLC

CONSTANTS
  a, sa, b,     \* a prompt, the same with a space before it, a similar one
  t, u, blank   \* two tags that share a bit, and one of white space

MCStrip == (a :> a) @@ (sa :> a) @@ (b :> b)

MCSimilar == (a :> {a, sa, b}) @@ (sa :> {a, sa}) @@ (b :> {a, b})

MCBit == (t :> 17) @@ (u :> 17)

MCOptions ==
  {[tags |-> {}, chunk |-> FALSE], [tags |-> {t, blank}, chunk |-> FALSE],
   [tags |-> {t, blank}, chunk |-> TRUE]}

MCFilters == {{}, {u}, {t, blank}}

Symmetry == Permutations(Callers) \cup Permutations(Responses)

\* No step depends on the prompts that were deleted or on what a get returned.
View == <<kv, vectors, call, latest>>
=============================================================================
