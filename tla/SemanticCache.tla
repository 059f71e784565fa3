---------------------------- MODULE SemanticCache ----------------------------
(***************************************************************************)
(* kachedb.semantic.cache: SemanticCache and AsyncSemanticCache, whose     *)
(* calls make the same requests, over one server.                          *)
(*                                                                         *)
(* A response is kept twice: under the exact key doc:{workspace}:{stripped *)
(* prompt}, and as the payload of a vector with the prompt as its id.      *)
(* Every request to the server is one step, and the calls of several       *)
(* threads or processes interleave between them.                           *)
(*                                                                         *)
(* The server is external: a search returns one vector that is similar     *)
(* enough to the query and has all the bits of the filter, and the query's *)
(* own vector, if it has them, is the best match (no two prompts have the  *)
(* same embedding).  A mask is the set of its bits.                        *)
(***************************************************************************)
EXTENDS Integers, FiniteSets

CONSTANTS
  Callers,    \* threads, tasks or processes with a cache on the same index
  Prompts,
  Strip,      \* Strip[p]: what prompt.strip() makes of p
  Similar,    \* Similar[p]: the prompts whose vectors may match p
  Responses,
  Options,    \* the [tags, chunk] of a set: its tags, and whether it has a parent_key
  Filters,    \* the filter_tags of a get
  Bit,        \* Bit[t]: tag_to_bit of tag t
  Blank,      \* a tag of white space
  Document,   \* the content of the parent documents
  None,       \* no value
  Workspace   \* TRUE iff a workspace is configured

TagSets == {o.tags : o \in Options}

ASSUME SemanticAssumption ==
  /\ Workspace \in BOOLEAN
  /\ None \notin Responses \cup {Document} /\ Document \notin Responses
  /\ \A o \in Options : o.chunk \in BOOLEAN
  /\ \A tags \in TagSets \cup Filters : \A t \in tags \ {Blank} : Bit[t] \in 0 .. 63
  /\ \A p \in Prompts : p \in Similar[p] /\ Similar[p] \subseteq Prompts
  /\ None \notin [response : Responses, chunk : BOOLEAN, mask : SUBSET (0 .. 63)]

\* tags_to_bitmask: tags may share a bit, and blank ones have none.
TagsToBitmask(tags) == {Bit[t] : t \in tags \ {Blank}}

Keys == {Strip[p] : p \in Prompts}

VARIABLES
  kv,       \* kv[k]: the response under the exact key of k, or None
  vectors,  \* vectors[p]: [response, chunk, mask] of the vector with id p, or None
  call,     \* call[a]: where caller a is, and with which arguments
  result,   \* the get that has just returned: [prompt, value, exact, expect], or None
  latest,   \* history: latest[k]: the [prompt, response, tags] of a set of k with an
            \* exact key, if no other set of k has run since it began and nothing
            \* of k was deleted or has expired since
  deleted   \* history: the prompts deleted and not set again

vars == <<kv, vectors, call, result, latest, deleted>>

Idle == [at |-> "idle"]

Init ==
  /\ kv = [k \in Keys |-> None]
  /\ vectors = [p \in Prompts |-> None]
  /\ call = [a \in Callers |-> Idle]
  /\ result = None
  /\ latest = [k \in Keys |-> None]
  /\ deleted = {}

\* What the calls under way about k could rely on no longer holds.
Disturbed(k) ==
  [b \in Callers |->
     IF call[b] # Idle /\ Strip[call[b].prompt] = k
     THEN [call[b] EXCEPT !.expect = None] ELSE call[b]]

-----------------------------------------------------------------------------
(* set *)

\* Mutant: a key that exists is left alone.
KvAfterSetOnce(k, response, exact) ==
  IF exact /\ Workspace /\ kv[k] = None THEN [kv EXCEPT ![k] = response] ELSE kv

\* The exact key is stored where store_exact and a workspace ask for it.
KvAfterSet(k, response, exact) ==
  IF exact /\ Workspace THEN [kv EXCEPT ![k] = response] ELSE kv

SetExact(a, p, response, option, exact) ==
  LET k == Strip[p]
      alone == \A b \in Callers : call[b].at = "vadd" => Strip[call[b].prompt] # k
  IN  /\ call[a] = Idle
      /\ kv' = KvAfterSet(k, response, exact)
      /\ call' = [Disturbed(k) EXCEPT
                    ![a] = [at |-> "vadd", prompt |-> p, response |-> response,
                            tags |-> option.tags, chunk |-> option.chunk,
                            expect |-> IF exact /\ Workspace /\ alone THEN response ELSE None]]
      /\ latest' = [latest EXCEPT ![k] = None]
      /\ deleted' = {q \in deleted : Strip[q] # k}
      /\ result' = None
      /\ UNCHANGED vectors

\* The request for the exact key raises, and so does set: the server may have
\* executed it.
SetExactFails(a, p, response) ==
  LET k == Strip[p]
  IN  /\ call[a] = Idle
      /\ Workspace
      /\ kv' \in {kv, KvAfterSet(k, response, TRUE)}
      /\ call' = Disturbed(k)
      /\ latest' = [latest EXCEPT ![k] = None]
      /\ deleted' = {q \in deleted : Strip[q] # k}
      /\ result' = None
      /\ UNCHANGED vectors

Vector(a) ==
  [response |-> call[a].response, chunk |-> call[a].chunk, mask |-> TagsToBitmask(call[a].tags)]

\* Mutant: a prompt that has an exact key gets no vector.
VectorsAfterSetKeyed(a) ==
  IF kv[Strip[call[a].prompt]] # None THEN vectors
  ELSE [vectors EXCEPT ![call[a].prompt] = Vector(a)]

\* Mutant: the payload is forgotten.
VectorsAfterSetBare(a) ==
  [vectors EXCEPT ![call[a].prompt] = [Vector(a) EXCEPT !.response = None]]

\* The vector, its payload, its tags and whether it names a parent document.
VectorsAfterSet(a) == [vectors EXCEPT ![call[a].prompt] = Vector(a)]

\* vadd, and the call returns.
SetVector(a) ==
  LET p == call[a].prompt
  IN  /\ call[a].at = "vadd"
      /\ vectors' = VectorsAfterSet(a)
      /\ latest' = [latest EXCEPT ![Strip[p]] =
                      IF call[a].expect = None THEN @
                      ELSE [prompt |-> p, response |-> call[a].response, tags |-> call[a].tags]]
      /\ call' = [call EXCEPT ![a] = Idle]
      /\ result' = None
      /\ UNCHANGED <<kv, deleted>>

\* The embedder or vadd raises, and so does set: the exact key has been stored,
\* and the server may have executed vadd.
SetFails(a) ==
  LET k == Strip[call[a].prompt]
  IN  /\ call[a].at = "vadd"
      /\ vectors' \in {vectors, VectorsAfterSet(a)}
      /\ call' = [Disturbed(k) EXCEPT ![a] = Idle]
      /\ latest' = [latest EXCEPT ![k] = None]
      /\ result' = None
      /\ UNCHANGED <<kv, deleted>>

-----------------------------------------------------------------------------
(* get *)

Return(p, value, exact, expect) ==
  result' = [prompt |-> p, value |-> value, exact |-> exact, expect |-> expect]

\* The response that a get of p has to find that asks for these tags.
Expected(p, filter) ==
  LET set == latest[Strip[p]]
  IN  IF set # None /\ set.prompt = p /\ filter \subseteq set.tags THEN set.response ELSE None

\* The exact key is found and its response returned, whatever the filter.
ExactHit(a, p, filter) ==
  /\ call[a] = Idle
  /\ Workspace /\ kv[Strip[p]] # None
  /\ Return(p, kv[Strip[p]], TRUE, Expected(p, filter))
  /\ UNCHANGED <<kv, vectors, call, latest, deleted>>

\* The exact key is not asked for or not found, or the request raises, which is
\* ignored.
ExactMiss(a, p, filter) ==
  /\ call[a] = Idle
  /\ call' = [call EXCEPT ![a] = [at |-> "vsearch", prompt |-> p,
                                  filter |-> TagsToBitmask(filter),
                                  expect |-> Expected(p, filter)]]
  /\ result' = None
  /\ UNCHANGED <<kv, vectors, latest, deleted>>

\* The vectors the server may choose from.
Matches(p, filter) ==
  LET live == {q \in Similar[p] : vectors[q] # None /\ filter \subseteq vectors[q].mask}
  IN  IF p \in live THEN {p} ELSE live

\* The match is no chunk of a document, or parents are not to be resolved: its
\* payload is returned.
SearchHit(a) ==
  /\ call[a].at = "vsearch"
  /\ \E q \in Matches(call[a].prompt, call[a].filter) :
       Return(call[a].prompt, vectors[q].response, FALSE, call[a].expect)
  /\ call' = [call EXCEPT ![a] = Idle]
  /\ UNCHANGED <<kv, vectors, latest, deleted>>

\* The match is a chunk of a document, which is looked up next.
SearchChunk(a) ==
  /\ call[a].at = "vsearch"
  /\ \E q \in Matches(call[a].prompt, call[a].filter) :
       /\ vectors[q].chunk
       /\ call' = [call EXCEPT ![a] = [at |-> "expand", prompt |-> call[a].prompt,
                                       response |-> vectors[q].response,
                                       expect |-> call[a].expect]]
  /\ result' = None
  /\ UNCHANGED <<kv, vectors, latest, deleted>>

\* The server knows no match: get returns None.
SearchMiss(a) ==
  /\ call[a].at = "vsearch"
  /\ call[a].prompt \notin Matches(call[a].prompt, call[a].filter)
  /\ Return(call[a].prompt, None, FALSE, call[a].expect)
  /\ call' = [call EXCEPT ![a] = Idle]
  /\ UNCHANGED <<kv, vectors, latest, deleted>>

\* vsearch raises, and so does get.
SearchFails(a) ==
  /\ call[a].at = "vsearch"
  /\ call' = [call EXCEPT ![a] = Idle]
  /\ result' = None
  /\ UNCHANGED <<kv, vectors, latest, deleted>>

\* The document is returned, or the chunk where the document is not found or the
\* request raises.
Expand(a) ==
  /\ call[a].at = "expand"
  /\ \E value \in {Document, call[a].response} :
       Return(call[a].prompt, value, FALSE, call[a].expect)
  /\ call' = [call EXCEPT ![a] = Idle]
  /\ UNCHANGED <<kv, vectors, latest, deleted>>

-----------------------------------------------------------------------------
\* delete takes the vector away, and leaves the exact key.
Delete(a, p) ==
  /\ call[a] = Idle
  /\ vectors[p] # None
  /\ vectors' = [vectors EXCEPT ![p] = None]
  /\ call' = Disturbed(Strip[p])
  /\ latest' = [latest EXCEPT ![Strip[p]] = None]
  /\ deleted' = deleted \cup {p}
  /\ result' = None
  /\ UNCHANGED kv

\* The time to live of a key or of a vector is over.
Expire(p) ==
  /\ \/ kv' = [kv EXCEPT ![Strip[p]] = None] /\ UNCHANGED vectors
     \/ vectors' = [vectors EXCEPT ![p] = None] /\ UNCHANGED kv
  /\ call' = Disturbed(Strip[p])
  /\ latest' = [latest EXCEPT ![Strip[p]] = None]
  /\ result' = None
  /\ UNCHANGED deleted

Set(a) ==
  \/ \E p \in Prompts, response \in Responses, option \in Options, exact \in BOOLEAN :
       SetExact(a, p, response, option, exact)
  \/ \E p \in Prompts, response \in Responses : SetExactFails(a, p, response)
  \/ SetVector(a) \/ SetFails(a)

Get(a) ==
  \/ \E p \in Prompts, filter \in Filters : ExactHit(a, p, filter) \/ ExactMiss(a, p, filter)
  \/ SearchHit(a) \/ SearchChunk(a) \/ SearchMiss(a) \/ SearchFails(a) \/ Expand(a)

Next ==
  \/ \E a \in Callers : Set(a) \/ Get(a) \/ \E p \in Prompts : Delete(a, p)
  \/ \E p \in Prompts : Expire(p)

Spec == Init /\ [][Next]_vars

-----------------------------------------------------------------------------
Masks == {TagsToBitmask(tags) : tags \in TagSets \cup Filters}

Vectors == [response : Responses, chunk : BOOLEAN, mask : Masks]

Calls ==
  {Idle}
    \cup [at : {"vadd"}, prompt : Prompts, response : Responses, tags : TagSets, chunk : BOOLEAN,
          expect : Responses \cup {None}]
    \cup [at : {"vsearch"}, prompt : Prompts, filter : Masks, expect : Responses \cup {None}]
    \cup [at : {"expand"}, prompt : Prompts, response : Responses,
          expect : Responses \cup {None}]

TypeOK ==
  /\ kv \in [Keys -> Responses \cup {None}]
  /\ vectors \in [Prompts -> Vectors \cup {None}]
  /\ call \in [Callers -> Calls]
  /\ latest \in [Keys -> [prompt : Prompts, response : Responses, tags : TagSets] \cup {None}]
  /\ deleted \subseteq Prompts

\* A get of a prompt whose last set ran undisturbed, and which nothing disturbs
\* either, returns that set's response (or the document it is a chunk of) and
\* never misses, also when the exact key's request fails or the get asks for tags
\* the prompt was stored with, whatever bits these share with others.
LatestIsServed ==
  [][result' # None /\ result'.expect # None =>
       result'.value \in {result'.expect, Document}]_vars

\* The two copies of an undisturbed set hold its response, whatever calls ran in
\* between on other prompts.
CopiesAgree ==
  \A k \in Keys :
    latest[k] # None =>
      /\ kv[k] = latest[k].response
      /\ vectors[latest[k].prompt] # None
      /\ vectors[latest[k].prompt].response = latest[k].response
      /\ vectors[latest[k].prompt].mask = TagsToBitmask(latest[k].tags)

\* What delete's docstring says: it will "delete a prompt entry from the semantic
\* cache", so that a get no longer returns it as an exact match.
DeletedIsGone ==
  [][result' # None /\ result'.exact => result'.prompt \notin deleted]_vars
=============================================================================
