------------------------- MODULE SemanticCache_proofs -------------------------
(***************************************************************************)
(* Proofs about SemanticCache: type correctness, the agreement of the two  *)
(* copies of a response, and what a get returns, for every set of callers, *)
(* prompts, responses and tags.                                            *)
(***************************************************************************)
EXTENDS SemanticCache, TLAPS

-----------------------------------------------------------------------------
(* The inductive invariant *)

\* Nobody is about to store a vector for k.
Quiet(k) == \A b \in Callers : call[b].at = "vadd" => Strip[call[b].prompt] # k

\* What latest says of a key it says of that key, and no set of the key is under way.
LatestIsQuiet ==
  \A k \in Keys : latest[k] # None => Strip[latest[k].prompt] = k /\ Quiet(k)

Expecting(a) == call[a] # Idle /\ call[a].expect # None

\* A call that expects a response finds it in what was stored, and no other set of its
\* key is under way.
Promised(a) ==
  /\ \A b \in Callers \ {a} :
       call[b].at = "vadd" => Strip[call[b].prompt] # Strip[call[a].prompt]
  /\ call[a].at = "vadd" => kv[Strip[call[a].prompt]] = call[a].response
  /\ call[a].at = "vsearch" =>
       /\ vectors[call[a].prompt] # None
       /\ vectors[call[a].prompt].response = call[a].expect
       /\ call[a].filter \subseteq vectors[call[a].prompt].mask
  /\ call[a].at = "expand" => call[a].response = call[a].expect

Inv ==
  /\ TypeOK /\ CopiesAgree /\ LatestIsQuiet
  /\ \A a \in Callers : Expecting(a) => Promised(a)

-----------------------------------------------------------------------------
(* Types *)

Latest == [prompt : Prompts, response : Responses, tags : TagSets]

SetCalls ==
  [at : {"vadd"}, prompt : Prompts, response : Responses, tags : TagSets, chunk : BOOLEAN,
   expect : Responses \cup {None}]

SearchCalls ==
  [at : {"vsearch"}, prompt : Prompts, filter : Masks, expect : Responses \cup {None}]

ExpandCalls ==
  [at : {"expand"}, prompt : Prompts, response : Responses, expect : Responses \cup {None}]

LEMMA MaskFacts ==
  /\ \A tags \in TagSets \cup Filters : TagsToBitmask(tags) \in Masks
  /\ \A f, tags : f \subseteq tags => TagsToBitmask(f) \subseteq TagsToBitmask(tags)
  /\ \A o \in Options : o.tags \in TagSets /\ o.chunk \in BOOLEAN
  BY SemanticAssumption DEF Masks, TagsToBitmask, TagSets

LEMMA VectorIsSome == \A v \in Vectors : v # None
<1>1. ASSUME NEW m \in Masks
      PROVE  m \subseteq 0 .. 63
  BY SemanticAssumption DEF Masks, TagsToBitmask
<1> QED
  BY <1>1, SemanticAssumption DEF Vectors

LEMMA KeyFacts ==
  /\ \A p \in Prompts : Strip[p] \in Keys
  /\ None \notin Responses
  BY SemanticAssumption DEF Keys

\* Where a call is tells what it carries.
LEMMA CallShapes ==
  ASSUME NEW c \in Calls
  PROVE  /\ c = Idle \/ c \in SetCalls \/ c \in SearchCalls \/ c \in ExpandCalls
         /\ c # Idle => c.prompt \in Prompts /\ c.expect \in Responses \cup {None}
         /\ c = Idle <=> c.at = "idle"
         /\ c \in SetCalls <=> c.at = "vadd"
         /\ c \in SearchCalls <=> c.at = "vsearch"
         /\ c \in ExpandCalls <=> c.at = "expand"
<1>1. c = Idle \/ c \in SetCalls \/ c \in SearchCalls \/ c \in ExpandCalls
  BY DEF Calls, SetCalls, SearchCalls, ExpandCalls
<1>2. CASE c = Idle
  BY <1>2 DEF Idle, SetCalls, SearchCalls, ExpandCalls
<1>3. CASE c \in SetCalls
  BY <1>3 DEF Idle, SetCalls, SearchCalls, ExpandCalls
<1>4. CASE c \in SearchCalls
  BY <1>4 DEF Idle, SetCalls, SearchCalls, ExpandCalls
<1>5. CASE c \in ExpandCalls
  BY <1>5 DEF Idle, SetCalls, SearchCalls, ExpandCalls
<1> QED
  BY <1>1, <1>2, <1>3, <1>4, <1>5

LEMMA ShapesAreCalls ==
  /\ Idle \in Calls
  /\ SetCalls \subseteq Calls /\ SearchCalls \subseteq Calls /\ ExpandCalls \subseteq Calls
  BY DEF Calls, SetCalls, SearchCalls, ExpandCalls

\* The disturbed calls are where they were, and expect nothing.
LEMMA DisturbedFacts ==
  ASSUME TypeOK, NEW k, NEW b \in Callers
  PROVE  /\ Disturbed(k) \in [Callers -> Calls]
         /\ call[b] = Idle \/ Strip[call[b].prompt] # k => Disturbed(k)[b] = call[b]
         /\ call[b] # Idle /\ Strip[call[b].prompt] = k =>
              /\ Disturbed(k)[b] # Idle /\ Disturbed(k)[b].expect = None
              /\ Disturbed(k)[b].at = call[b].at
              /\ Disturbed(k)[b].prompt = call[b].prompt
<1>1. ASSUME NEW c \in Calls, c # Idle
      PROVE  /\ [c EXCEPT !.expect = None] \in Calls
             /\ [c EXCEPT !.expect = None] # Idle
             /\ [c EXCEPT !.expect = None].expect = None
             /\ [c EXCEPT !.expect = None].at = c.at
             /\ [c EXCEPT !.expect = None].prompt = c.prompt
  <2>1. CASE c \in SetCalls
    <3>1. /\ [c EXCEPT !.expect = None] \in SetCalls
          /\ [c EXCEPT !.expect = None].expect = None
          /\ [c EXCEPT !.expect = None].at = c.at
          /\ [c EXCEPT !.expect = None].prompt = c.prompt
      BY <2>1 DEF SetCalls
    <3> QED
      BY <2>1, <3>1, CallShapes, ShapesAreCalls
  <2>2. CASE c \in SearchCalls
    <3>1. /\ [c EXCEPT !.expect = None] \in SearchCalls
          /\ [c EXCEPT !.expect = None].expect = None
          /\ [c EXCEPT !.expect = None].at = c.at
          /\ [c EXCEPT !.expect = None].prompt = c.prompt
      BY <2>2 DEF SearchCalls
    <3> QED
      BY <2>2, <3>1, CallShapes, ShapesAreCalls
  <2>3. CASE c \in ExpandCalls
    <3>1. /\ [c EXCEPT !.expect = None] \in ExpandCalls
          /\ [c EXCEPT !.expect = None].expect = None
          /\ [c EXCEPT !.expect = None].at = c.at
          /\ [c EXCEPT !.expect = None].prompt = c.prompt
      BY <2>3 DEF ExpandCalls
    <3> QED
      BY <2>3, <3>1, CallShapes, ShapesAreCalls
  <2> QED
    BY <1>1, <2>1, <2>2, <2>3, CallShapes
<1>2. call \in [Callers -> Calls]
  BY DEF TypeOK
<1>3. Disturbed(k) \in [Callers -> Calls]
  BY <1>1, <1>2 DEF Disturbed
<1> QED
  BY <1>1, <1>2, <1>3 DEF Disturbed

LEMMA StoreFacts ==
  ASSUME TypeOK, NEW p \in Prompts
  PROVE  /\ kv[Strip[p]] \in Responses \cup {None}
         /\ vectors[p] \in Vectors \cup {None}
         /\ latest[Strip[p]] \in Latest \cup {None}
         /\ \A response \in Responses, exact \in BOOLEAN :
              KvAfterSet(Strip[p], response, exact) \in [Keys -> Responses \cup {None}]
         /\ \A filter \in Filters : Expected(p, filter) \in Responses \cup {None}
<1>1. Strip[p] \in Keys
  BY KeyFacts
<1>2. latest[Strip[p]] \in Latest \cup {None}
  BY <1>1 DEF TypeOK, Latest
<1>3. \A filter \in Filters : Expected(p, filter) \in Responses \cup {None}
  BY <1>2 DEF Expected, Latest
<1> QED
  BY <1>1, <1>2, <1>3 DEF TypeOK, KvAfterSet

LEMMA VectorFacts ==
  ASSUME TypeOK, NEW a \in Callers, call[a].at = "vadd"
  PROVE  /\ call[a] \in SetCalls /\ call[a] # Idle
         /\ call[a].prompt \in Prompts /\ call[a].response \in Responses
         /\ call[a].tags \in TagSets
         /\ Vector(a) \in Vectors /\ Vector(a) # None
         /\ Vector(a).response = call[a].response
         /\ Vector(a).mask = TagsToBitmask(call[a].tags)
         /\ VectorsAfterSet(a) \in [Prompts -> Vectors \cup {None}]
         /\ VectorsAfterSet(a)[call[a].prompt] = Vector(a)
         /\ \A q \in Prompts \ {call[a].prompt} : VectorsAfterSet(a)[q] = vectors[q]
<1>1. call[a] \in SetCalls /\ call[a] # Idle
  BY CallShapes DEF TypeOK
<1>2. call[a].prompt \in Prompts /\ call[a].response \in Responses /\ call[a].tags \in TagSets
      /\ call[a].chunk \in BOOLEAN
  BY <1>1 DEF SetCalls
<1>3. Vector(a) \in Vectors
  BY <1>2, MaskFacts DEF Vector, Vectors
<1>4. /\ Vector(a).response = call[a].response
      /\ Vector(a).mask = TagsToBitmask(call[a].tags)
  BY DEF Vector
<1>5. vectors \in [Prompts -> Vectors \cup {None}]
  BY DEF TypeOK
<1> QED
  BY <1>1, <1>2, <1>3, <1>4, <1>5, VectorIsSome DEF VectorsAfterSet

LEMMA SearchFacts ==
  ASSUME TypeOK, NEW a \in Callers, call[a].at = "vsearch"
  PROVE  /\ call[a] # Idle /\ call[a].prompt \in Prompts
         /\ call[a].expect \in Responses \cup {None}
         /\ \A q \in Matches(call[a].prompt, call[a].filter) :
              q \in Prompts /\ vectors[q] \in Vectors /\ vectors[q].response \in Responses
<1>1. call[a] # Idle /\ call[a] \in SearchCalls
  BY CallShapes DEF TypeOK
<1>2. call[a].prompt \in Prompts /\ call[a].expect \in Responses \cup {None}
  BY <1>1 DEF SearchCalls
<1>3. \A q \in Matches(call[a].prompt, call[a].filter) : q \in Prompts /\ vectors[q] # None
  BY <1>2, SemanticAssumption DEF Matches
<1>4. \A q \in Prompts : vectors[q] \in Vectors \cup {None}
  BY DEF TypeOK
<1> QED
  BY <1>1, <1>2, <1>3, <1>4 DEF Vectors

LEMMA LatestAfter ==
  ASSUME TypeOK, NEW p \in Prompts, NEW r \in Latest \cup {None}
  PROVE  [latest EXCEPT ![Strip[p]] = r] \in [Keys -> Latest \cup {None}]
  BY DEF TypeOK, Latest

LEMMA SetTypes ==
  ASSUME TypeOK, NEW a \in Callers, Set(a)
  PROVE  TypeOK'
<1>1. ASSUME NEW p \in Prompts, NEW response \in Responses, NEW option \in Options,
             NEW exact \in BOOLEAN, SetExact(a, p, response, option, exact)
      PROVE  TypeOK'
  <2>1. PICK e \in Responses \cup {None} :
          call' = [Disturbed(Strip[p]) EXCEPT
                     ![a] = [at |-> "vadd", prompt |-> p, response |-> response,
                             tags |-> option.tags, chunk |-> option.chunk, expect |-> e]]
    BY <1>1 DEF SetExact
  <2>2. [at |-> "vadd", prompt |-> p, response |-> response,
         tags |-> option.tags, chunk |-> option.chunk, expect |-> e] \in Calls
    BY MaskFacts, ShapesAreCalls DEF SetCalls
  <2>3. Disturbed(Strip[p]) \in [Callers -> Calls]
    BY DisturbedFacts
  <2>4. call' \in [Callers -> Calls]
    BY <2>1, <2>2, <2>3
  <2>5. latest' \in [Keys -> Latest \cup {None}]
    BY <1>1, LatestAfter DEF SetExact
  <2>6. kv' \in [Keys -> Responses \cup {None}]
    BY <1>1, StoreFacts DEF SetExact
  <2> QED
    BY <1>1, <2>4, <2>5, <2>6 DEF SetExact, TypeOK, Latest
<1>2. ASSUME NEW p \in Prompts, NEW response \in Responses, SetExactFails(a, p, response)
      PROVE  TypeOK'
  <2>1. call' \in [Callers -> Calls]
    BY <1>2, DisturbedFacts DEF SetExactFails
  <2>2. latest' \in [Keys -> Latest \cup {None}]
    BY <1>2, LatestAfter DEF SetExactFails
  <2>3. kv' \in [Keys -> Responses \cup {None}]
    <3>1. KvAfterSet(Strip[p], response, TRUE) \in [Keys -> Responses \cup {None}]
      BY StoreFacts, Zenon
    <3>2. kv' \in {kv, KvAfterSet(Strip[p], response, TRUE)}
      BY <1>2 DEF SetExactFails
    <3> QED
      BY <3>1, <3>2 DEF TypeOK
  <2> QED
    BY <1>2, <2>1, <2>2, <2>3 DEF SetExactFails, TypeOK, Latest
<1>3. CASE SetVector(a)
  <2>1. call[a].at = "vadd" /\ UNCHANGED <<kv, deleted>>
    BY <1>3 DEF SetVector
  <2>2. call' \in [Callers -> Calls]
    BY <1>3, ShapesAreCalls DEF SetVector, TypeOK
  <2>3. PICK r \in Latest \cup {None} : latest' = [latest EXCEPT ![Strip[call[a].prompt]] = r]
    <3>1. latest[Strip[call[a].prompt]] \in Latest \cup {None}
      BY <2>1, VectorFacts, StoreFacts
    <3>2. [prompt |-> call[a].prompt, response |-> call[a].response, tags |-> call[a].tags]
            \in Latest
      BY <2>1, VectorFacts DEF Latest
    <3> QED
      BY <1>3, <3>1, <3>2 DEF SetVector
  <2>4. latest' \in [Keys -> Latest \cup {None}]
    BY <2>1, <2>3, LatestAfter, VectorFacts
  <2>5. vectors' \in [Prompts -> Vectors \cup {None}]
    BY <1>3, <2>1, VectorFacts DEF SetVector
  <2> QED
    BY <2>1, <2>2, <2>4, <2>5 DEF TypeOK, Latest
<1>4. CASE SetFails(a)
  <2>1. call[a].at = "vadd" /\ UNCHANGED <<kv, deleted>>
    BY <1>4 DEF SetFails
  <2>2. Disturbed(Strip[call[a].prompt]) \in [Callers -> Calls]
    BY DisturbedFacts
  <2>3. call' \in [Callers -> Calls]
    BY <1>4, <2>2, ShapesAreCalls DEF SetFails
  <2>4. latest' \in [Keys -> Latest \cup {None}]
    BY <1>4, <2>1, VectorFacts, LatestAfter DEF SetFails
  <2>5. vectors' \in [Prompts -> Vectors \cup {None}]
    BY <1>4, <2>1, VectorFacts DEF SetFails, TypeOK
  <2> QED
    BY <2>1, <2>3, <2>4, <2>5 DEF TypeOK, Latest
<1> QED
  BY <1>1, <1>2, <1>3, <1>4 DEF Set

LEMMA GetTypes ==
  ASSUME TypeOK, NEW a \in Callers, Get(a)
  PROVE  TypeOK'
<1>1. ASSUME UNCHANGED <<kv, vectors, latest, deleted>>, NEW c \in Calls,
             call' = [call EXCEPT ![a] = c]
      PROVE  TypeOK'
  BY <1>1 DEF TypeOK
<1>2. ASSUME NEW p \in Prompts, NEW filter \in Filters, ExactHit(a, p, filter)
      PROVE  TypeOK'
  BY <1>2 DEF ExactHit, TypeOK
<1>3. ASSUME NEW p \in Prompts, NEW filter \in Filters, ExactMiss(a, p, filter)
      PROVE  TypeOK'
  <2>1. [at |-> "vsearch", prompt |-> p, filter |-> TagsToBitmask(filter),
         expect |-> Expected(p, filter)] \in Calls
    BY MaskFacts, StoreFacts, ShapesAreCalls DEF SearchCalls
  <2> QED
    BY <1>1, <1>3, <2>1 DEF ExactMiss
<1>4. CASE SearchChunk(a)
  <2>1. call[a].at = "vsearch" /\ UNCHANGED <<kv, vectors, latest, deleted>>
    BY <1>4 DEF SearchChunk
  <2>2. PICK q \in Matches(call[a].prompt, call[a].filter) :
          call' = [call EXCEPT ![a] = [at |-> "expand", prompt |-> call[a].prompt,
                                       response |-> vectors[q].response,
                                       expect |-> call[a].expect]]
    BY <1>4 DEF SearchChunk
  <2>3. [at |-> "expand", prompt |-> call[a].prompt, response |-> vectors[q].response,
         expect |-> call[a].expect] \in Calls
    BY <2>1, <2>2, SearchFacts, ShapesAreCalls DEF ExpandCalls
  <2> QED
    BY <1>1, <2>1, <2>2, <2>3
<1>5. CASE SearchHit(a) \/ SearchMiss(a) \/ SearchFails(a) \/ Expand(a)
  BY <1>1, <1>5, ShapesAreCalls DEF SearchHit, SearchMiss, SearchFails, Expand
<1> QED
  BY <1>2, <1>3, <1>4, <1>5 DEF Get

LEMMA DropTypes ==
  ASSUME TypeOK, NEW p \in Prompts, (\E a \in Callers : Delete(a, p)) \/ Expire(p)
  PROVE  TypeOK'
<1>1. call' = Disturbed(Strip[p]) /\ latest' = [latest EXCEPT ![Strip[p]] = None]
      /\ deleted' \in {deleted, deleted \cup {p}}
      /\ kv' \in {kv, [kv EXCEPT ![Strip[p]] = None]}
      /\ vectors' \in {vectors, [vectors EXCEPT ![p] = None]}
  BY DEF Delete, Expire
<1>2. call' \in [Callers -> Calls]
  BY <1>1, DisturbedFacts DEF TypeOK, Disturbed
<1>3. latest' \in [Keys -> Latest \cup {None}]
  BY <1>1, LatestAfter
<1>4. kv' \in [Keys -> Responses \cup {None}] /\ vectors' \in [Prompts -> Vectors \cup {None}]
  BY <1>1 DEF TypeOK
<1> QED
  BY <1>1, <1>2, <1>3, <1>4 DEF TypeOK, Latest

LEMMA TypeStep == TypeOK /\ [Next]_vars => TypeOK'
<1> SUFFICES ASSUME TypeOK, [Next]_vars
             PROVE  TypeOK'
  OBVIOUS
<1>1. CASE UNCHANGED vars
  BY <1>1 DEF vars, TypeOK
<1>2. ASSUME NEW a \in Callers, Set(a) \/ Get(a)
      PROVE  TypeOK'
  BY <1>2, SetTypes, GetTypes
<1> QED
  BY <1>1, <1>2, DropTypes DEF Next

-----------------------------------------------------------------------------
(* Steps that disturb one key *)

\* The step touches nothing of the other keys, and nothing is known of k after it.
Forgets(k) ==
  /\ \A j \in Keys \ {k} : kv'[j] = kv[j] /\ latest'[j] = latest[j]
  /\ \A q \in Prompts : Strip[q] # k => vectors'[q] = vectors[q]
  /\ latest'[k] = None

\* What becomes of the calls: those about k expect nothing, and one may begin to set k.
Disturbs(k, a) ==
  \A b \in Callers :
    \/ call'[b] = Disturbed(k)[b]
    \/ call'[b] = Idle
    \/ /\ b = a /\ call'[b].at = "vadd" /\ Strip[call'[b].prompt] = k
       /\ call'[b].expect # None => Quiet(k) /\ kv'[k] = call'[b].response

LEMMA LatestFacts ==
  ASSUME Inv, NEW k \in Keys, latest[k] # None
  PROVE  /\ latest[k].prompt \in Prompts /\ latest[k].tags \in TagSets
         /\ latest[k].response \in Responses
         /\ Strip[latest[k].prompt] = k /\ Quiet(k)
         /\ kv[k] = latest[k].response
         /\ vectors[latest[k].prompt] # None
         /\ vectors[latest[k].prompt].response = latest[k].response
         /\ vectors[latest[k].prompt].mask = TagsToBitmask(latest[k].tags)
<1>1. latest[k] \in Latest
  BY DEF Inv, TypeOK, Latest
<1> QED
  BY <1>1 DEF Inv, Latest, LatestIsQuiet, CopiesAgree

LEMMA CallFacts ==
  ASSUME TypeOK, NEW b \in Callers
  PROVE  /\ call[b].at # "idle" => call[b] # Idle
         /\ call[b] = Idle <=> call[b].at = "idle"
         /\ call[b] # Idle => call[b].prompt \in Prompts /\ Strip[call[b].prompt] \in Keys
         /\ call[b].expect # None /\ call[b] # Idle => call[b].expect \in Responses
  BY CallShapes, KeyFacts DEF TypeOK

LEMMA IdleAt == Idle.at = "idle"
  BY DEF Idle

LEMMA DisturbStep ==
  ASSUME Inv, TypeOK', NEW k \in Keys, NEW a, Forgets(k), Disturbs(k, a)
  PROVE  Inv'
<1>1. TypeOK
  BY DEF Inv
<1>2. ASSUME NEW b \in Callers, call'[b].at = "vadd"
      PROVE  \/ call[b].at = "vadd" /\ call'[b].prompt = call[b].prompt
             \/ b = a /\ Strip[call'[b].prompt] = k
  <2>1. CASE call'[b] = Disturbed(k)[b]
    BY <1>1, <1>2, <2>1, DisturbedFacts
  <2>2. call'[b] # Idle
    BY <1>2, IdleAt
  <2> QED
    BY <2>1, <2>2 DEF Disturbs
<1>3. ASSUME NEW b \in Callers, Expecting(b)'
      PROVE  \/ call'[b] = call[b] /\ Expecting(b) /\ Strip[call[b].prompt] # k
             \/ b = a /\ call'[b].at = "vadd" /\ Strip[call'[b].prompt] = k
                  /\ Quiet(k) /\ kv'[k] = call'[b].response
  <2>1. call'[b] # Idle /\ call'[b].expect # None
    BY <1>3 DEF Expecting
  <2>2. CASE call'[b] = Disturbed(k)[b]
    BY <1>1, <2>1, <2>2, DisturbedFacts DEF Expecting
  <2> QED
    BY <2>1, <2>2 DEF Disturbs
<1>4. \A j \in Keys : latest'[j] # None => j # k /\ latest'[j] = latest[j] /\ kv'[j] = kv[j]
  BY DEF Forgets
<1>5. CopiesAgree'
  <2> SUFFICES ASSUME NEW j \in Keys, latest'[j] # None
               PROVE  /\ kv'[j] = latest'[j].response
                      /\ vectors'[latest'[j].prompt] # None
                      /\ vectors'[latest'[j].prompt].response = latest'[j].response
                      /\ vectors'[latest'[j].prompt].mask = TagsToBitmask(latest'[j].tags)
    BY DEF CopiesAgree
  <2>1. j # k /\ latest'[j] = latest[j] /\ kv'[j] = kv[j] /\ latest[j] # None
    BY <1>4
  <2>2. vectors'[latest[j].prompt] = vectors[latest[j].prompt]
    BY <2>1, LatestFacts DEF Forgets
  <2> QED
    BY <2>1, <2>2, LatestFacts
<1>6. LatestIsQuiet'
  <2> SUFFICES ASSUME NEW j \in Keys, latest'[j] # None
               PROVE  Strip[latest'[j].prompt] = j /\ Quiet(j)'
    BY DEF LatestIsQuiet
  <2>1. j # k /\ latest'[j] = latest[j] /\ Quiet(j) /\ Strip[latest[j].prompt] = j
    BY <1>4, LatestFacts
  <2> QED
    BY <1>2, <2>1 DEF Quiet
<1>7. ASSUME NEW b \in Callers, Expecting(b)'
      PROVE  Promised(b)'
  <2>1. CASE call'[b] = call[b] /\ Expecting(b) /\ Strip[call[b].prompt] # k
    <3>1. Promised(b)
      BY <2>1 DEF Inv
    <3>2. call[b].prompt \in Prompts /\ Strip[call[b].prompt] \in Keys
      BY <1>1, <2>1, CallFacts DEF Expecting
    <3>3. /\ kv'[Strip[call[b].prompt]] = kv[Strip[call[b].prompt]]
          /\ vectors'[call[b].prompt] = vectors[call[b].prompt]
      BY <2>1, <3>2 DEF Forgets
    <3>4. \A c \in Callers \ {b} :
            call'[c].at = "vadd" => Strip[call'[c].prompt] # Strip[call'[b].prompt]
      BY <1>2, <2>1, <3>1 DEF Promised
    <3> QED
      BY <2>1, <3>1, <3>3, <3>4 DEF Promised
  <2>2. CASE /\ b = a /\ call'[b].at = "vadd" /\ Strip[call'[b].prompt] = k
             /\ Quiet(k) /\ kv'[k] = call'[b].response
    <3>1. \A c \in Callers \ {b} : call'[c].at = "vadd" => Strip[call'[c].prompt] # k
      BY <1>2, <2>2 DEF Quiet
    <3> QED
      BY <2>2, <3>1 DEF Promised
  <2> QED
    BY <1>3, <1>7, <2>1, <2>2
<1> QED
  BY <1>5, <1>6, <1>7 DEF Inv

LEMMA LatestForgets ==
  ASSUME TypeOK, NEW k \in Keys, latest' = [latest EXCEPT ![k] = None]
  PROVE  latest'[k] = None /\ \A j \in Keys \ {k} : latest'[j] = latest[j]
  BY DEF TypeOK

LEMMA KvAfterElsewhere ==
  ASSUME TypeOK, NEW k \in Keys, NEW response, NEW exact \in BOOLEAN
  PROVE  /\ \A j \in Keys \ {k} : KvAfterSet(k, response, exact)[j] = kv[j]
         /\ exact /\ Workspace => KvAfterSet(k, response, exact)[k] = response
  BY DEF TypeOK, KvAfterSet

LEMMA SetExactStep ==
  ASSUME Inv, TypeOK', NEW a \in Callers, NEW p \in Prompts, NEW response \in Responses,
         NEW option \in Options, NEW exact \in BOOLEAN,
         SetExact(a, p, response, option, exact)
  PROVE  Inv'
<1> DEFINE k == Strip[p]
<1>1. TypeOK /\ k \in Keys
  BY KeyFacts DEF Inv
<1>2. /\ kv' = KvAfterSet(k, response, exact) /\ vectors' = vectors
      /\ latest' = [latest EXCEPT ![k] = None]
  BY DEF SetExact
<1>3. PICK e : /\ e # None => exact /\ Workspace /\ Quiet(k)
               /\ call' = [Disturbed(k) EXCEPT
                     ![a] = [at |-> "vadd", prompt |-> p, response |-> response,
                             tags |-> option.tags, chunk |-> option.chunk, expect |-> e]]
  <2> DEFINE e == IF exact /\ Workspace /\ Quiet(k) THEN response ELSE None
  <2>1. call' = [Disturbed(k) EXCEPT
                     ![a] = [at |-> "vadd", prompt |-> p, response |-> response,
                             tags |-> option.tags, chunk |-> option.chunk, expect |-> e]]
    BY DEF SetExact, Quiet
  <2>2. e # None => exact /\ Workspace /\ Quiet(k)
    OBVIOUS
  <2> HIDE DEF e
  <2> QED
    BY <2>1, <2>2
<1> HIDE DEF k
<1>4. Disturbed(k) \in [Callers -> Calls]
  BY <1>1, DisturbedFacts
<1>5. /\ call'[a].at = "vadd" /\ call'[a].prompt = p /\ call'[a].response = response
      /\ call'[a].expect = e
      /\ \A b \in Callers \ {a} : call'[b] = Disturbed(k)[b]
  BY <1>3, <1>4
<1>6. Forgets(k)
  <2>1. \A j \in Keys \ {k} : kv'[j] = kv[j]
    BY <1>1, <1>2, KvAfterElsewhere, Zenon
  <2> QED
    BY <1>1, <1>2, <2>1, LatestForgets DEF Forgets
<1>7. Disturbs(k, a)
  <2>1. e # None => Quiet(k) /\ kv'[k] = response
    BY <1>1, <1>2, <1>3, KvAfterElsewhere, Zenon
  <2>2. Strip[call'[a].prompt] = k
    BY <1>5 DEF k
  <2> QED
    BY <1>5, <2>1, <2>2 DEF Disturbs
<1> QED
  BY <1>1, <1>6, <1>7, DisturbStep

LEMMA FailedSetStep ==
  ASSUME Inv, TypeOK', NEW a \in Callers,
         SetFails(a) \/ \E p \in Prompts, response \in Responses : SetExactFails(a, p, response)
  PROVE  Inv'
<1>1. TypeOK
  BY DEF Inv
<1>2. CASE SetFails(a)
  <2>1. PICK k \in Keys : k = Strip[call[a].prompt]
    BY <1>1, <1>2, VectorFacts, KeyFacts DEF SetFails
  <2>2. /\ call[a].at = "vadd" /\ kv' = kv /\ latest' = [latest EXCEPT ![k] = None]
        /\ vectors' \in {vectors, VectorsAfterSet(a)}
        /\ call' = [Disturbed(k) EXCEPT ![a] = Idle]
    BY <1>2, <2>1 DEF SetFails
  <2>3. Disturbed(k) \in [Callers -> Calls]
    BY <1>1, DisturbedFacts
  <2>4. \A b \in Callers : call'[b] = Disturbed(k)[b] \/ call'[b] = Idle
    BY <2>2, <2>3
  <2>5. \A q \in Prompts : Strip[q] # k => vectors'[q] = vectors[q]
    BY <1>1, <2>1, <2>2, VectorFacts
  <2>6. Forgets(k) /\ Disturbs(k, a)
    BY <1>1, <2>2, <2>4, <2>5, LatestForgets DEF Forgets, Disturbs
  <2> QED
    BY <2>6, DisturbStep
<1>3. ASSUME NEW p \in Prompts, NEW response \in Responses, SetExactFails(a, p, response)
      PROVE  Inv'
  <2>1. PICK k \in Keys : k = Strip[p]
    BY KeyFacts
  <2>2. /\ kv' \in {kv, KvAfterSet(k, response, TRUE)} /\ vectors' = vectors
        /\ latest' = [latest EXCEPT ![k] = None] /\ call' = Disturbed(k)
    BY <1>3, <2>1 DEF SetExactFails
  <2>3. Forgets(k) /\ Disturbs(k, a)
    <3>1. \A j \in Keys \ {k} : KvAfterSet(k, response, TRUE)[j] = kv[j]
      BY <1>1, KvAfterElsewhere, Zenon
    <3>2. \A j \in Keys \ {k} : kv'[j] = kv[j]
      BY <2>2, <3>1
    <3> QED
      BY <1>1, <2>2, <3>2, LatestForgets DEF Forgets, Disturbs
  <2> QED
    BY <2>3, DisturbStep
<1> QED
  BY <1>2, <1>3

\* A delete, and the end of a time to live.
LEMMA DropStep ==
  ASSUME Inv, TypeOK', NEW p \in Prompts, (\E a \in Callers : Delete(a, p)) \/ Expire(p)
  PROVE  Inv'
<1>1. TypeOK
  BY DEF Inv
<1>2. PICK k \in Keys : k = Strip[p]
  BY KeyFacts
<1>3. /\ call' = Disturbed(k) /\ latest' = [latest EXCEPT ![k] = None]
      /\ kv' \in {kv, [kv EXCEPT ![k] = None]}
      /\ vectors' \in {vectors, [vectors EXCEPT ![p] = None]}
  BY <1>2 DEF Delete, Expire
<1>4. /\ \A j \in Keys \ {k} : kv'[j] = kv[j]
      /\ \A q \in Prompts : Strip[q] # k => vectors'[q] = vectors[q]
  BY <1>1, <1>2, <1>3 DEF TypeOK
<1>5. Forgets(k) /\ Disturbs(k, None)
  BY <1>1, <1>3, <1>4, LatestForgets DEF Forgets, Disturbs
<1> QED
  BY <1>5, DisturbStep

-----------------------------------------------------------------------------
(* The end of a set, and the steps of a get *)

LEMMA SetVectorStep ==
  ASSUME Inv, TypeOK', NEW a \in Callers, SetVector(a)
  PROVE  Inv'
<1> DEFINE p == call[a].prompt
           r == [prompt |-> p, response |-> call[a].response, tags |-> call[a].tags]
<1>1. TypeOK /\ call[a].at = "vadd" /\ call[a] # Idle /\ p \in Prompts
  BY VectorFacts DEF Inv, SetVector
<1>2. PICK k \in Keys : k = Strip[p]
  BY <1>1, KeyFacts
<1>3. /\ vectors' = VectorsAfterSet(a) /\ kv' = kv
      /\ latest' = [latest EXCEPT ![k] = IF call[a].expect = None THEN latest[k] ELSE r]
      /\ call' = [call EXCEPT ![a] = Idle]
  BY <1>2 DEF SetVector
<1>4. /\ call'[a] = Idle /\ \A b \in Callers \ {a} : call'[b] = call[b]
  BY <1>1, <1>3 DEF TypeOK
<1>5. /\ vectors'[p] # None
      /\ vectors'[p].response = call[a].response
      /\ vectors'[p].mask = TagsToBitmask(call[a].tags)
      /\ \A q \in Prompts \ {p} : vectors'[q] = vectors[q]
  BY <1>1, <1>3, VectorFacts
<1>6. latest[k] = None
  BY <1>1, <1>2, LatestFacts DEF Quiet
<1>7. /\ latest'[k] # None => latest'[k] = r /\ call[a].expect # None
      /\ \A j \in Keys \ {k} : latest'[j] = latest[j]
  BY <1>1, <1>3, <1>6 DEF TypeOK
<1>8. call[a].expect # None => Promised(a)
  BY <1>1 DEF Inv, Expecting
<1>9. CopiesAgree'
  <2> SUFFICES ASSUME NEW j \in Keys, latest'[j] # None
               PROVE  /\ kv'[j] = latest'[j].response
                      /\ vectors'[latest'[j].prompt] # None
                      /\ vectors'[latest'[j].prompt].response = latest'[j].response
                      /\ vectors'[latest'[j].prompt].mask = TagsToBitmask(latest'[j].tags)
    BY DEF CopiesAgree
  <2>1. CASE j = k
    <3>1. latest'[j].prompt = p /\ latest'[j].response = call[a].response
          /\ latest'[j].tags = call[a].tags
      BY <1>7, <2>1
    <3>2. kv[k] = call[a].response
      BY <1>1, <1>2, <1>7, <1>8, <2>1 DEF Promised
    <3> QED
      BY <1>3, <1>5, <2>1, <3>1, <3>2
  <2>2. CASE j # k
    <3>1. latest'[j] = latest[j] /\ latest[j] # None
      BY <1>7, <2>2
    <3>2. latest[j].prompt \in Prompts \ {p}
      BY <1>2, <2>2, <3>1, LatestFacts
    <3> QED
      BY <1>3, <1>5, <3>1, <3>2, LatestFacts
  <2> QED
    BY <2>1, <2>2
<1>10. LatestIsQuiet'
  <2> SUFFICES ASSUME NEW j \in Keys, latest'[j] # None
               PROVE  Strip[latest'[j].prompt] = j /\ Quiet(j)'
    BY DEF LatestIsQuiet
  <2>1. CASE j = k
    <3>1. latest'[j].prompt = p
      BY <1>7, <2>1
    <3>2. \A b \in Callers \ {a} : call[b].at = "vadd" => Strip[call[b].prompt] # k
      BY <1>2, <1>7, <1>8, <2>1 DEF Promised
    <3> QED
      BY <1>2, <1>4, <2>1, <3>1, <3>2, IdleAt DEF Quiet
  <2>2. CASE j # k
    <3>1. latest'[j] = latest[j] /\ Quiet(j) /\ Strip[latest[j].prompt] = j
      BY <1>7, <2>2, LatestFacts
    <3> QED
      BY <1>4, <3>1, IdleAt DEF Quiet
  <2> QED
    BY <2>1, <2>2
<1>11. ASSUME NEW b \in Callers, Expecting(b)'
       PROVE  Promised(b)'
  <2>1. b # a /\ call'[b] = call[b] /\ Expecting(b)
    BY <1>4, <1>11 DEF Expecting
  <2>2. Promised(b)
    BY <2>1 DEF Inv
  <2>3. call[b].prompt \in Prompts \ {p}
    BY <1>1, <2>1, <2>2, CallFacts DEF Expecting, Promised
  <2>4. vectors'[call[b].prompt] = vectors[call[b].prompt]
    BY <1>5, <2>3
  <2>5. \A c \in Callers \ {b} :
          call'[c].at = "vadd" => Strip[call'[c].prompt] # Strip[call[b].prompt]
    BY <1>4, <2>2, IdleAt DEF Promised
  <2> QED
    BY <1>3, <2>1, <2>2, <2>4, <2>5 DEF Promised
<1> QED
  BY <1>9, <1>10, <1>11 DEF Inv

\* A request of a get stores nothing.
LEMMA ReadStep ==
  ASSUME Inv, TypeOK', NEW a \in Callers, UNCHANGED <<kv, vectors, latest>>,
         \A b \in Callers \ {a} : call'[b] = call[b],
         call'[a].at # "vadd",
         Expecting(a)' =>
           /\ Quiet(Strip[call'[a].prompt])
           /\ call'[a].at = "vsearch" =>
                /\ vectors[call'[a].prompt] # None
                /\ vectors[call'[a].prompt].response = call'[a].expect
                /\ call'[a].filter \subseteq vectors[call'[a].prompt].mask
           /\ call'[a].at = "expand" => call'[a].response = call'[a].expect
  PROVE  Inv'
<1>1. CopiesAgree'
  BY DEF Inv, CopiesAgree
<1>2. LatestIsQuiet'
  BY DEF Inv, LatestIsQuiet, Quiet
<1>3. ASSUME NEW b \in Callers, Expecting(b)', b # a
      PROVE  Promised(b)'
  <2>1. call'[b] = call[b] /\ Promised(b)
    BY <1>3 DEF Inv, Expecting
  <2> QED
    BY <2>1 DEF Promised
<1>4. Expecting(a)' => Promised(a)'
  BY DEF Promised, Quiet
<1> QED
  BY <1>1, <1>2, <1>3, <1>4 DEF Inv

\* What a get may expect is there, and is what it will be given.
LEMMA ExpectedFacts ==
  ASSUME Inv, NEW p \in Prompts, NEW filter \in Filters, Expected(p, filter) # None
  PROVE  /\ latest[Strip[p]] # None /\ Quiet(Strip[p])
         /\ kv[Strip[p]] = Expected(p, filter)
         /\ vectors[p] # None /\ vectors[p].response = Expected(p, filter)
         /\ TagsToBitmask(filter) \subseteq vectors[p].mask
<1>1. PICK k \in Keys : k = Strip[p]
  BY KeyFacts
<1>2. /\ latest[k] # None /\ latest[k].prompt = p /\ filter \subseteq latest[k].tags
      /\ Expected(p, filter) = latest[k].response
  BY <1>1 DEF Expected
<1> QED
  BY <1>1, <1>2, LatestFacts, MaskFacts

\* The vector of the prompt itself is the only match of a search that expects it.
LEMMA OwnMatch ==
  ASSUME Inv, NEW a \in Callers, call[a].at = "vsearch", call[a].expect # None
  PROVE  /\ Matches(call[a].prompt, call[a].filter) = {call[a].prompt}
         /\ vectors[call[a].prompt].response = call[a].expect
         /\ Quiet(Strip[call[a].prompt])
<1>1. TypeOK
  BY DEF Inv
<1>2. call[a].prompt \in Prompts /\ call[a] # Idle
  BY <1>1, SearchFacts
<1>3. Promised(a)
  BY <1>2 DEF Inv, Expecting
<1>4. Quiet(Strip[call[a].prompt])
  BY <1>3 DEF Promised, Quiet
<1> QED
  BY <1>2, <1>3, <1>4, SemanticAssumption DEF Promised, Matches

LEMMA GetStep ==
  ASSUME Inv, TypeOK', NEW a \in Callers, Get(a)
  PROVE  Inv'
<1>1. TypeOK
  BY DEF Inv
<1>2. ASSUME NEW c, call' = [call EXCEPT ![a] = c]
      PROVE  call'[a] = c /\ \A b \in Callers \ {a} : call'[b] = call[b]
  BY <1>1, <1>2 DEF TypeOK
<1>3. ASSUME NEW p \in Prompts, NEW filter \in Filters, ExactHit(a, p, filter)
      PROVE  Inv'
  <2>1. UNCHANGED <<kv, vectors, call, latest>>
    BY <1>3 DEF ExactHit
  <2> QED
    BY <2>1 DEF Inv, CopiesAgree, LatestIsQuiet, Quiet, Expecting, Promised
<1>4. ASSUME NEW p \in Prompts, NEW filter \in Filters, ExactMiss(a, p, filter)
      PROVE  Inv'
  <2>1. /\ UNCHANGED <<kv, vectors, latest>>
        /\ call' = [call EXCEPT ![a] = [at |-> "vsearch", prompt |-> p,
                                        filter |-> TagsToBitmask(filter),
                                        expect |-> Expected(p, filter)]]
    BY <1>4 DEF ExactMiss
  <2>2. /\ call'[a].at = "vsearch" /\ call'[a].prompt = p
        /\ call'[a].filter = TagsToBitmask(filter)
        /\ call'[a].expect = Expected(p, filter)
        /\ \A b \in Callers \ {a} : call'[b] = call[b]
    BY <1>2, <2>1
  <2> QED
    BY <2>1, <2>2, ExpectedFacts, ReadStep DEF Expecting
<1>5. CASE SearchChunk(a)
  <2>1. /\ call[a].at = "vsearch" /\ UNCHANGED <<kv, vectors, latest>>
    BY <1>5 DEF SearchChunk
  <2>2. PICK q \in Matches(call[a].prompt, call[a].filter) :
          call' = [call EXCEPT ![a] = [at |-> "expand", prompt |-> call[a].prompt,
                                       response |-> vectors[q].response,
                                       expect |-> call[a].expect]]
    BY <1>5 DEF SearchChunk
  <2>3. /\ call'[a].at = "expand" /\ call'[a].prompt = call[a].prompt
        /\ call'[a].response = vectors[q].response /\ call'[a].expect = call[a].expect
        /\ \A b \in Callers \ {a} : call'[b] = call[b]
    BY <1>2, <2>2
  <2>4. call[a].expect # None => vectors[q].response = call[a].expect
                                   /\ Quiet(Strip[call[a].prompt])
    BY <2>1, <2>2, OwnMatch
  <2> QED
    BY <2>1, <2>3, <2>4, ReadStep DEF Expecting
<1>6. CASE SearchHit(a) \/ SearchMiss(a) \/ SearchFails(a) \/ Expand(a)
  <2>1. call' = [call EXCEPT ![a] = Idle] /\ UNCHANGED <<kv, vectors, latest>>
    BY <1>6 DEF SearchHit, SearchMiss, SearchFails, Expand
  <2>2. call'[a] = Idle /\ \A b \in Callers \ {a} : call'[b] = call[b]
    BY <1>2, <2>1
  <2> QED
    BY <2>1, <2>2, IdleAt, ReadStep DEF Expecting
<1> QED
  BY <1>3, <1>4, <1>5, <1>6 DEF Get

-----------------------------------------------------------------------------
(* The theorems *)

LEMMA InvInit == Init => Inv
<1> SUFFICES ASSUME Init
             PROVE  Inv
  OBVIOUS
<1>1. /\ kv = [k \in Keys |-> None] /\ vectors = [p \in Prompts |-> None]
      /\ call = [a \in Callers |-> Idle] /\ latest = [k \in Keys |-> None] /\ deleted = {}
  BY DEF Init
<1>2. TypeOK
  BY <1>1, ShapesAreCalls DEF TypeOK
<1>3. CopiesAgree /\ LatestIsQuiet
  BY <1>1 DEF CopiesAgree, LatestIsQuiet
<1>4. \A a \in Callers : ~Expecting(a)
  BY <1>1 DEF Expecting
<1> QED
  BY <1>2, <1>3, <1>4 DEF Inv

LEMMA InvStep == Inv /\ [Next]_vars => Inv'
<1> SUFFICES ASSUME Inv, [Next]_vars
             PROVE  Inv'
  OBVIOUS
<1>1. TypeOK'
  BY TypeStep DEF Inv
<1>2. CASE UNCHANGED vars
  BY <1>2 DEF vars, Inv, TypeOK, CopiesAgree, LatestIsQuiet, Quiet, Expecting, Promised
<1>3. ASSUME NEW a \in Callers, Set(a)
      PROVE  Inv'
  BY <1>1, <1>3, SetExactStep, FailedSetStep, SetVectorStep DEF Set
<1>4. ASSUME NEW a \in Callers, Get(a)
      PROVE  Inv'
  BY <1>1, <1>4, GetStep
<1> QED
  BY <1>1, <1>2, <1>3, <1>4, DropStep DEF Next

LEMMA Invariant == Spec => []Inv
  BY InvInit, InvStep, PTL DEF Spec

\* The exact keys, the vectors, and what every call of every caller carries from one
\* request to the next, always have their types.
THEOREM TypeCorrect == Spec => []TypeOK
<1>1. Inv => TypeOK
  BY DEF Inv
<1> QED
  BY <1>1, Invariant, PTL

\* After a set that nothing disturbed, and as long as nothing of its key is set, deleted
\* or expires, the exact key and the vector both hold its response, however the requests
\* of other callers interleave with its two.
THEOREM TwoCopiesAgree == Spec => []CopiesAgree
<1>1. Inv => CopiesAgree
  BY DEF Inv
<1> QED
  BY <1>1, Invariant, PTL

\* A get of a prompt whose last set ran undisturbed, and which nothing disturbs either,
\* returns that set's response, over the exact key or over the vector, and never misses.
THEOREM LatestServed == Spec => LatestIsServed
<1>1. Inv /\ [Next]_vars =>
        [result' # None /\ result'.expect # None =>
           result'.value \in {result'.expect, Document}]_vars
  <2> SUFFICES ASSUME Inv, Next, result' # None, result'.expect # None
               PROVE  result'.value \in {result'.expect, Document}
    BY DEF vars
  <2>1. ASSUME NEW a \in Callers, NEW p \in Prompts, NEW filter \in Filters,
               ExactHit(a, p, filter)
        PROVE  result'.value \in {result'.expect, Document}
    <3>1. result'.value = kv[Strip[p]] /\ result'.expect = Expected(p, filter)
      BY <2>1 DEF ExactHit, Return
    <3> QED
      BY <3>1, ExpectedFacts
  <2>2. ASSUME NEW a \in Callers, SearchHit(a)
        PROVE  result'.value \in {result'.expect, Document}
    <3>1. PICK q \in Matches(call[a].prompt, call[a].filter) :
            result'.value = vectors[q].response /\ result'.expect = call[a].expect
      BY <2>2 DEF SearchHit, Return
    <3>2. call[a].at = "vsearch"
      BY <2>2 DEF SearchHit
    <3> QED
      BY <3>1, <3>2, OwnMatch
  <2>3. ASSUME NEW a \in Callers, SearchMiss(a)
        PROVE  FALSE
    <3>1. /\ call[a].at = "vsearch" /\ result'.expect = call[a].expect
          /\ call[a].prompt \notin Matches(call[a].prompt, call[a].filter)
      BY <2>3 DEF SearchMiss, Return
    <3> QED
      BY <3>1, OwnMatch
  <2>4. ASSUME NEW a \in Callers, Expand(a)
        PROVE  result'.value \in {result'.expect, Document}
    <3>1. /\ call[a].at = "expand" /\ result'.expect = call[a].expect
          /\ result'.value \in {Document, call[a].response}
      BY <2>4 DEF Expand, Return
    <3>2. Expecting(a)
      BY <3>1, CallFacts DEF Inv, Expecting
    <3>3. call[a].response = call[a].expect
      BY <3>1, <3>2 DEF Inv, Promised
    <3> QED
      BY <3>1, <3>3
  <2>5. ASSUME NEW a \in Callers,
               Set(a) \/ SearchChunk(a) \/ SearchFails(a)
                 \/ \E p \in Prompts, filter \in Filters : ExactMiss(a, p, filter)
        PROVE  FALSE
    BY <2>5 DEF Set, SetExact, SetExactFails, SetVector, SetFails, SearchChunk, SearchFails,
                ExactMiss
  <2>6. ASSUME NEW p \in Prompts, Expire(p) \/ \E a \in Callers : Delete(a, p)
        PROVE  FALSE
    BY <2>6 DEF Delete, Expire
  <2> QED
    BY <2>1, <2>2, <2>3, <2>4, <2>5, <2>6 DEF Next, Get
<1> QED
  BY <1>1, Invariant, PTL DEF Spec, LatestIsServed
=============================================================================
