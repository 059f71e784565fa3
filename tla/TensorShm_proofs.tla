--------------------------- MODULE TensorShm_proofs ---------------------------
(***************************************************************************)
(* Proofs about TensorShm: type correctness, which file an array shows,    *)
(* and what detach_all leaves behind, for every set of threads, cores and  *)
(* calls and every number of files.                                        *)
(***************************************************************************)
EXTENDS TensorShm, Lemmas

-----------------------------------------------------------------------------
(* The inductive invariant *)

Labels ==
  {"idle", "cached", "open", "map", "store", "seek", "read", "view", "detach", "clear"}

\* The steps of a call that has its mapping from the cache or put it there.
Attached == {"seek", "read", "view"}

Mapping == [file : Nat, size : Nat, pos : Nat, open : BOOLEAN]

Typed ==
  /\ made \in Nat /\ made <= MaxFiles
  /\ file \in [Cores -> Nat] /\ \A c \in Cores : file[c] <= made
  /\ DOMAIN cache \subseteq Cores /\ \A c \in DOMAIN cache : cache[c] \in Maps
  /\ map \in [Maps -> Mapping] /\ \A m \in Maps : map[m].pos <= map[m].size
  /\ pc \in [Threads -> Labels]
  /\ call \in [Threads -> Calls \cup {NoCall}]
  /\ fd \in [Threads -> Nat] /\ \A t \in Threads : fd[t] <= made
  /\ shm \in [Threads -> Maps \cup {None}]
  /\ header \in [Threads -> Nat \cup {None}]
  /\ view \in [Threads -> Maps \cup {None}]
  /\ floor \in [Cores -> Nat]

\* What a thread has at each of its steps.
Has(t) ==
  /\ pc[t] \in {"idle", "cached", "open", "detach", "clear"} => shm[t] = None /\ fd[t] = 0
  /\ pc[t] \in {"detach", "clear"} => t = Closer
  /\ pc[t] \notin {"idle", "detach", "clear"} => call[t] \in Calls
  /\ pc[t] = "map" => shm[t] = None /\ fd[t] # 0
  /\ pc[t] = "store" => shm[t] \in Maps /\ fd[t] # 0 /\ map[shm[t]].file = fd[t]
  /\ pc[t] \in Attached => shm[t] \in Maps /\ fd[t] = 0 /\ map[shm[t]].file # 0
  /\ pc[t] = "view" => header[t] \in Nat

\* A mapping that is not stored yet is its maker's alone, and open.
Private(t) ==
  pc[t] = "store" =>
    /\ map[shm[t]].open
    /\ \A c \in DOMAIN cache : cache[c] # shm[t]
    /\ \A u \in Threads \ {t} : shm[u] # shm[t]

\* Nothing is older than the floor of its core, what late threads have attached excepted.
Floors ==
  /\ \A c \in Cores : (file[c] # 0 => file[c] >= floor[c]) /\ floor[c] <= made + 1
  /\ \A c \in DOMAIN cache : map[cache[c]].file # 0 /\ map[cache[c]].file >= floor[c]
  /\ \A t \in Threads :
       /\ fd[t] # 0 => fd[t] >= floor[call[t].core]
       /\ pc[t] \in Attached /\ t \notin late => map[shm[t]].file >= floor[call[t].core]

Closing ==
  /\ ClosedIsForgotten
  /\ pc[Closer] = "detach" => left \subseteq DOMAIN cache

Shown == \A t \in Threads : view[t] # None => map[view[t]].open

Inv ==
  /\ Typed /\ Floors /\ Closing /\ Shown
  /\ \A t \in Threads : Has(t) /\ Private(t)

-----------------------------------------------------------------------------
(* An object nobody refers to, and the least of some numbers *)

LEMMA RangeBound ==
  ASSUME NEW S, IsFiniteSet(S), NEW f, DOMAIN f = S
  PROVE  IsFiniteSet(Range(f)) /\ Cardinality(Range(f)) <= Cardinality(S)
<1> DEFINE g == [x \in S |-> f[x]]
<1>1. g \in Surjection(S, Range(f))
  BY DEF Range, Surjection
<1> QED
  BY <1>1, FS_Surjection

LEMMA FreshMap ==
  ASSUME Typed
  PROVE  \E n \in Maps : n \notin Referenced
<1>1. IsFiniteSet(DOMAIN cache) /\ Cardinality(DOMAIN cache) <= Cardinality(Cores)
  BY ShmAssumption, FS_Subset DEF Typed
<1>2. IsFiniteSet(Range(cache)) /\ Cardinality(Range(cache)) <= Cardinality(DOMAIN cache)
  BY <1>1, RangeBound
<1>3. IsFiniteSet(Range(shm)) /\ Cardinality(Range(shm)) <= Cardinality(Threads)
  BY ShmAssumption, RangeBound DEF Typed
<1>4. IsFiniteSet(Range(view)) /\ Cardinality(Range(view)) <= Cardinality(Threads)
  BY ShmAssumption, RangeBound DEF Typed
<1> DEFINE A == Range(cache)
           B == Range(shm)
           D == Range(view)
<1> HIDE DEF A, B, D
<1>5. /\ Cardinality(A) \in Nat /\ Cardinality(B) \in Nat /\ Cardinality(D) \in Nat
      /\ Cardinality(Cores) \in Nat /\ Cardinality(Threads) \in Nat
      /\ Cardinality(DOMAIN cache) \in Nat
  BY <1>1, <1>2, <1>3, <1>4, ShmAssumption, FS_CardinalityType DEF A, B, D
<1>6. /\ IsFiniteSet(A \cup B) /\ Cardinality(A \cup B) \in Nat
      /\ Cardinality(A \cap B) \in Nat
      /\ Cardinality(A \cup B) = Cardinality(A) + Cardinality(B) - Cardinality(A \cap B)
  <2>1. IsFiniteSet(A) /\ IsFiniteSet(B)
    BY <1>2, <1>3 DEF A, B
  <2>2. IsFiniteSet(A \cap B)
    BY <2>1, FS_Intersection
  <2> QED
    BY <2>1, <2>2, FS_Union, FS_CardinalityType
<1>7. /\ IsFiniteSet((A \cup B) \cup D) /\ Cardinality((A \cup B) \cup D) \in Nat
      /\ Cardinality((A \cup B) \cap D) \in Nat
      /\ Cardinality((A \cup B) \cup D)
           = Cardinality(A \cup B) + Cardinality(D) - Cardinality((A \cup B) \cap D)
  <2>1. IsFiniteSet(D)
    BY <1>4 DEF D
  <2>2. IsFiniteSet((A \cup B) \cap D)
    BY <2>1, <1>6, FS_Intersection
  <2> QED
    BY <2>1, <2>2, <1>6, FS_Union, FS_CardinalityType
<1>8. Cardinality((A \cup B) \cup D) <= Cardinality(Cores) + 2 * Cardinality(Threads)
  <2>1. Cardinality(A) <= Cardinality(DOMAIN cache) /\ Cardinality(DOMAIN cache) <= Cardinality(Cores)
    BY <1>1, <1>2 DEF A
  <2>2. Cardinality(B) <= Cardinality(Threads) /\ Cardinality(D) <= Cardinality(Threads)
    BY <1>3, <1>4 DEF B, D
  <2> QED
    BY <2>1, <2>2, <1>5, <1>6, <1>7
<1>9. ~(Maps \subseteq (A \cup B) \cup D)
  <2> SUFFICES ASSUME Maps \subseteq (A \cup B) \cup D PROVE FALSE
    OBVIOUS
  <2>1. Cardinality(Maps) <= Cardinality((A \cup B) \cup D) /\ Cardinality(Maps) \in Nat
    BY <1>7, FS_Subset, FS_CardinalityType, ShmAssumption
  <2> QED
    BY <2>1, <1>5, <1>7, <1>8, ShmAssumption
<1> QED
  BY <1>9 DEF Referenced, Viewed, A, B, D

LEMMA Least ==
  ASSUME NEW S \in SUBSET Nat, S # {}
  PROVE  Min(S) \in S /\ \A y \in S : Min(S) <= y
BY LeastOf DEF Min

-----------------------------------------------------------------------------
(* The arguments of a call, and the initial states *)

LEMMA CallFacts ==
  ASSUME NEW a \in Calls
  PROVE  a.core \in Cores /\ a.offset \in Nat /\ a.size \in Nat
BY ShmAssumption

\* The core of a thread that has a file open, or a mapping to read.
LEMMA CoreOf ==
  ASSUME Typed, NEW t \in Threads, Has(t)
  PROVE  /\ fd[t] # 0 => call[t].core \in Cores
         /\ pc[t] \in Attached => call[t].core \in Cores
<1>1. pc[t] \notin {"idle", "detach", "clear"} => call[t].core \in Cores
  BY CallFacts DEF Has
<1>2. fd[t] # 0 => pc[t] \notin {"idle", "detach", "clear"}
  BY DEF Has
<1>3. pc[t] \in Attached => pc[t] \notin {"idle", "detach", "clear"}
  BY DEF Attached
<1> QED
  BY <1>1, <1>2, <1>3

LEMMA InvInit == Init => Inv
<1> SUFFICES ASSUME Init PROVE Inv
  OBVIOUS
<1>1. Typed
  BY ShmAssumption DEF Init, Typed, Unmapped, Mapping, Labels
<1>2. Floors
  <2>1. \A t \in Threads : pc[t] \notin Attached
    BY DEF Init, Attached
  <2> QED
    BY <2>1 DEF Init, Floors
<1>3. Closing /\ Shown
  BY ShmAssumption DEF Init, Closing, Shown, ClosedIsForgotten
<1>4. \A t \in Threads : Has(t) /\ Private(t)
  BY DEF Init, Has, Private, Attached
<1> QED
  BY <1>1, <1>2, <1>3, <1>4 DEF Inv

-----------------------------------------------------------------------------
(* The server and the application *)

LEMMA MakeFileKeeps ==
  ASSUME Inv, NEW c \in Cores, MakeFile(c)
  PROVE  Inv'
<1>1. /\ made \in Nat /\ made < MaxFiles /\ MaxFiles \in Nat /\ made' = made + 1
      /\ file' = [file EXCEPT ![c] = made + 1]
  BY ShmAssumption DEF Inv, Typed, MakeFile
<1>2. UNCHANGED <<cache, map, pc, call, fd, shm, header, view, left, raised, floor, late>>
  BY DEF MakeFile, closing
<1>3. Typed'
  <2>1. file' \in [Cores -> Nat] /\ \A d \in Cores : file'[d] <= made'
    BY <1>1 DEF Inv, Typed
  <2>2. \A t \in Threads : fd[t] <= made'
    BY <1>1 DEF Inv, Typed
  <2> QED
    BY <1>1, <1>2, <2>1, <2>2 DEF Inv, Typed
<1>4. Floors'
  <2>1. \A d \in Cores : (file'[d] # 0 => file'[d] >= floor'[d]) /\ floor'[d] <= made' + 1
    BY <1>1, <1>2 DEF Inv, Typed, Floors
  <2> QED
    BY <1>2, <2>1 DEF Inv, Floors
<1>5. Closing' /\ Shown'
  BY <1>2 DEF Inv, Closing, Shown, ClosedIsForgotten
<1>6. \A t \in Threads : Has(t)' /\ Private(t)'
  BY <1>2 DEF Inv, Has, Private
<1> QED
  BY <1>3, <1>4, <1>5, <1>6 DEF Inv

LEMMA RemoveFileKeeps ==
  ASSUME Inv, NEW c \in Cores, RemoveFile(c)
  PROVE  Inv'
<1>1. file' = [file EXCEPT ![c] = 0]
  BY DEF RemoveFile
<1>2. UNCHANGED <<made, cache, map, pc, call, fd, shm, header, view, left, raised, floor, late>>
  BY DEF RemoveFile, closing
<1>3. Typed'
  <2>1. file' \in [Cores -> Nat] /\ \A d \in Cores : file'[d] <= made'
    BY <1>1, <1>2 DEF Inv, Typed
  <2> QED
    BY <1>1, <1>2, <2>1 DEF Inv, Typed
<1>4. Floors'
  <2>1. \A d \in Cores : (file'[d] # 0 => file'[d] >= floor'[d]) /\ floor'[d] <= made' + 1
    BY <1>1, <1>2 DEF Inv, Typed, Floors
  <2> QED
    BY <1>2, <2>1 DEF Inv, Floors
<1>5. Closing' /\ Shown'
  BY <1>2 DEF Inv, Closing, Shown, ClosedIsForgotten
<1>6. \A t \in Threads : Has(t)' /\ Private(t)'
  BY <1>2 DEF Inv, Has, Private
<1> QED
  BY <1>3, <1>4, <1>5, <1>6 DEF Inv

LEMMA DropViewKeeps ==
  ASSUME Inv, NEW t \in Threads, DropView(t)
  PROVE  Inv'
<1>1. view' = [view EXCEPT ![t] = None]
  BY DEF DropView
<1>2. UNCHANGED <<server, cache, map, pc, call, fd, shm, header, left, raised, floor, late>>
  BY DEF DropView, closing
<1>3. Typed'
  BY <1>1, <1>2 DEF Inv, Typed, server
<1>4. Floors'
  BY <1>2 DEF Inv, Floors, server
<1>5. Closing'
  BY <1>2 DEF Inv, Closing, ClosedIsForgotten
<1>6. Shown'
  BY <1>1, <1>2 DEF Inv, Typed, Shown
<1>7. \A u \in Threads : Has(u)' /\ Private(u)'
  BY <1>2 DEF Inv, Has, Private
<1> QED
  BY <1>3, <1>4, <1>5, <1>6, <1>7 DEF Inv

-----------------------------------------------------------------------------
(* attach_shm *)

\* A call that returns or raises leaves nothing behind but its array.
LEMMA OverKeeps ==
  ASSUME Inv, NEW t \in Threads, NEW v \in Maps \cup {None}, Over(t, v),
         v # None => map[v].open,
         pc[t] \notin {"detach", "clear"},
         UNCHANGED <<server, cache, map, closing, floor>>
  PROVE  Inv'
<1>1. /\ pc' = [pc EXCEPT ![t] = "idle"]
      /\ call' = [call EXCEPT ![t] = NoCall]
      /\ shm' = [shm EXCEPT ![t] = None]
      /\ header' = [header EXCEPT ![t] = None]
      /\ fd' = [fd EXCEPT ![t] = 0]
      /\ late' = late \ {t}
      /\ view' = [view EXCEPT ![t] = v]
  BY DEF Over, Goto
<1>2. UNCHANGED <<made, file, cache, map, left, raised, floor>>
  BY DEF server, closing
<1>3. Typed'
  <2>1. pc' \in [Threads -> Labels] /\ call' \in [Threads -> Calls \cup {NoCall}]
    BY <1>1 DEF Inv, Typed, Labels
  <2>2. /\ shm' \in [Threads -> Maps \cup {None}] /\ view' \in [Threads -> Maps \cup {None}]
        /\ header' \in [Threads -> Nat \cup {None}]
    BY <1>1 DEF Inv, Typed
  <2>3. fd' \in [Threads -> Nat] /\ \A u \in Threads : fd'[u] <= made'
    BY <1>1, <1>2 DEF Inv, Typed
  <2> QED
    BY <1>2, <2>1, <2>2, <2>3 DEF Inv, Typed
<1>4. \A u \in Threads \ {t} :
        /\ pc'[u] = pc[u] /\ call'[u] = call[u] /\ shm'[u] = shm[u]
        /\ header'[u] = header[u] /\ fd'[u] = fd[u] /\ view'[u] = view[u]
        /\ (u \in late' <=> u \in late)
  BY <1>1 DEF Inv, Typed
<1>5. pc'[t] = "idle" /\ shm'[t] = None /\ fd'[t] = 0 /\ view'[t] = v
  BY <1>1 DEF Inv, Typed
<1>6. Floors'
  <2>1. ASSUME NEW u \in Threads
        PROVE  /\ fd'[u] # 0 => fd'[u] >= floor'[call'[u].core]
               /\ pc'[u] \in Attached /\ u \notin late' => map'[shm'[u]].file >= floor'[call'[u].core]
    <3>1. CASE u = t
      BY <3>1, <1>5 DEF Attached
    <3>2. CASE u # t
      BY <3>2, <1>2, <1>4 DEF Inv, Floors
    <3> QED
      BY <3>1, <3>2
  <2> QED
    BY <1>2, <2>1 DEF Inv, Floors
<1>7. Closing'
  <2>1. \/ pc'[Closer] = pc[Closer]
        \/ pc[Closer] \notin {"detach", "clear"} /\ pc'[Closer] = "idle"
    BY <1>4, <1>5, ShmAssumption
  <2> QED
    BY <1>2, <2>1 DEF Inv, Closing, ClosedIsForgotten
<1>8. Shown'
  BY <1>2, <1>4, <1>5 DEF Inv, Shown
<1>9. \A u \in Threads : Has(u)'
  BY <1>2, <1>4, <1>5 DEF Inv, Has, Attached
<1>10. \A u \in Threads : Private(u)'
  <2>1. ASSUME NEW u \in Threads, pc'[u] = "store"
        PROVE  /\ map'[shm'[u]].open
               /\ \A c \in DOMAIN cache' : cache'[c] # shm'[u]
               /\ \A w \in Threads \ {u} : shm'[w] # shm'[u]
    <3>1. u # t /\ pc[u] = "store" /\ shm'[u] = shm[u]
      BY <2>1, <1>4, <1>5
    <3>2. shm[u] # None
      BY <3>1, ShmAssumption DEF Inv, Has
    <3> QED
      BY <3>1, <3>2, <1>2, <1>4, <1>5 DEF Inv, Private
  <2> QED
    BY <2>1 DEF Private
<1> QED
  BY <1>3, <1>6, <1>7, <1>8, <1>9, <1>10 DEF Inv

LEMMA RaiseKeeps ==
  ASSUME Inv, NEW t \in Threads, Raise(t), pc[t] \notin {"detach", "clear"}
  PROVE  Inv'
<1>1. view[t] \in Maps \cup {None} /\ (view[t] # None => map[view[t]].open)
  BY DEF Inv, Typed, Shown
<1> QED
  BY <1>1, OverKeeps DEF Raise

LEMMA LookupKeeps ==
  ASSUME Inv, NEW t \in Threads, Lookup(t)
  PROVE  Inv'
<1>1. PICK a \in Calls :
        /\ pc[t] = "idle"
        /\ call' = [call EXCEPT ![t] = a]
        /\ pc' = [pc EXCEPT ![t] = IF a.core \in DOMAIN cache THEN "cached" ELSE "open"]
  BY DEF Lookup, Goto
<1>2. UNCHANGED <<made, file, cache, map, fd, shm, header, view, left, raised, floor, late>>
  BY DEF Lookup, server, closing
<1>3. pc'[t] \in {"cached", "open"} /\ call'[t] = a /\ pc[t] = "idle"
  BY <1>1 DEF Inv, Typed
<1>4. \A u \in Threads \ {t} : pc'[u] = pc[u] /\ call'[u] = call[u]
  BY <1>1 DEF Inv, Typed
<1>5. Typed'
  <2>1. pc' \in [Threads -> Labels] /\ call' \in [Threads -> Calls \cup {NoCall}]
    BY <1>1 DEF Inv, Typed, Labels
  <2> QED
    BY <1>2, <2>1 DEF Inv, Typed
<1>6. Floors'
  <2>1. ASSUME NEW u \in Threads
        PROVE  /\ fd'[u] # 0 => fd'[u] >= floor'[call'[u].core]
               /\ pc'[u] \in Attached /\ u \notin late' => map'[shm'[u]].file >= floor'[call'[u].core]
    <3>1. CASE u = t
      BY <3>1, <1>2, <1>3 DEF Attached, Inv, Has
    <3>2. CASE u # t
      BY <3>2, <1>2, <1>4 DEF Inv, Floors
    <3> QED
      BY <3>1, <3>2
  <2> QED
    BY <1>2, <2>1 DEF Inv, Floors
<1>7. Closing'
  <2>1. \/ pc'[Closer] = pc[Closer]
        \/ pc[Closer] \notin {"detach", "clear"} /\ pc'[Closer] \notin {"detach", "clear"}
    BY <1>3, <1>4, ShmAssumption
  <2> QED
    BY <1>2, <2>1 DEF Inv, Closing, ClosedIsForgotten
<1>8. Shown'
  BY <1>2 DEF Inv, Shown
<1>9. \A u \in Threads : Has(u)' /\ Private(u)'
  <2>1. ASSUME NEW u \in Threads, u # t
        PROVE  Has(u)' /\ Private(u)'
    BY <1>2, <1>4, <2>1 DEF Inv, Has, Private
  <2>2. Has(t)' /\ Private(t)'
    BY <1>2, <1>3 DEF Inv, Has, Private, Attached
  <2> QED
    BY <2>1, <2>2
<1> QED
  BY <1>5, <1>6, <1>7, <1>8, <1>9 DEF Inv

LEMMA CachedKeeps ==
  ASSUME Inv, NEW t \in Threads, Cached(t)
  PROVE  Inv'
<1>1. /\ pc[t] = "cached" /\ call[t].core \in DOMAIN cache
      /\ shm' = [shm EXCEPT ![t] = cache[call[t].core]]
      /\ pc' = [pc EXCEPT ![t] = "seek"]
  BY DEF Cached, Goto
<1>2. UNCHANGED <<made, file, cache, map, call, fd, header, view, left, raised, floor, late>>
  BY DEF Cached, server, closing
<1>3. pc'[t] = "seek" /\ shm'[t] = cache[call[t].core] /\ shm'[t] \in Maps
  BY <1>1 DEF Inv, Typed
<1>4. \A u \in Threads \ {t} : pc'[u] = pc[u] /\ shm'[u] = shm[u]
  BY <1>1 DEF Inv, Typed
<1>5. map[shm'[t]].file # 0 /\ map[shm'[t]].file >= floor[call[t].core] /\ fd[t] = 0
      /\ call[t] \in Calls
  BY <1>1, <1>3 DEF Inv, Floors, Has
<1>6. Typed'
  <2>1. pc' \in [Threads -> Labels] /\ shm' \in [Threads -> Maps \cup {None}]
    BY <1>1 DEF Inv, Typed, Labels
  <2> QED
    BY <1>2, <2>1 DEF Inv, Typed
<1>7. Floors'
  <2>1. ASSUME NEW u \in Threads
        PROVE  /\ fd'[u] # 0 => fd'[u] >= floor'[call'[u].core]
               /\ pc'[u] \in Attached /\ u \notin late' => map'[shm'[u]].file >= floor'[call'[u].core]
    <3>1. CASE u = t
      BY <3>1, <1>2, <1>5
    <3>2. CASE u # t
      BY <3>2, <1>2, <1>4 DEF Inv, Floors
    <3> QED
      BY <3>1, <3>2
  <2> QED
    BY <1>2, <2>1 DEF Inv, Floors
<1>8. Closing'
  <2>1. \/ pc'[Closer] = pc[Closer]
        \/ pc[Closer] \notin {"detach", "clear"} /\ pc'[Closer] \notin {"detach", "clear"}
    BY <1>1, <1>3, <1>4, ShmAssumption
  <2> QED
    BY <1>2, <2>1 DEF Inv, Closing, ClosedIsForgotten
<1>9. Shown'
  BY <1>2 DEF Inv, Shown
<1>10. \A u \in Threads : Has(u)' /\ Private(u)'
  <2>1. ASSUME NEW u \in Threads, u # t
        PROVE  Has(u)' /\ Private(u)'
    <3>1. Has(u)'
      BY <1>2, <1>4, <2>1 DEF Inv, Has
    <3>2. pc[u] = "store" => shm'[t] # shm[u]
      BY <1>1, <1>3, <2>1 DEF Inv, Private
    <3>3. Private(u)'
      BY <1>2, <1>4, <2>1, <3>2 DEF Inv, Private
    <3> QED
      BY <3>1, <3>3
  <2>2. Has(t)' /\ Private(t)'
    BY <1>2, <1>3, <1>5 DEF Inv, Has, Private, Attached
  <2> QED
    BY <2>1, <2>2
<1> QED
  BY <1>6, <1>7, <1>8, <1>9, <1>10 DEF Inv

LEMMA OpenKeeps ==
  ASSUME Inv, NEW t \in Threads, Open(t)
  PROVE  Inv'
<1>1. /\ pc[t] = "open" /\ file[call[t].core] # 0
      /\ fd' = [fd EXCEPT ![t] = file[call[t].core]]
      /\ pc' = [pc EXCEPT ![t] = "map"]
  BY DEF Open, Goto
<1>2. UNCHANGED <<made, file, cache, map, call, shm, header, view, left, raised, floor, late>>
  BY DEF Open, server, closing
<1>3. pc'[t] = "map" /\ fd'[t] = file[call[t].core]
  BY <1>1 DEF Inv, Typed
<1>4. \A u \in Threads \ {t} : pc'[u] = pc[u] /\ fd'[u] = fd[u]
  BY <1>1 DEF Inv, Typed
<1>5. call[t] \in Calls /\ shm[t] = None
  BY <1>1 DEF Inv, Has
<1>6. call[t].core \in Cores
  BY <1>5, CallFacts
<1>7. fd'[t] >= floor[call[t].core] /\ fd'[t] # 0 /\ fd'[t] \in Nat /\ fd'[t] <= made
  BY <1>1, <1>3, <1>6 DEF Inv, Typed, Floors
<1>8. Typed'
  <2>1. pc' \in [Threads -> Labels]
    BY <1>1 DEF Inv, Typed, Labels
  <2>2. fd' \in [Threads -> Nat] /\ \A u \in Threads : fd'[u] <= made'
    BY <1>1, <1>2, <1>3, <1>4, <1>7 DEF Inv, Typed
  <2> QED
    BY <1>2, <2>1, <2>2 DEF Inv, Typed
<1>9. Floors'
  <2>1. ASSUME NEW u \in Threads
        PROVE  /\ fd'[u] # 0 => fd'[u] >= floor'[call'[u].core]
               /\ pc'[u] \in Attached /\ u \notin late' => map'[shm'[u]].file >= floor'[call'[u].core]
    <3>1. CASE u = t
      BY <3>1, <1>2, <1>3, <1>7 DEF Attached
    <3>2. CASE u # t
      BY <3>2, <1>2, <1>4 DEF Inv, Floors
    <3> QED
      BY <3>1, <3>2
  <2> QED
    BY <1>2, <2>1 DEF Inv, Floors
<1>10. Closing'
  <2>1. \/ pc'[Closer] = pc[Closer]
        \/ pc[Closer] \notin {"detach", "clear"} /\ pc'[Closer] \notin {"detach", "clear"}
    BY <1>1, <1>3, <1>4, ShmAssumption
  <2> QED
    BY <1>2, <2>1 DEF Inv, Closing, ClosedIsForgotten
<1>11. Shown'
  BY <1>2 DEF Inv, Shown
<1>12. \A u \in Threads : Has(u)' /\ Private(u)'
  <2>1. ASSUME NEW u \in Threads, u # t
        PROVE  Has(u)' /\ Private(u)'
    BY <1>2, <1>4, <2>1 DEF Inv, Has, Private
  <2>2. Has(t)' /\ Private(t)'
    BY <1>2, <1>3, <1>5, <1>7 DEF Inv, Has, Private, Attached
  <2> QED
    BY <2>1, <2>2
<1> QED
  BY <1>8, <1>9, <1>10, <1>11, <1>12 DEF Inv

LEMMA MapKeeps ==
  ASSUME Inv, NEW t \in Threads, Map(t)
  PROVE  Inv'
<1>1. PICK m \in Maps :
        /\ m \notin Referenced
        /\ map' = [map EXCEPT ![m] = [file |-> fd[t], size |-> call[t].size, pos |-> 0, open |-> TRUE]]
        /\ shm' = [shm EXCEPT ![t] = m]
  BY FreshMap DEF Map, Inv
<1>2. pc[t] = "map" /\ pc' = [pc EXCEPT ![t] = "store"]
  BY DEF Map, Goto
<1>3. UNCHANGED <<made, file, cache, call, fd, header, view, left, raised, floor, late>>
  BY DEF Map, server, closing
<1>4. /\ \A c \in DOMAIN cache : cache[c] # m
      /\ \A u \in Threads : shm[u] # m /\ view[u] # m
  BY <1>1, ShmAssumption DEF Referenced, Viewed, Range, Inv, Typed
<1>5. call[t] \in Calls /\ fd[t] # 0 /\ fd[t] \in Nat /\ call[t].size \in Nat
  BY <1>2, CallFacts DEF Inv, Typed, Has
<1>6. /\ map'[m] = [file |-> fd[t], size |-> call[t].size, pos |-> 0, open |-> TRUE]
      /\ map'[m].file = fd[t] /\ map'[m].size = call[t].size /\ map'[m].pos = 0 /\ map'[m].open
      /\ map'[m] \in Mapping
      /\ \A n \in Maps \ {m} : map'[n] = map[n]
  BY <1>1, <1>5 DEF Inv, Typed, Mapping
<1>7. pc'[t] = "store" /\ shm'[t] = m
  BY <1>1, <1>2 DEF Inv, Typed
<1>8. \A u \in Threads \ {t} : pc'[u] = pc[u] /\ shm'[u] = shm[u]
  BY <1>1, <1>2 DEF Inv, Typed
<1>9. Typed'
  <2>1. pc' \in [Threads -> Labels] /\ shm' \in [Threads -> Maps \cup {None}]
    BY <1>1, <1>2 DEF Inv, Typed, Labels
  <2>2. map' \in [Maps -> Mapping]
    BY <1>1, <1>6 DEF Inv, Typed
  <2>3. \A n \in Maps : map'[n].pos <= map'[n].size
    BY <1>5, <1>6 DEF Inv, Typed
  <2> QED
    BY <1>3, <2>1, <2>2, <2>3 DEF Inv, Typed
<1>10. Floors'
  <2>1. ASSUME NEW u \in Threads
        PROVE  /\ fd'[u] # 0 => fd'[u] >= floor'[call'[u].core]
               /\ pc'[u] \in Attached /\ u \notin late' => map'[shm'[u]].file >= floor'[call'[u].core]
    <3>1. CASE u = t
      BY <3>1, <1>3, <1>7 DEF Attached, Inv, Floors
    <3>2. CASE u # t
      <4>1. pc[u] \in Attached => map'[shm[u]] = map[shm[u]]
        BY <1>4, <1>6 DEF Inv, Has
      <4> QED
        BY <3>2, <4>1, <1>3, <1>8 DEF Inv, Floors
    <3> QED
      BY <3>1, <3>2
  <2>2. \A c \in DOMAIN cache : map'[cache[c]] = map[cache[c]]
    BY <1>4, <1>6 DEF Inv, Typed
  <2> QED
    BY <1>3, <2>1, <2>2 DEF Inv, Floors
<1>11. Closing'
  <2>1. \/ pc'[Closer] = pc[Closer]
        \/ pc[Closer] \notin {"detach", "clear"} /\ pc'[Closer] \notin {"detach", "clear"}
    BY <1>2, <1>7, <1>8, ShmAssumption
  <2>2. \A c \in DOMAIN cache : map'[cache[c]] = map[cache[c]]
    BY <1>4, <1>6 DEF Inv, Typed
  <2> QED
    BY <1>3, <2>1, <2>2 DEF Inv, Closing, ClosedIsForgotten
<1>12. Shown'
  <2>1. ASSUME NEW u \in Threads, view[u] # None PROVE map'[view[u]] = map[view[u]]
    BY <1>4, <1>6, <2>1 DEF Inv, Typed
  <2> QED
    BY <1>3, <2>1 DEF Inv, Shown
<1>13. \A u \in Threads : Has(u)' /\ Private(u)'
  <2>1. ASSUME NEW u \in Threads, u # t
        PROVE  Has(u)' /\ Private(u)'
    <3>1. pc[u] \in Attached \cup {"store"} => shm[u] \in Maps /\ map'[shm[u]] = map[shm[u]]
      BY <1>4, <1>6 DEF Inv, Has
    <3>2. Has(u)'
      BY <1>3, <1>8, <2>1, <3>1 DEF Inv, Has
    <3>3. shm'[t] # shm[u]
      BY <1>4, <1>7
    <3>4. Private(u)'
      BY <1>3, <1>8, <2>1, <3>1, <3>3 DEF Inv, Private
    <3> QED
      BY <3>2, <3>4
  <2>2. Has(t)'
    BY <1>3, <1>5, <1>6, <1>7 DEF Inv, Has, Attached
  <2>3. Private(t)'
    BY <1>3, <1>4, <1>6, <1>7, <1>8 DEF Private
  <2> QED
    BY <2>1, <2>2, <2>3
<1> QED
  BY <1>9, <1>10, <1>11, <1>12, <1>13 DEF Inv

LEMMA StoreKeeps ==
  ASSUME Inv, NEW t \in Threads, Store(t)
  PROVE  Inv'
<1> DEFINE k == call[t].core
<1>1. /\ pc[t] = "store" /\ pc' = [pc EXCEPT ![t] = "seek"]
      /\ fd' = [fd EXCEPT ![t] = 0]
      /\ cache' = [c \in DOMAIN cache \cup {k} |-> IF c = k THEN shm[t] ELSE cache[c]]
  BY DEF Store, Goto
<1>2. UNCHANGED <<made, file, map, call, shm, header, view, left, raised, floor, late>>
  BY DEF Store, server, closing
<1>3. call[t] \in Calls /\ shm[t] \in Maps /\ fd[t] # 0 /\ map[shm[t]].file = fd[t]
  BY <1>1 DEF Inv, Has
<1>4. k \in Cores
  BY <1>3, CallFacts
<1>5. map[shm[t]].open /\ map[shm[t]].file # 0 /\ map[shm[t]].file >= floor[k]
  BY <1>1, <1>3 DEF Inv, Private, Floors
<1>6. pc'[t] = "seek" /\ fd'[t] = 0
  BY <1>1 DEF Inv, Typed
<1>7. \A u \in Threads \ {t} : pc'[u] = pc[u] /\ fd'[u] = fd[u]
  BY <1>1 DEF Inv, Typed
<1>8. /\ DOMAIN cache' = DOMAIN cache \cup {k}
      /\ cache'[k] = shm[t]
      /\ \A c \in DOMAIN cache : c # k => cache'[c] = cache[c]
  BY <1>1
<1> HIDE DEF k
<1>9. Typed'
  <2>1. pc' \in [Threads -> Labels]
    BY <1>1 DEF Inv, Typed, Labels
  <2>2. fd' \in [Threads -> Nat] /\ \A u \in Threads : fd'[u] <= made'
    BY <1>1, <1>2 DEF Inv, Typed
  <2>3. DOMAIN cache' \subseteq Cores /\ \A c \in DOMAIN cache' : cache'[c] \in Maps
    BY <1>3, <1>4, <1>8 DEF Inv, Typed
  <2> QED
    BY <1>2, <2>1, <2>2, <2>3 DEF Inv, Typed
<1>10. Floors'
  <2>1. ASSUME NEW u \in Threads
        PROVE  /\ fd'[u] # 0 => fd'[u] >= floor'[call'[u].core]
               /\ pc'[u] \in Attached /\ u \notin late' => map'[shm'[u]].file >= floor'[call'[u].core]
    <3>1. CASE u = t
      BY <3>1, <1>2, <1>5, <1>6 DEF k
    <3>2. CASE u # t
      BY <3>2, <1>2, <1>7 DEF Inv, Floors
    <3> QED
      BY <3>1, <3>2
  <2>2. \A c \in DOMAIN cache' : map'[cache'[c]].file # 0 /\ map'[cache'[c]].file >= floor'[c]
    BY <1>2, <1>5, <1>8 DEF Inv, Floors
  <2> QED
    BY <1>2, <2>1, <2>2 DEF Inv, Floors
<1>11. Closing'
  <2>1. \/ pc'[Closer] = pc[Closer]
        \/ pc[Closer] \notin {"detach", "clear"} /\ pc'[Closer] \notin {"detach", "clear"}
    BY <1>1, <1>6, <1>7, ShmAssumption
  <2> QED
    BY <1>2, <1>5, <1>8, <2>1 DEF Inv, Closing, ClosedIsForgotten
<1>12. Shown'
  BY <1>2 DEF Inv, Shown
<1>13. \A u \in Threads : Has(u)' /\ Private(u)'
  <2>1. ASSUME NEW u \in Threads, u # t
        PROVE  Has(u)' /\ Private(u)'
    <3>1. Has(u)'
      BY <1>2, <1>7, <2>1 DEF Inv, Has
    <3>2. pc[u] = "store" => shm[t] # shm[u]
      BY <2>1 DEF Inv, Private
    <3>3. Private(u)'
      BY <1>2, <1>7, <1>8, <2>1, <3>2 DEF Inv, Private
    <3> QED
      BY <3>1, <3>3
  <2>2. Has(t)' /\ Private(t)'
    BY <1>2, <1>3, <1>5, <1>6 DEF Has, Private, Attached
  <2> QED
    BY <2>1, <2>2
<1> QED
  BY <1>9, <1>10, <1>11, <1>12, <1>13 DEF Inv

-----------------------------------------------------------------------------
(* read_tensor *)

\* A step that moves the position of the thread's mapping and nothing else of it.
LEMMA MovingKeeps ==
  ASSUME Inv, NEW t \in Threads, pc[t] \in {"seek", "read"},
         NEW p \in Nat, p <= map[shm[t]].size,
         NEW label \in {"read", "view"},
         map' = [map EXCEPT ![shm[t]].pos = p],
         pc' = [pc EXCEPT ![t] = label],
         UNCHANGED <<made, file, cache, call, fd, shm, view, left, raised, floor, late>>,
         header' \in [Threads -> Nat \cup {None}],
         \A u \in Threads \ {t} : header'[u] = header[u],
         label = "view" => header'[t] \in Nat
  PROVE  Inv'
<1>1. shm[t] \in Maps /\ fd[t] = 0 /\ map[shm[t]].file # 0 /\ call[t] \in Calls
  BY DEF Inv, Has, Attached
<1>2. /\ map' \in [Maps -> Mapping]
      /\ \A m \in Maps : /\ map'[m].file = map[m].file /\ map'[m].size = map[m].size
                         /\ map'[m].open = map[m].open
                         /\ m # shm[t] => map'[m].pos = map[m].pos
      /\ map'[shm[t]].pos = p
  BY <1>1 DEF Inv, Typed, Mapping
<1>3. pc'[t] = label
  BY DEF Inv, Typed
<1>4. \A u \in Threads \ {t} : pc'[u] = pc[u]
  BY DEF Inv, Typed
<1>5. Typed'
  <2>1. pc' \in [Threads -> Labels]
    BY DEF Inv, Typed, Labels
  <2>2. \A m \in Maps : map'[m].pos <= map'[m].size
    BY <1>1, <1>2 DEF Inv, Typed
  <2> QED
    BY <1>2, <2>1, <2>2 DEF Inv, Typed
<1>6. Floors'
  <2>1. ASSUME NEW u \in Threads
        PROVE  /\ fd'[u] # 0 => fd'[u] >= floor'[call'[u].core]
               /\ pc'[u] \in Attached /\ u \notin late' => map'[shm'[u]].file >= floor'[call'[u].core]
    <3>1. pc'[u] \in Attached => pc[u] \in Attached
      BY <1>3, <1>4 DEF Attached
    <3>2. pc[u] \in Attached => map'[shm[u]].file = map[shm[u]].file
      BY <1>2 DEF Inv, Has
    <3> QED
      BY <3>1, <3>2 DEF Inv, Floors
  <2>2. \A c \in DOMAIN cache : map'[cache[c]].file = map[cache[c]].file
    BY <1>2 DEF Inv, Typed
  <2> QED
    BY <2>1, <2>2 DEF Inv, Floors
<1>7. Closing'
  <2>1. \/ pc'[Closer] = pc[Closer]
        \/ pc[Closer] \notin {"detach", "clear"} /\ pc'[Closer] \notin {"detach", "clear"}
    BY <1>3, <1>4, ShmAssumption
  <2>2. \A c \in DOMAIN cache : map'[cache[c]].open = map[cache[c]].open
    BY <1>2 DEF Inv, Typed
  <2> QED
    BY <2>1, <2>2 DEF Inv, Closing, ClosedIsForgotten
<1>8. Shown'
  <2>1. \A u \in Threads : view[u] # None => map'[view[u]].open = map[view[u]].open
    BY <1>2 DEF Inv, Typed
  <2> QED
    BY <2>1 DEF Inv, Shown
<1>9. \A u \in Threads : Has(u)' /\ Private(u)'
  <2>1. ASSUME NEW u \in Threads, u # t
        PROVE  Has(u)' /\ Private(u)'
    <3>1. shm[u] \in Maps => map'[shm[u]].file = map[shm[u]].file /\ map'[shm[u]].open = map[shm[u]].open
      BY <1>2
    <3>2. Has(u)'
      BY <1>4, <2>1, <3>1 DEF Inv, Has
    <3>3. pc[u] = "store" => shm[u] \in Maps
      BY DEF Inv, Has
    <3>4. Private(u)'
      BY <1>4, <2>1, <3>1, <3>3 DEF Inv, Private
    <3> QED
      BY <3>2, <3>4
  <2>2. Has(t)' /\ Private(t)'
    BY <1>1, <1>2, <1>3 DEF Inv, Has, Private, Attached
  <2> QED
    BY <2>1, <2>2
<1> QED
  BY <1>5, <1>6, <1>7, <1>8, <1>9 DEF Inv

LEMMA SeekKeeps ==
  ASSUME Inv, NEW t \in Threads, Seek(t)
  PROVE  Inv'
<1>1. /\ pc[t] = "seek" /\ call[t].offset <= map[shm[t]].size
      /\ map' = [map EXCEPT ![shm[t]].pos = call[t].offset]
      /\ pc' = [pc EXCEPT ![t] = "read"]
      /\ UNCHANGED <<made, file, cache, call, fd, shm, header, view, left, raised, floor, late>>
  BY DEF Seek, Goto, server, closing
<1>2. call[t] \in Calls /\ shm[t] \in Maps
  BY <1>1 DEF Inv, Has, Attached
<1>3. call[t].offset \in Nat
  BY <1>2, CallFacts
<1>4. header' \in [Threads -> Nat \cup {None}] /\ \A u \in Threads \ {t} : header'[u] = header[u]
  BY <1>1 DEF Inv, Typed
<1> QED
  BY <1>1, <1>3, <1>4, MovingKeeps

LEMMA ReadHeaderKeeps ==
  ASSUME Inv, NEW t \in Threads, ReadHeader(t)
  PROVE  Inv'
<1>1. /\ pc[t] = "read" /\ map[shm[t]].pos < map[shm[t]].size
      /\ map' = [map EXCEPT ![shm[t]].pos = @ + 1]
      /\ header' = [header EXCEPT ![t] = map[shm[t]].pos]
      /\ pc' = [pc EXCEPT ![t] = "view"]
      /\ UNCHANGED <<made, file, cache, call, fd, shm, view, left, raised, floor, late>>
  BY DEF ReadHeader, Goto, server, closing
<1>2. shm[t] \in Maps
  BY <1>1 DEF Inv, Has, Attached
<1>3. map[shm[t]].pos \in Nat /\ map[shm[t]].size \in Nat
  BY <1>2 DEF Inv, Typed, Mapping
<1>4. /\ header' \in [Threads -> Nat \cup {None}] /\ \A u \in Threads \ {t} : header'[u] = header[u]
      /\ header'[t] = map[shm[t]].pos
  BY <1>1, <1>3 DEF Inv, Typed
<1>5. map' = [map EXCEPT ![shm[t]].pos = map[shm[t]].pos + 1]
  BY <1>1, <1>2 DEF Inv, Typed, Mapping
<1>6. map[shm[t]].pos + 1 \in Nat /\ map[shm[t]].pos + 1 <= map[shm[t]].size
  BY <1>1, <1>3
<1> QED
  BY <1>1, <1>3, <1>4, <1>5, <1>6, MovingKeeps

LEMMA ViewKeeps ==
  ASSUME Inv, NEW t \in Threads, View(t)
  PROVE  Inv'
<1>1. pc[t] = "view" /\ map[shm[t]].open
  BY DEF View, Valid
<1>2. shm[t] \in Maps
  BY <1>1 DEF Inv, Has, Attached
<1> QED
  BY <1>1, <1>2, OverKeeps DEF View

LEMMA ReadTensorKeeps ==
  ASSUME Inv, NEW t \in Threads, ReadTensor(t)
  PROVE  Inv'
<1>1. CASE Lookup(t)
  BY <1>1, LookupKeeps
<1>2. CASE Cached(t)
  BY <1>2, CachedKeeps
<1>3. CASE Open(t)
  BY <1>3, OpenKeeps
<1>4. CASE Map(t)
  BY <1>4, MapKeeps
<1>5. CASE Store(t)
  BY <1>5, StoreKeeps
<1>6. CASE Seek(t)
  BY <1>6, SeekKeeps
<1>7. CASE ReadHeader(t)
  BY <1>7, ReadHeaderKeeps
<1>8. CASE View(t)
  BY <1>8, ViewKeeps
<1>9. CASE CachedGone(t) \/ NotFound(t) \/ MapFails(t)
  BY <1>9, RaiseKeeps DEF CachedGone, NotFound, MapFails
<1>10. CASE SeekFails(t) \/ ReadHeaderFails(t) \/ ViewFails(t)
  BY <1>10, RaiseKeeps DEF SeekFails, ReadHeaderFails, ViewFails
<1> QED
  BY <1>1, <1>2, <1>3, <1>4, <1>5, <1>6, <1>7, <1>8, <1>9, <1>10 DEF ReadTensor

-----------------------------------------------------------------------------
(* detach_all *)

\* A step of detach_all that goes on to the label and touches no mapping or entry.
LEMMA DetachingKeeps ==
  ASSUME Inv, NEW label \in {"idle", "detach", "clear"},
         pc[Closer] \in {"idle", "detach", "clear"},
         pc' = [pc EXCEPT ![Closer] = label],
         UNCHANGED <<made, file, cache, map, call, fd, shm, header, view, floor, late>>,
         Closing'
  PROVE  Inv'
<1>1. Closer \in Threads
  BY ShmAssumption
<1>2. pc'[Closer] = label
  BY <1>1 DEF Inv, Typed
<1>3. \A u \in Threads \ {Closer} : pc'[u] = pc[u]
  BY <1>1 DEF Inv, Typed
<1>4. Typed'
  <2>1. pc' \in [Threads -> Labels]
    BY DEF Inv, Typed, Labels
  <2> QED
    BY <2>1 DEF Inv, Typed
<1>5. Floors'
  <2>1. \A u \in Threads : pc'[u] \in Attached => pc[u] \in Attached
    BY <1>2, <1>3 DEF Attached
  <2> QED
    BY <2>1 DEF Inv, Floors
<1>6. Shown'
  BY DEF Inv, Shown
<1>7. \A u \in Threads : Has(u)' /\ Private(u)'
  <2>1. ASSUME NEW u \in Threads, u # Closer
        PROVE  Has(u)' /\ Private(u)'
    BY <1>3, <2>1 DEF Inv, Has, Private
  <2>2. Has(Closer)' /\ Private(Closer)'
    BY <1>1, <1>2 DEF Inv, Has, Private, Attached
  <2> QED
    BY <2>1, <2>2
<1> QED
  BY <1>4, <1>5, <1>6, <1>7 DEF Inv

LEMMA DetachKeeps ==
  ASSUME Inv, Detach
  PROVE  Inv'
<1>1. /\ pc[Closer] = "idle" /\ pc' = [pc EXCEPT ![Closer] = "detach"]
      /\ left' = DOMAIN cache
      /\ UNCHANGED <<made, file, cache, map, call, fd, shm, header, view, raised, floor, late>>
  BY DEF Detach, Goto, server
<1>2. pc'[Closer] = "detach"
  BY <1>1, ShmAssumption DEF Inv, Typed
<1>3. Closing'
  BY <1>1, <1>2 DEF Closing, ClosedIsForgotten
<1> QED
  BY <1>1, <1>3, DetachingKeeps

LEMMA DetachLastKeeps ==
  ASSUME Inv, DetachLast
  PROVE  Inv'
<1>1. /\ pc[Closer] = "detach" /\ pc' = [pc EXCEPT ![Closer] = "clear"]
      /\ UNCHANGED <<made, file, cache, map, call, fd, shm, header, view, floor, late>>
  BY DEF DetachLast, Goto, server
<1>2. pc'[Closer] = "clear"
  BY <1>1, ShmAssumption DEF Inv, Typed
<1>3. Closing'
  BY <1>1, <1>2 DEF Closing, ClosedIsForgotten
<1> QED
  BY <1>1, <1>3, DetachingKeeps

LEMMA DetachRaisesKeeps ==
  ASSUME Inv, DetachRaises
  PROVE  Inv'
<1>1. /\ pc[Closer] = "detach" /\ pc' = [pc EXCEPT ![Closer] = "idle"]
      /\ raised' = TRUE
      /\ UNCHANGED <<made, file, cache, map, call, fd, shm, header, view, floor, late>>
  BY DEF DetachRaises, Goto, server
<1>2. pc'[Closer] = "idle"
  BY <1>1, ShmAssumption DEF Inv, Typed
<1>3. Closing'
  BY <1>1, <1>2 DEF Closing, ClosedIsForgotten
<1> QED
  BY <1>1, <1>3, DetachingKeeps

\* Closing an entry spares the mappings that arrays show and those that are not
\* stored yet.
LEMMA DetachNextKeeps ==
  ASSUME Inv, DetachNext
  PROVE  Inv'
<1>1. PICK c \in left :
        /\ map' = IF cache[c] \in Viewed THEN map ELSE [map EXCEPT ![cache[c]].open = FALSE]
        /\ left' = left \ {c}
  BY DEF DetachNext
<1>2. /\ pc[Closer] = "detach"
      /\ UNCHANGED <<made, file, cache, pc, call, fd, shm, header, view, raised, floor, late>>
  BY DEF DetachNext, server
<1>3. left \subseteq DOMAIN cache /\ c \in DOMAIN cache /\ cache[c] \in Maps
  BY <1>1, <1>2 DEF Inv, Closing, Typed
<1>4. /\ map' \in [Maps -> Mapping]
      /\ \A m \in Maps : /\ map'[m].file = map[m].file /\ map'[m].size = map[m].size
                         /\ map'[m].pos = map[m].pos
                         /\ m # cache[c] => map'[m].open = map[m].open
  <2>1. CASE cache[c] \in Viewed
    BY <2>1, <1>1 DEF Inv, Typed
  <2>2. CASE cache[c] \notin Viewed
    <3>1. map' = [map EXCEPT ![cache[c]].open = FALSE]
      BY <2>2, <1>1
    <3>2. map \in [Maps -> Mapping]
      BY DEF Inv, Typed
    <3> QED
      BY <3>1, <3>2, <1>3 DEF Mapping
  <2> QED
    BY <2>1, <2>2
<1>5. cache[c] \in Viewed => map' = map
  BY <1>1
<1>6. Typed'
  <2>1. \A m \in Maps : map'[m].pos <= map'[m].size
    BY <1>4 DEF Inv, Typed
  <2> QED
    BY <1>2, <1>4, <2>1 DEF Inv, Typed
<1>7. Floors'
  <2>1. ASSUME NEW u \in Threads
        PROVE  pc[u] \in Attached => map'[shm[u]].file = map[shm[u]].file
    BY <1>4 DEF Inv, Has
  <2>2. \A d \in DOMAIN cache : map'[cache[d]].file = map[cache[d]].file
    BY <1>4 DEF Inv, Typed
  <2> QED
    BY <1>2, <2>1, <2>2 DEF Inv, Floors
<1>8. Closing'
  BY <1>1, <1>2, <1>3 DEF Closing, ClosedIsForgotten
<1>9. Shown'
  <2>1. ASSUME NEW u \in Threads, view[u] # None
        PROVE  map'[view[u]].open
    <3>1. view[u] \in Maps /\ map[view[u]].open
      BY <2>1 DEF Inv, Typed, Shown
    <3>2. CASE view[u] = cache[c]
      <4>1. cache[c] \in Viewed
        BY <2>1, <3>2 DEF Viewed, Range, Inv, Typed
      <4> QED
        BY <3>1, <4>1, <1>5
    <3>3. CASE view[u] # cache[c]
      BY <3>1, <3>3, <1>4
    <3> QED
      BY <3>2, <3>3
  <2> QED
    BY <1>2, <2>1 DEF Shown
<1>10. \A u \in Threads : Has(u)' /\ Private(u)'
  <2>1. ASSUME NEW u \in Threads
        PROVE  Has(u)' /\ Private(u)'
    <3>1. pc[u] \in Attached \cup {"store"} => shm[u] \in Maps
      BY DEF Inv, Has
    <3>2. Has(u)'
      BY <1>2, <1>4, <3>1 DEF Inv, Has
    <3>3. Private(u)'
      BY <1>2, <1>3, <1>4, <3>1 DEF Inv, Private
    <3> QED
      BY <3>2, <3>3
  <2> QED
    BY <2>1
<1> QED
  BY <1>6, <1>7, <1>8, <1>9, <1>10 DEF Inv

\* The floor that clearing the cache sets is below what is there, and what is being
\* mapped.
LEMMA NewFloor ==
  ASSUME Typed, NEW c \in Cores
  PROVE  LET n == Min({IF file[c] = 0 THEN made + 1 ELSE file[c]} \cup InTheMaking(c))
         IN  /\ n \in Nat /\ n <= made + 1
             /\ file[c] # 0 => file[c] >= n
             /\ \A t \in Threads : fd[t] # 0 /\ call[t].core = c => fd[t] >= n
<1> DEFINE now == IF file[c] = 0 THEN made + 1 ELSE file[c]
           S == {now} \cup InTheMaking(c)
<1>1. now \in Nat /\ now <= made + 1 /\ made \in Nat /\ (file[c] # 0 => now = file[c])
  BY DEF Typed
<1>2. S \in SUBSET Nat /\ S # {} /\ now \in S
  <2>1. InTheMaking(c) \subseteq Nat
    BY DEF InTheMaking, Typed
  <2> HIDE DEF now
  <2> QED
    BY <1>1, <2>1
<1>3. \A t \in Threads : fd[t] # 0 /\ call[t].core = c => fd[t] \in S
  BY DEF InTheMaking
<1> HIDE DEF now, S
<1>4. Min(S) \in S /\ \A y \in S : Min(S) <= y
  BY <1>2, Least
<1>5. Min(S) \in Nat /\ Min(S) <= now
  BY <1>2, <1>4
<1>6. /\ Min(S) <= made + 1
      /\ file[c] # 0 => file[c] >= Min(S)
      /\ \A t \in Threads : fd[t] # 0 /\ call[t].core = c => fd[t] >= Min(S)
  <2>1. Min(S) <= made + 1 /\ (file[c] # 0 => file[c] >= Min(S))
    BY <1>1, <1>5
  <2>2. \A t \in Threads : fd[t] # 0 /\ call[t].core = c => fd[t] >= Min(S)
    BY <1>3, <1>4, <1>5 DEF Typed
  <2> QED
    BY <2>1, <2>2
<1> QED
  BY <1>5, <1>6 DEF S, now

LEMMA ClearKeeps ==
  ASSUME Inv, Clear
  PROVE  Inv'
<1>1. /\ pc[Closer] = "clear" /\ pc' = [pc EXCEPT ![Closer] = "idle"]
      /\ cache' = <<>>
      /\ late' = {t \in Threads \ {Closer} : pc[t] # "idle"}
      /\ UNCHANGED <<made, file, map, call, fd, shm, header, view, left>>
  BY DEF Clear, Goto, server
<1>2. floor' = [c \in Cores |->
                  Min({IF file[c] = 0 THEN made + 1 ELSE file[c]} \cup InTheMaking(c))]
  BY DEF Clear
<1>3. /\ floor' \in [Cores -> Nat]
      /\ \A c \in Cores :
           /\ floor'[c] <= made + 1
           /\ file[c] # 0 => file[c] >= floor'[c]
           /\ \A t \in Threads : fd[t] # 0 /\ call[t].core = c => fd[t] >= floor'[c]
  BY <1>2, NewFloor DEF Inv
<1>4. Closer \in Threads /\ pc'[Closer] = "idle"
  BY <1>1, ShmAssumption DEF Inv, Typed
<1>5. \A u \in Threads \ {Closer} : pc'[u] = pc[u]
  BY <1>1, <1>4 DEF Inv, Typed
<1>6. DOMAIN cache' = {}
  BY <1>1
<1>7. Typed'
  <2>1. pc' \in [Threads -> Labels]
    BY <1>1 DEF Inv, Typed, Labels
  <2> QED
    BY <1>1, <1>3, <1>6, <2>1 DEF Inv, Typed
<1>8. Floors'
  <2>1. ASSUME NEW u \in Threads
        PROVE  fd'[u] # 0 => fd'[u] >= floor'[call'[u].core]
    <3>1. fd[u] # 0 => call[u].core \in Cores
      BY CoreOf DEF Inv
    <3> QED
      BY <1>1, <1>3, <3>1
  <2>2. ASSUME NEW u \in Threads, pc'[u] \in Attached
        PROVE  u \in late'
    BY <1>1, <1>4, <1>5, <2>2 DEF Attached
  <2>3. \A c \in Cores : (file'[c] # 0 => file'[c] >= floor'[c]) /\ floor'[c] <= made' + 1
    BY <1>1, <1>3
  <2> QED
    BY <1>6, <2>1, <2>2, <2>3 DEF Floors
<1>9. Closing'
  BY <1>4, <1>6 DEF Closing, ClosedIsForgotten
<1>10. Shown'
  BY <1>1 DEF Inv, Shown
<1>11. \A u \in Threads : Has(u)' /\ Private(u)'
  <2>1. ASSUME NEW u \in Threads, u # Closer
        PROVE  Has(u)' /\ Private(u)'
    BY <1>1, <1>5, <1>6, <2>1 DEF Inv, Has, Private
  <2>2. Has(Closer)' /\ Private(Closer)'
    BY <1>1, <1>4 DEF Inv, Has, Private, Attached
  <2> QED
    BY <2>1, <2>2
<1> QED
  BY <1>7, <1>8, <1>9, <1>10, <1>11 DEF Inv

-----------------------------------------------------------------------------
(* The theorems *)

LEMMA InvStep == Inv /\ [Next]_vars => Inv'
<1> SUFFICES ASSUME Inv, [Next]_vars PROVE Inv'
  OBVIOUS
<1>1. ASSUME NEW t \in Threads, ReadTensor(t) PROVE Inv'
  BY <1>1, ReadTensorKeeps
<1>2. ASSUME NEW t \in Threads, DropView(t) PROVE Inv'
  BY <1>2, DropViewKeeps
<1>3. CASE DetachAll
  BY <1>3, DetachKeeps, DetachNextKeeps, DetachLastKeeps, DetachRaisesKeeps, ClearKeeps DEF DetachAll
<1>4. ASSUME NEW c \in Cores, MakeFile(c) \/ RemoveFile(c) PROVE Inv'
  BY <1>4, MakeFileKeeps, RemoveFileKeeps
<1>5. CASE UNCHANGED vars
  <2> USE <1>5 DEF vars, server, closing
  <2>1. Typed'
    BY DEF Inv, Typed
  <2>2. Floors'
    BY DEF Inv, Floors
  <2>3. Closing' /\ Shown'
    BY DEF Inv, Closing, ClosedIsForgotten, Shown
  <2>4. \A t \in Threads : Has(t)' /\ Private(t)'
    BY DEF Inv, Has, Private
  <2> QED
    BY <2>1, <2>2, <2>3, <2>4 DEF Inv
<1> QED
  BY <1>1, <1>2, <1>3, <1>4, <1>5 DEF Next

LEMMA InvAlways == Spec => []Inv
BY InvInit, InvStep, PTL DEF Spec

LEMMA InvTypeOK == Inv => TypeOK
<1> SUFFICES ASSUME Inv PROVE TypeOK
  OBVIOUS
<1>1. made \in 0 .. MaxFiles /\ \A c \in Cores : file[c] \in 0 .. made
  BY ShmAssumption DEF Inv, Typed
<1>2. /\ DOMAIN cache \subseteq Cores
      /\ \A c \in DOMAIN cache : cache[c] \in Maps /\ map[cache[c]].file # 0
  BY DEF Inv, Typed, Floors
<1>3. \A t \in Threads : shm[t] \in Maps \cup {None} /\ fd[t] \in 0 .. made
  BY DEF Inv, Typed
<1>4. \A m \in Maps : map[m].pos \in 0 .. map[m].size
  BY DEF Inv, Typed, Mapping
<1>5. \A m \in Viewed : map[m].open
  <2>1. \A m \in Viewed : \E t \in Threads : m = view[t] /\ view[t] # None
    BY DEF Viewed, Range, Inv, Typed
  <2> QED
    BY <2>1 DEF Inv, Shown
<1> QED
  BY <1>1, <1>2, <1>3, <1>4, <1>5 DEF TypeOK

\* In every reachable state the files are numbered as the server made them, every
\* entry of _shm_cache is a mapping of a file, positions stay within mappings, and
\* what an array shows is mapped, whatever detach_all has done.
THEOREM TypeCorrect == Spec => []TypeOK
BY InvAlways, InvTypeOK, PTL

\* A closed mapping is an entry of _shm_cache only while detach_all runs or after its
\* loop has raised: no other interleaving of reads and detach_all leaves a core
\* whose reads all raise.
THEOREM ClosedForgotten == Spec => []ClosedIsForgotten
<1>1. Inv => ClosedIsForgotten
  BY DEF Inv, Closing
<1> QED
  BY <1>1, InvAlways, PTL

\* A read_tensor called after detach_all cleared the cache shows no file older than
\* the one that was at the path, or was being mapped, then.
THEOREM PresentFileShown == Spec => ShowsPresentFile
<1>1. Inv /\ [Next]_vars
      => [\A t \in Threads : View(t) /\ t \notin late => map[shm[t]].file >= floor[call[t].core]]_vars
  <2> SUFFICES ASSUME Inv, NEW t \in Threads, View(t), t \notin late
               PROVE  map[shm[t]].file >= floor[call[t].core]
    OBVIOUS
  <2>1. pc[t] = "view"
    BY DEF View
  <2> QED
    BY <2>1 DEF Inv, Floors, Attached
<1> QED
  BY <1>1, InvAlways, PTL DEF Spec, ShowsPresentFile
=============================================================================
