-------------------------- MODULE Connectors_proofs --------------------------
(***************************************************************************)
(* Proofs about the two connectors and the KVRing they write to, for all   *)
(* prompts, paths, layers and sizes of the pool: type correctness, what    *)
(* the ring keeps, where the index points, what a prompt is matched with,  *)
(* and what a restore copies.  SGLang's come first, vLLM's behind them,    *)
(* with the names that begin with Vllm.                                    *)
(***************************************************************************)
EXTENDS SglangConnector, VllmConnector, Lemmas

-----------------------------------------------------------------------------
(* What a ring and its trail are worth *)

\* The slot's cells are as they were written.
Whole(r, s) == \A k \in 0 .. s.size - 1 : r.mem[s.at + k] = [of |-> s.of, at |-> k]

\* The head is behind the slot by its age, or has come round since and left fewer
\* cells unused than the largest slot has.
Behind(r, s) ==
  \/ r.head = s.at + s.age
  \/ PoolSize + r.head - s.at - s.age \in 0 .. MaxSlot - 1

Slots(B) == [of : B, at : Nat, size : 1 .. MaxSlot, age : Nat]

Inside(s) == s.size <= s.age /\ s.age <= Window /\ s.at + s.size <= PoolSize

Sound(B, r, t) ==
  /\ r.head \in 0 .. PoolSize /\ DOMAIN r.mem = 0 .. PoolSize - 1
  /\ t \subseteq Slots(B)
  /\ \A s \in t : Inside(s) /\ Whole(r, s) /\ Behind(r, s)
  /\ \A s, u \in t : s.age = u.age => s = u

LEMMA PlaceFits ==
  ASSUME NEW r, r.head \in 0 .. PoolSize, NEW n \in 1 .. MaxSlot
  PROVE  /\ Place(r, n) \in Nat /\ Place(r, n) + n <= PoolSize
         /\ \/ Place(r, n) = r.head
            \/ Place(r, n) = 0 /\ PoolSize - r.head \in 0 .. n - 1
BY RingAssumption DEF Place

\* After a write of n cells a slot that stays recent lies where nothing was written.
LEMMA StaysBehind ==
  ASSUME NEW r, r.head \in 0 .. PoolSize, NEW n \in 1 .. MaxSlot,
         NEW at \in Nat, NEW size \in 1 .. MaxSlot, NEW age \in Nat,
         size <= age, age + n <= Window, at + size <= PoolSize,
         r.head = at + age \/ PoolSize + r.head - at - age \in 0 .. MaxSlot - 1
  PROVE  /\ \/ Place(r, n) + n = at + (age + n)
            \/ PoolSize + (Place(r, n) + n) - at - (age + n) \in 0 .. MaxSlot - 1
         /\ at + size <= Place(r, n) \/ Place(r, n) + n <= at
<1> DEFINE h == r.head
           p == Place(r, n)
<1>1. h \in Nat /\ h <= PoolSize /\ PoolSize \in Nat /\ MaxSlot \in Nat /\ n \in Nat /\ 1 <= n
      /\ n <= MaxSlot /\ 1 <= size /\ size <= MaxSlot /\ size \in Nat
  BY RingAssumption
<1>2. h = at + age \/ (0 <= PoolSize + h - at - age /\ PoolSize + h - at - age <= MaxSlot - 1)
  BY <1>1
<1>3. age + n <= PoolSize - MaxSlot + 1
  BY DEF Window
<1>4. p \in Nat /\ (p = h \/ (p = 0 /\ 0 <= PoolSize - h /\ PoolSize - h <= n - 1))
  BY <1>1, PlaceFits
<1> HIDE DEF h, p
<1> DEFINE Goal == /\ \/ p + n = at + (age + n)
                      \/ PoolSize + (p + n) - at - (age + n) \in 0 .. MaxSlot - 1
                   /\ at + size <= p \/ p + n <= at
<1> SUFFICES Goal
  BY DEF p
<1>5. CASE h = at + age
  <2>1. CASE p = h
    BY <1>1, <1>5, <2>1
  <2>2. CASE p = 0 /\ 0 <= PoolSize - h /\ PoolSize - h <= n - 1
    <3>1. n <= at
      BY <1>1, <1>3, <1>5, <2>2
    <3>2. PoolSize + (p + n) - at - (age + n) = PoolSize - h
      BY <1>1, <1>5, <2>2
    <3>3. PoolSize - h \in 0 .. MaxSlot - 1
      BY <1>1, <2>2
    <3> QED
      BY <1>1, <2>2, <3>1, <3>2, <3>3
  <2> QED
    BY <1>4, <2>1, <2>2
<1>6. CASE 0 <= PoolSize + h - at - age /\ PoolSize + h - at - age <= MaxSlot - 1
  <2>1. CASE p = h
    <3>1. p + n <= at
      BY <1>1, <1>3, <1>6, <2>1
    <3>2. PoolSize + (p + n) - at - (age + n) = PoolSize + h - at - age
      BY <1>1, <2>1
    <3>3. PoolSize + h - at - age \in 0 .. MaxSlot - 1
      BY <1>1, <1>6
    <3> QED
      BY <3>1, <3>2, <3>3
  <2>2. CASE p = 0 /\ 0 <= PoolSize - h /\ PoolSize - h <= n - 1
    BY <1>1, <1>3, <1>6, <2>2
  <2> QED
    BY <1>4, <2>1, <2>2
<1> QED
  BY <1>2, <1>5, <1>6

LEMMA WriteKeeps ==
  ASSUME NEW B, NEW r, NEW t, NEW x \in B, NEW n \in 1 .. MaxSlot, Sound(B, r, t)
  PROVE  Sound(B, Written(r, x, n), Trailing(t, x, Place(r, n), n))
<1> DEFINE p == Place(r, n)
           w == Written(r, x, n)
           new == [of |-> x, at |-> p, size |-> n, age |-> n]
           t2 == Trailing(t, x, p, n)
<1>1. /\ p \in Nat /\ p + n <= PoolSize
      /\ PoolSize \in Nat /\ MaxSlot \in Nat
  BY PlaceFits, RingAssumption DEF Sound
<1>2. w.head = p + n /\ DOMAIN w.mem = 0 .. PoolSize - 1
  BY DEF Written, NextHead, Sound
<1>3. \A a \in 0 .. PoolSize - 1 :
        /\ a \in p .. p + n - 1 => w.mem[a] = [of |-> x, at |-> a - p]
        /\ a \notin p .. p + n - 1 => w.mem[a] = r.mem[a]
  BY DEF Written, Sound
<1>4. new \in Slots(B)
  BY <1>1 DEF Slots
<1>5. ASSUME NEW s \in t2
      PROVE  \/ s = new
             \/ \E u \in t : /\ s.of = u.of /\ s.at = u.at /\ s.size = u.size /\ s.age = u.age + n
                             /\ s = [u EXCEPT !.age = u.age + n]
                             /\ s \in Slots(B)
  <2>1. s = new \/ \E u \in t : s = [u EXCEPT !.age = @ + n]
    BY DEF Trailing
  <2>2. ASSUME NEW u \in t, s = [u EXCEPT !.age = @ + n]
        PROVE  /\ s.of = u.of /\ s.at = u.at /\ s.size = u.size /\ s.age = u.age + n
               /\ s = [u EXCEPT !.age = u.age + n]
               /\ s \in Slots(B)
    <3>1. u \in Slots(B)
      BY DEF Sound
    <3> QED
      BY <2>2, <3>1 DEF Slots
  <2> QED
    BY <2>1, <2>2
<1>6. \A s \in t2 : s.age <= Window
  BY DEF Trailing
<1> HIDE DEF p, w, t2
<1>7. ASSUME NEW s \in t2
      PROVE  s \in Slots(B) /\ Inside(s) /\ Whole(w, s) /\ Behind(w, s)
  <2>1. CASE s = new
    <3>1. /\ s \in Slots(B) /\ s.at = p /\ s.size = n /\ s.age = n /\ s.of = x
          /\ s.age <= Window
      BY <1>4, <1>6, <2>1
    <3>2. Inside(s) /\ Behind(w, s)
      BY <1>1, <1>2, <3>1 DEF Inside, Behind
    <3>3. ASSUME NEW k \in 0 .. s.size - 1 PROVE w.mem[s.at + k] = [of |-> s.of, at |-> k]
      <4>1. k \in 0 .. n - 1
        BY <3>1
      <4>2. p + k \in 0 .. PoolSize - 1 /\ p + k \in p .. p + n - 1 /\ (p + k) - p = k
        BY <1>1, <4>1
      <4>3. w.mem[p + k] = [of |-> x, at |-> k]
        BY <1>3, <4>2
      <4> QED
        BY <3>1, <4>3
    <3> QED
      BY <3>1, <3>2, <3>3 DEF Whole
  <2>2. ASSUME NEW u \in t, s.of = u.of, s.at = u.at, s.size = u.size, s.age = u.age + n,
               s \in Slots(B)
        PROVE  s \in Slots(B) /\ Inside(s) /\ Whole(w, s) /\ Behind(w, s)
    <3>1. /\ u.at \in Nat /\ u.size \in 1 .. MaxSlot /\ u.age \in Nat
          /\ u.size <= u.age /\ u.at + u.size <= PoolSize
          /\ r.head \in 0 .. PoolSize
          /\ r.head = u.at + u.age \/ PoolSize + r.head - u.at - u.age \in 0 .. MaxSlot - 1
      BY DEF Sound, Slots, Inside, Behind
    <3>2. u.age + n <= Window
      BY <1>6, <2>2
    <3>3. /\ \/ p + n = u.at + (u.age + n)
             \/ PoolSize + (p + n) - u.at - (u.age + n) \in 0 .. MaxSlot - 1
          /\ u.at + u.size <= p \/ p + n <= u.at
      BY <3>1, <3>2, StaysBehind DEF p
    <3>4. Behind(w, s)
      BY <1>2, <2>2, <3>3 DEF Behind
    <3>5. Inside(s)
      BY <2>2, <3>1, <3>2 DEF Inside
    <3>6. ASSUME NEW k \in 0 .. s.size - 1 PROVE w.mem[s.at + k] = [of |-> s.of, at |-> k]
      <4>1. k \in 0 .. u.size - 1
        BY <2>2
      <4>2. r.mem[u.at + k] = [of |-> u.of, at |-> k]
        BY <4>1 DEF Sound, Whole
      <4>3. u.at + k \in 0 .. PoolSize - 1 /\ u.at + k \notin p .. p + n - 1
        BY <1>1, <3>1, <3>3, <4>1
      <4> QED
        BY <1>3, <2>2, <4>2, <4>3
    <3> QED
      BY <2>2, <3>4, <3>5, <3>6 DEF Whole
  <2> QED
    BY <1>5, <2>1, <2>2
<1>8. ASSUME NEW s \in t2, NEW v \in t2, s.age = v.age
      PROVE  s = v
  <2>1. \A u \in t : u.age \in Nat /\ u.age >= 1
    BY DEF Sound, Slots, Inside
  <2>2. n \in Nat /\ new.age = n
    BY RingAssumption
  <2>3. CASE s = new /\ v = new
    BY <2>3
  <2>4. CASE s = new /\ v # new
    BY <1>5, <1>8, <2>1, <2>2, <2>4
  <2>5. CASE s # new /\ v = new
    BY <1>5, <1>8, <2>1, <2>2, <2>5
  <2>6. CASE s # new /\ v # new
    <3>1. PICK u \in t : s.age = u.age + n /\ s = [u EXCEPT !.age = u.age + n]
      BY <1>5, <2>6
    <3>2. PICK q \in t : v.age = q.age + n /\ v = [q EXCEPT !.age = q.age + n]
      BY <1>5, <2>6
    <3>3. u.age = q.age
      <4>1. u.age + n = q.age + n
        BY <1>8, <3>1, <3>2
      <4> HIDE DEF new
      <4> QED
        BY <2>1, <2>2, <4>1
    <3>4. u = q
      BY <3>3 DEF Sound
    <3> QED
      BY <3>1, <3>2, <3>4
  <2> QED
    BY <2>3, <2>4, <2>5, <2>6
<1>9. w.head \in 0 .. PoolSize
  BY <1>1, <1>2
<1> QED
  <2>1. Sound(B, w, t2)
    BY <1>2, <1>7, <1>8, <1>9 DEF Sound
  <2> QED
    BY <2>1 DEF w, t2, p

-----------------------------------------------------------------------------
(* One write after the other *)

LEMMA RingsAre ==
  ASSUME NEW r, NEW xs, NEW size, Len(xs) \in Nat
  PROVE  /\ Rings(r, xs, size)[0] = r
         /\ \A i \in 1 .. Len(xs) :
              Rings(r, xs, size)[i] = Written(Rings(r, xs, size)[i - 1], xs[i], size)
<1> DEFINE N == Len(xs)
           Is(f, n) == f = [i \in 0 .. n |-> IF i = 0 THEN r ELSE Written(f[i - 1], xs[i], size)]
           P == {n \in 0 .. N : \E f : Is(f, n)}
<1>1. 0 \in P
  <2> DEFINE g == [i \in 0 .. 0 |-> r]
  <2>1. Is(g, 0) /\ 0 \in 0 .. N
    OBVIOUS
  <2> HIDE DEF Is, g
  <2> QED
    BY <2>1
<1>2. ASSUME NEW n \in 0 .. N - 1, n \in P
      PROVE  n + 1 \in P
  <2>1. PICK f : Is(f, n)
    BY <1>2
  <2> DEFINE g == [i \in 0 .. n + 1 |-> IF i = n + 1 THEN Written(f[n], xs[n + 1], size) ELSE f[i]]
  <2>2. ASSUME NEW i \in 0 .. n + 1
        PROVE  g[i] = IF i = 0 THEN r ELSE Written(g[i - 1], xs[i], size)
    <3>1. CASE i = 0
      BY <2>1, <3>1
    <3>2. CASE i = n + 1
      <4>1. g[i] = Written(f[n], xs[i], size) /\ i - 1 = n /\ i # 0
        BY <3>2
      <4>2. g[n] = f[n]
        OBVIOUS
      <4> QED
        BY <4>1, <4>2
    <3>3. CASE i # 0 /\ i # n + 1
      <4>1. i \in 0 .. n /\ i - 1 \in 0 .. n
        BY <3>3
      <4>2. g[i] = f[i] /\ g[i - 1] = f[i - 1]
        BY <4>1, <3>3
      <4> QED
        BY <2>1, <3>3, <4>1, <4>2
    <3> QED
      BY <3>1, <3>2, <3>3
  <2>3. Is(g, n + 1)
    <3> HIDE DEF g
    <3>1. g = [i \in 0 .. n + 1 |-> g[i]]
      BY DEF g
    <3> QED
      BY <2>2, <3>1
  <2>4. n + 1 \in 0 .. N
    OBVIOUS
  <2> QED
    BY <2>3, <2>4
<1>3. N \in P
  <2> HIDE DEF P
  <2>1. 0 .. N \subseteq P
    BY <1>1, <1>2, UpTo
  <2> QED
    BY <2>1
<1>4. \E f : Is(f, N)
  BY <1>3
<1>5. Is(Rings(r, xs, size), N)
  BY <1>4 DEF Rings
<1> QED
  BY <1>5

LEMMA TrailsAre ==
  ASSUME NEW slots, NEW xs, NEW at, NEW size, Len(xs) \in Nat
  PROVE  /\ Trails(slots, xs, at, size)[0] = slots
         /\ \A i \in 1 .. Len(xs) :
              Trails(slots, xs, at, size)[i] = Trailing(Trails(slots, xs, at, size)[i - 1], xs[i], at[i], size)
<1> DEFINE N == Len(xs)
           Is(f, n) == f = [i \in 0 .. n |-> IF i = 0 THEN slots ELSE Trailing(f[i - 1], xs[i], at[i], size)]
           P == {n \in 0 .. N : \E f : Is(f, n)}
<1>1. 0 \in P
  <2> DEFINE g == [i \in 0 .. 0 |-> slots]
  <2>1. Is(g, 0) /\ 0 \in 0 .. N
    OBVIOUS
  <2> HIDE DEF Is, g
  <2> QED
    BY <2>1
<1>2. ASSUME NEW n \in 0 .. N - 1, n \in P
      PROVE  n + 1 \in P
  <2>1. PICK f : Is(f, n)
    BY <1>2
  <2> DEFINE g == [i \in 0 .. n + 1 |-> IF i = n + 1 THEN Trailing(f[n], xs[n + 1], at[n + 1], size) ELSE f[i]]
  <2>2. ASSUME NEW i \in 0 .. n + 1
        PROVE  g[i] = IF i = 0 THEN slots ELSE Trailing(g[i - 1], xs[i], at[i], size)
    <3>1. CASE i = 0
      BY <2>1, <3>1
    <3>2. CASE i = n + 1
      <4>1. g[i] = Trailing(f[n], xs[i], at[i], size) /\ i - 1 = n /\ i # 0
        BY <3>2
      <4>2. g[n] = f[n]
        OBVIOUS
      <4> QED
        BY <4>1, <4>2
    <3>3. CASE i # 0 /\ i # n + 1
      <4>1. i \in 0 .. n /\ i - 1 \in 0 .. n
        BY <3>3
      <4>2. g[i] = f[i] /\ g[i - 1] = f[i - 1]
        BY <4>1, <3>3
      <4> QED
        BY <2>1, <3>3, <4>1, <4>2
    <3> QED
      BY <3>1, <3>2, <3>3
  <2>3. Is(g, n + 1)
    <3> HIDE DEF g
    <3>1. g = [i \in 0 .. n + 1 |-> g[i]]
      BY DEF g
    <3> QED
      BY <2>2, <3>1
  <2>4. n + 1 \in 0 .. N
    OBVIOUS
  <2> QED
    BY <2>3, <2>4
<1>3. N \in P
  <2> HIDE DEF P
  <2>1. 0 .. N \subseteq P
    BY <1>1, <1>2, UpTo
  <2> QED
    BY <2>1
<1>4. \E f : Is(f, N)
  BY <1>3
<1>5. Is(Trails(slots, xs, at, size), N)
  BY <1>4 DEF Trails
<1> QED
  BY <1>5

\* The rings and the trails while the slots of xs are written.
LEMMA WritesKeep ==
  ASSUME NEW B, NEW r, NEW t, NEW xs, Len(xs) \in Nat, NEW n \in 1 .. MaxSlot,
         DOMAIN xs = 1 .. Len(xs), \A i \in 1 .. Len(xs) : xs[i] \in B, Sound(B, r, t)
  PROVE  \A i \in 0 .. Len(xs) :
           Sound(B, Rings(r, xs, n)[i], Trails(t, xs, Offsets(r, xs, n), n)[i])
<1> DEFINE N == Len(xs)
           R == Rings(r, xs, n)
           O == Offsets(r, xs, n)
           T == Trails(t, xs, O, n)
           P == {i \in 0 .. N : Sound(B, R[i], T[i])}
<1>1. R[0] = r /\ \A i \in 1 .. N : R[i] = Written(R[i - 1], xs[i], n)
  BY RingsAre
<1>2. T[0] = t /\ \A i \in 1 .. N : T[i] = Trailing(T[i - 1], xs[i], O[i], n)
  <2> HIDE DEF O
  <2> QED
    BY TrailsAre
<1>3. \A i \in 1 .. N : O[i] = Place(R[i - 1], n)
  BY DEF Offsets
<1> HIDE DEF R, O, T
<1>4. 0 \in P
  BY <1>1, <1>2
<1>5. ASSUME NEW i \in 0 .. N - 1, i \in P
      PROVE  i + 1 \in P
  <2>1. i + 1 \in 1 .. N /\ (i + 1) - 1 = i /\ i + 1 \in 0 .. N
    OBVIOUS
  <2>2. /\ R[i + 1] = Written(R[i], xs[i + 1], n)
        /\ T[i + 1] = Trailing(T[i], xs[i + 1], Place(R[i], n), n)
    BY <1>1, <1>2, <1>3, <2>1
  <2>3. Sound(B, R[i], T[i]) /\ xs[i + 1] \in B
    BY <1>5, <2>1
  <2>4. Sound(B, R[i + 1], T[i + 1])
    BY <2>2, <2>3, WriteKeeps
  <2> QED
    BY <2>1, <2>4
<1>6. 0 .. N \subseteq P
  <2> HIDE DEF P
  <2> QED
    BY <1>4, <1>5, UpTo
<1> QED
  BY <1>6 DEF R, O, T

\* What WriteAll does to a ring and a trail that are sound.
LEMMA WriteAllKeeps ==
  ASSUME NEW B, NEW xs, Len(xs) \in Nat, NEW n \in 1 .. MaxSlot,
         DOMAIN xs = 1 .. Len(xs), \A i \in 1 .. Len(xs) : xs[i] \in B,
         Sound(B, ring, trail), WriteAll(xs, n)
  PROVE  /\ Sound(B, ring', trail')
         /\ DOMAIN Offsets(ring, xs, n) = 1 .. Len(xs)
         /\ \A i \in 1 .. Len(xs) : Offsets(ring, xs, n)[i] \in 0 .. PoolSize - n
<1>1. Sound(B, ring', trail')
  BY WritesKeep DEF WriteAll
<1>2. ASSUME NEW i \in 1 .. Len(xs)
      PROVE  Offsets(ring, xs, n)[i] \in 0 .. PoolSize - n
  <2>1. i - 1 \in 0 .. Len(xs)
    OBVIOUS
  <2> DEFINE q == Rings(ring, xs, n)[i - 1]
  <2>2. Sound(B, q, Trails(trail, xs, Offsets(ring, xs, n), n)[i - 1])
    BY <2>1, WritesKeep
  <2>3. Offsets(ring, xs, n)[i] = Place(q, n)
    BY DEF Offsets
  <2> HIDE DEF q
  <2>4. Place(q, n) \in Nat /\ Place(q, n) + n <= PoolSize
    BY <2>2, PlaceFits DEF Sound
  <2> QED
    BY <2>3, <2>4, RingAssumption
<1> QED
  BY <1>1, <1>2 DEF Offsets

-----------------------------------------------------------------------------
(* What the trail holds after the writes *)

\* One write: the slots are d cells older, and the new one is there if the window
\* has room for it.
LEMMA TrailingIs ==
  ASSUME NEW B, NEW t, t \subseteq Slots(B), NEW x, NEW o \in Nat, NEW n \in 1 .. MaxSlot
  PROVE  /\ \A s \in Trailing(t, x, o, n) :
              \/ s.of = x /\ s.at = o /\ s.size = n /\ s.age = n
              \/ \E u \in t : s.of = u.of /\ s.at = u.at /\ s.size = u.size /\ s.age = u.age + n
         /\ n <= Window => \E s \in Trailing(t, x, o, n) : s.of = x /\ s.age = n
         /\ \A u \in t : u.age + n <= Window =>
              \E s \in Trailing(t, x, o, n) : s.of = u.of /\ s.age = u.age + n
<1> DEFINE T == Trailing(t, x, o, n)
           new == [of |-> x, at |-> o, size |-> n, age |-> n]
           Old(u) == [u EXCEPT !.age = @ + n]
<1>1. \A s : s \in T <=> (s = new \/ \E u \in t : s = Old(u)) /\ s.age <= Window
  BY DEF Trailing
<1>2. ASSUME NEW u \in t
      PROVE  /\ Old(u).of = u.of /\ Old(u).at = u.at /\ Old(u).size = u.size
             /\ Old(u).age = u.age + n
  <2>1. u \in Slots(B)
    OBVIOUS
  <2> QED
    BY <2>1 DEF Slots
<1>3. new.of = x /\ new.at = o /\ new.size = n /\ new.age = n
  OBVIOUS
<1> HIDE DEF T, new, Old
<1>4. n <= Window => \E s \in T : s.of = x /\ s.age = n
  BY <1>1, <1>3
<1>5. ASSUME NEW u \in t, u.age + n <= Window
      PROVE  \E s \in T : s.of = u.of /\ s.age = u.age + n
  <2>1. Old(u) \in T
    BY <1>1, <1>2, <1>5
  <2> QED
    BY <1>2, <2>1
<1>6. \A s \in T :
        \/ s.of = x /\ s.at = o /\ s.size = n /\ s.age = n
        \/ \E u \in t : s.of = u.of /\ s.at = u.at /\ s.size = u.size /\ s.age = u.age + n
  BY <1>1, <1>2, <1>3
<1> QED
  BY <1>4, <1>5, <1>6 DEF T

\* After all the slots of xs everything older is d cells older, and every block of xs
\* that the window has room for has a slot younger than that.
Older(t, xs, O, T, n, i, d) ==
  /\ \A s \in T :
       \/ \E j \in 1 .. i : s.of = xs[j] /\ s.at = O[j] /\ s.size = n
       \/ \E u \in t : s.of = u.of /\ s.at = u.at /\ s.size = u.size /\ s.age = u.age + d
  /\ d <= Window => \A j \in 1 .. i : \E s \in T : s.of = xs[j] /\ s.age <= d
  /\ \A u \in t : u.age + d <= Window => \E s \in T : s.of = u.of /\ s.age = u.age + d

LEMMA OlderStep ==
  ASSUME NEW B, NEW t, t \subseteq Slots(B), NEW T, T \subseteq Slots(B),
         NEW xs, NEW O, NEW n \in 1 .. MaxSlot, NEW i \in Nat, NEW d \in Nat,
         O[i + 1] \in Nat, Older(t, xs, O, T, n, i, d)
  PROVE  Older(t, xs, O, Trailing(T, xs[i + 1], O[i + 1], n), n, i + 1, d + n)
<1> DEFINE T2 == Trailing(T, xs[i + 1], O[i + 1], n)
<1>1. /\ \A s \in T2 :
           \/ s.of = xs[i + 1] /\ s.at = O[i + 1] /\ s.size = n /\ s.age = n
           \/ \E u \in T : s.of = u.of /\ s.at = u.at /\ s.size = u.size /\ s.age = u.age + n
      /\ n <= Window => \E s \in T2 : s.of = xs[i + 1] /\ s.age = n
      /\ \A u \in T : u.age + n <= Window =>
           \E s \in T2 : s.of = u.of /\ s.age = u.age + n
  BY TrailingIs
<1> HIDE DEF T2
<1>2. n \in Nat /\ 1 <= n /\ Window \in Int
  BY RingAssumption DEF Window
<1>3. (\A u \in t : u.age \in Nat) /\ (\A u \in T : u.age \in Nat)
  BY DEF Slots
<1>4. ASSUME NEW s \in T2
      PROVE  \/ \E j \in 1 .. i + 1 : s.of = xs[j] /\ s.at = O[j] /\ s.size = n
             \/ \E u \in t : s.of = u.of /\ s.at = u.at /\ s.size = u.size /\ s.age = u.age + (d + n)
  <2>1. CASE s.of = xs[i + 1] /\ s.at = O[i + 1] /\ s.size = n
    BY <2>1
  <2>2. ASSUME NEW v \in T, s.of = v.of, s.at = v.at, s.size = v.size, s.age = v.age + n
        PROVE  \/ \E j \in 1 .. i + 1 : s.of = xs[j] /\ s.at = O[j] /\ s.size = n
               \/ \E u \in t : s.of = u.of /\ s.at = u.at /\ s.size = u.size /\ s.age = u.age + (d + n)
    <3>1. CASE \E j \in 1 .. i : v.of = xs[j] /\ v.at = O[j] /\ v.size = n
      BY <2>2, <3>1
    <3>2. ASSUME NEW u \in t, v.of = u.of, v.at = u.at, v.size = u.size, v.age = u.age + d
          PROVE  s.of = u.of /\ s.at = u.at /\ s.size = u.size /\ s.age = u.age + (d + n)
      BY <1>2, <1>3, <2>2, <3>2
    <3> QED
      BY <3>1, <3>2 DEF Older
  <2> QED
    BY <1>1, <2>1, <2>2
<1>5. ASSUME d + n <= Window, NEW j \in 1 .. i + 1
      PROVE  \E s \in T2 : s.of = xs[j] /\ s.age <= d + n
  <2>1. CASE j = i + 1
    <3>1. n <= Window
      BY <1>2, <1>5
    <3>2. PICK s \in T2 : s.of = xs[i + 1] /\ s.age = n
      BY <1>1, <3>1
    <3>3. s.age <= d + n
      BY <1>2, <3>2
    <3> QED
      BY <2>1, <3>2, <3>3
  <2>2. CASE j # i + 1
    <3>1. j \in 1 .. i /\ d <= Window
      BY <1>2, <1>5, <2>2
    <3>2. PICK u \in T : u.of = xs[j] /\ u.age <= d
      BY <3>1 DEF Older
    <3>3. u.age + n <= Window
      BY <1>2, <1>3, <1>5, <3>2
    <3>4. PICK s \in T2 : s.of = u.of /\ s.age = u.age + n
      BY <1>1, <3>3
    <3>5. s.age <= d + n
      BY <1>2, <1>3, <3>2, <3>4
    <3> QED
      BY <3>2, <3>4, <3>5
  <2> QED
    BY <2>1, <2>2
<1>6. ASSUME NEW u \in t, u.age + (d + n) <= Window
      PROVE  \E s \in T2 : s.of = u.of /\ s.age = u.age + (d + n)
  <2>1. u.age + d <= Window
    BY <1>2, <1>3, <1>6
  <2>2. PICK v \in T : v.of = u.of /\ v.age = u.age + d
    BY <2>1 DEF Older
  <2>3. v.age + n <= Window
    BY <1>2, <1>3, <1>6, <2>2
  <2>4. PICK s \in T2 : s.of = v.of /\ s.age = v.age + n
    BY <1>1, <2>3
  <2>5. s.age = u.age + (d + n)
    BY <1>2, <1>3, <2>2, <2>4
  <2> QED
    BY <2>2, <2>4, <2>5
<1> QED
  BY <1>4, <1>5, <1>6 DEF Older, T2

LEMMA WriteAllTrail ==
  ASSUME NEW B, NEW xs, Len(xs) \in Nat, NEW n \in 1 .. MaxSlot,
         DOMAIN xs = 1 .. Len(xs), \A i \in 1 .. Len(xs) : xs[i] \in B,
         Sound(B, ring, trail), WriteAll(xs, n)
  PROVE  \E d \in Nat : Older(trail, xs, Offsets(ring, xs, n), trail', n, Len(xs), d)
<1> DEFINE N == Len(xs)
           R == Rings(ring, xs, n)
           O == Offsets(ring, xs, n)
           T == Trails(trail, xs, O, n)
           P == {i \in 0 .. N : \E d \in Nat : Older(trail, xs, O, T[i], n, i, d)}
<1>1. \A i \in 0 .. N : Sound(B, R[i], T[i])
  BY WritesKeep
<1>2. T[0] = trail /\ \A i \in 1 .. N : T[i] = Trailing(T[i - 1], xs[i], O[i], n)
  <2> HIDE DEF O
  <2> QED
    BY TrailsAre
<1>3. \A i \in 1 .. N : O[i] \in Nat
  BY WriteAllKeeps
<1>4. trail' = T[N]
  BY DEF WriteAll
<1>5. trail \subseteq Slots(B)
  BY DEF Sound
<1> HIDE DEF R, O, T
<1>6. 0 \in P
  <2>1. \A u \in trail : u.age \in Nat
    BY <1>5 DEF Slots
  <2>2. Older(trail, xs, O, trail, n, 0, 0)
    BY <2>1 DEF Older
  <2>3. \E d \in Nat : Older(trail, xs, O, T[0], n, 0, d)
    BY <1>2, <2>2
  <2>4. 0 \in 0 .. N
    OBVIOUS
  <2> QED
    BY <2>3, <2>4
<1>7. ASSUME NEW i \in 0 .. N - 1, i \in P
      PROVE  i + 1 \in P
  <2>1. i \in 0 .. N /\ i + 1 \in 1 .. N /\ (i + 1) - 1 = i /\ i + 1 \in 0 .. N /\ i \in Nat
    OBVIOUS
  <2>2. PICK d \in Nat : Older(trail, xs, O, T[i], n, i, d)
    BY <1>7
  <2>3. T[i + 1] = Trailing(T[i], xs[i + 1], O[i + 1], n) /\ O[i + 1] \in Nat
    BY <1>2, <1>3, <2>1
  <2>4. T[i] \subseteq Slots(B)
    BY <1>1, <2>1 DEF Sound
  <2>5. Older(trail, xs, O, T[i + 1], n, i + 1, d + n)
    BY <1>5, <2>1, <2>2, <2>3, <2>4, OlderStep
  <2>6. d + n \in Nat
    OBVIOUS
  <2> QED
    BY <2>1, <2>5, <2>6
<1>8. N \in P
  <2> HIDE DEF P
  <2>1. 0 .. N \subseteq P
    BY <1>6, <1>7, UpTo
  <2> QED
    BY <2>1
<1> QED
  BY <1>4, <1>8 DEF O

-----------------------------------------------------------------------------
(* The inductive invariant *)

\* What a slot holds: a layer of a node.
Blocks == Paths \X (1 .. Layers)

Node == [path : Paths, offsets : [1 .. Layers -> Nat]]

NodesOK ==
  /\ nodes \in Seq(Node)
  /\ \A i \in DOMAIN nodes : \A l \in 1 .. Layers :
       nodes[i].offsets[l] <= PoolSize - SlotOf(nodes[i].path)
  /\ \A i, j \in DOMAIN nodes : nodes[i].path = nodes[j].path => i = j

Inv ==
  /\ Sound(Blocks, ring, trail)
  /\ \A s \in trail : s.size = SlotOf(s.of[1])
  /\ NodesOK
  /\ IndexFindsRecent

-----------------------------------------------------------------------------
(* Paths and nodes *)

LEMMA PathFacts ==
  ASSUME NEW p \in Paths
  PROVE  /\ p \in Seq(Seq(Tokens)) /\ p # <<>> /\ Len(p) \in Nat /\ Len(p) >= 1
         /\ \A i \in 1 .. Len(p) : p[i] \in Seq(Tokens) /\ p[i] # <<>>
         /\ Last(p) \in Seq(Tokens) /\ Last(p) # <<>>
         /\ SlotOf(p) \in 1 .. MaxSlot /\ Cells(Len(Last(p))) = SlotOf(p) - 1
<1>1. p \in Seq(Seq(Tokens) \ {<<>>}) /\ p # <<>> /\ SlotOf(p) <= MaxSlot
  BY SglangAssumption
<1>2. Len(p) \in Nat /\ Len(p) >= 1 /\ p \in Seq(Seq(Tokens))
  <2>1. p \in [1 .. Len(p) -> Seq(Tokens) \ {<<>>}] /\ Len(p) \in Nat
    BY <1>1
  <2>2. Len(p) # 0
    BY <1>1
  <2>3. p \in Seq(Seq(Tokens))
    BY <2>1
  <2> QED
    BY <2>1, <2>2, <2>3
<1>3. \A i \in 1 .. Len(p) : p[i] \in Seq(Tokens) /\ p[i] # <<>>
  BY <1>1
<1>4. Last(p) \in Seq(Tokens) /\ Last(p) # <<>>
  BY <1>2, <1>3 DEF Last
<1>5. Len(Last(p)) \in Nat
  BY <1>4
<1>6. SlotOf(p) = 1 + 2 * Len(Last(p)) /\ Cells(Len(Last(p))) = 2 * Len(Last(p))
  BY DEF SlotOf, Cells
<1>7. SlotOf(p) \in 1 .. MaxSlot /\ Cells(Len(Last(p))) = SlotOf(p) - 1
  BY <1>1, <1>5, <1>6, RingAssumption
<1> QED
  BY <1>1, <1>2, <1>3, <1>4, <1>7

\* A path has one node, and its offsets are found.
LEMMA NodeFound ==
  ASSUME NodesOK, NEW i \in DOMAIN nodes
  PROVE  Known(nodes[i].path) /\ OffsetsOf(nodes[i].path) = nodes[i].offsets
<1>1. Known(nodes[i].path)
  BY DEF Known
<1>2. (CHOOSE j \in DOMAIN nodes : nodes[j].path = nodes[i].path) = i
  BY DEF NodesOK
<1> QED
  BY <1>1, <1>2 DEF OffsetsOf

\* Registering a node keeps the others, at their places.
LEMMA RegisterKeeps ==
  ASSUME NodesOK, NEW node \in Node,
         \A l \in 1 .. Layers : node.offsets[l] <= PoolSize - SlotOf(node.path),
         nodes' = Registered(node)
  PROVE  /\ NodesOK'
         /\ \E i \in DOMAIN nodes' : nodes'[i] = node
         /\ \A i \in DOMAIN nodes : nodes[i].path # node.path =>
              \E j \in DOMAIN nodes' : nodes'[j] = nodes[i]
<1>1. nodes \in Seq(Node) /\ DOMAIN nodes = 1 .. Len(nodes) /\ Len(nodes) \in Nat
  BY DEF NodesOK
<1>2. CASE Known(node.path)
  <2>1. nodes' = [i \in DOMAIN nodes |-> IF nodes[i].path = node.path THEN node ELSE nodes[i]]
    BY <1>2 DEF Registered
  <2>2. nodes' \in Seq(Node) /\ DOMAIN nodes' = DOMAIN nodes
    BY <1>1, <2>1
  <2>3. \A i \in DOMAIN nodes :
          /\ nodes[i].path = node.path => nodes'[i] = node
          /\ nodes[i].path # node.path => nodes'[i] = nodes[i]
          /\ nodes'[i].path = nodes[i].path
    BY <2>1
  <2>4. PICK k \in DOMAIN nodes : nodes[k].path = node.path
    BY <1>2 DEF Known
  <2>5. NodesOK'
    BY <2>2, <2>3 DEF NodesOK
  <2> QED
    BY <2>2, <2>3, <2>4, <2>5
<1>3. CASE ~Known(node.path)
  <2>1. nodes' = Append(nodes, node)
    BY <1>3 DEF Registered
  <2>2. /\ nodes' \in Seq(Node) /\ DOMAIN nodes' = 1 .. Len(nodes) + 1
        /\ nodes'[Len(nodes) + 1] = node
        /\ \A i \in DOMAIN nodes : nodes'[i] = nodes[i]
    BY <1>1, <2>1
  <2>3. \A i \in DOMAIN nodes : nodes[i].path # node.path
    BY <1>3 DEF Known
  <2>4. \A i \in DOMAIN nodes' : i = Len(nodes) + 1 \/ i \in DOMAIN nodes
    BY <1>1, <2>2
  <2>5. NodesOK'
    <3>1. \A i \in DOMAIN nodes' : \A l \in 1 .. Layers :
            nodes'[i].offsets[l] <= PoolSize - SlotOf(nodes'[i].path)
      BY <2>2, <2>4 DEF NodesOK
    <3>2. \A i, j \in DOMAIN nodes' : nodes'[i].path = nodes'[j].path => i = j
      BY <2>2, <2>3, <2>4 DEF NodesOK
    <3> QED
      BY <2>2, <3>1, <3>2 DEF NodesOK
  <2>6. Len(nodes) + 1 \in DOMAIN nodes' /\ DOMAIN nodes \subseteq DOMAIN nodes'
    BY <1>1, <2>2
  <2> QED
    BY <2>2, <2>5, <2>6
<1> QED
  BY <1>2, <1>3

-----------------------------------------------------------------------------
(* The steps *)

LEMMA InvInit == Init => Inv
<1> SUFFICES ASSUME Init PROVE Inv
  OBVIOUS
<1>1. ring.head = 0 /\ DOMAIN ring.mem = 0 .. PoolSize - 1 /\ trail = {} /\ nodes = <<>>
  BY DEF Init, RingInit
<1>2. Sound(Blocks, ring, trail)
  BY <1>1, RingAssumption DEF Sound
<1>3. NodesOK
  BY <1>1 DEF NodesOK
<1> QED
  BY <1>1, <1>2, <1>3 DEF Inv, IndexFindsRecent

LEMMA OffloadKeeps ==
  ASSUME Inv, NEW path \in Paths, Offload(path)
  PROVE  Inv'
<1> DEFINE xs == LayersOf(path)
           n == SlotOf(path)
           O == Offsets(ring, xs, n)
           node == [path |-> path, offsets |-> O]
<1>1. /\ Layers \in Nat /\ Len(xs) = Layers /\ Len(xs) \in Nat /\ DOMAIN xs = 1 .. Len(xs)
      /\ \A l \in 1 .. Layers : xs[l] = <<path, l>> /\ xs[l] \in Blocks
  <2>1. Layers \in Nat
    BY ConnectorAssumption
  <2>2. DOMAIN xs = 1 .. Layers /\ \A l \in 1 .. Layers : xs[l] = <<path, l>>
    BY DEF LayersOf
  <2>3. \A l \in 1 .. Layers : xs[l] \in Blocks
    <3> SUFFICES ASSUME NEW l \in 1 .. Layers PROVE xs[l] \in Blocks
      OBVIOUS
    <3>1. <<path, l>> \in Blocks
      BY DEF Blocks
    <3>2. xs[l] = <<path, l>>
      BY <2>2
    <3> HIDE DEF xs
    <3> QED
      BY <3>1, <3>2
  <2>4. xs \in Seq(Blocks)
    BY <2>1, <2>2, <2>3 DEF LayersOf
  <2>5. Len(xs) = Layers
    BY <2>1, <2>2, <2>4
  <2> QED
    BY <2>1, <2>2, <2>3, <2>5
<1>2. n \in 1 .. MaxSlot
  BY PathFacts
<1>3. WriteAll(xs, n) /\ nodes' = Registered(node)
  BY DEF Offload
<1>4. Sound(Blocks, ring, trail) /\ trail \subseteq Slots(Blocks)
  BY DEF Inv, Sound
<1> HIDE DEF xs, n
<1>5. /\ Sound(Blocks, ring', trail')
      /\ DOMAIN O = 1 .. Layers /\ \A l \in 1 .. Layers : O[l] \in 0 .. PoolSize - n
  BY <1>1, <1>2, <1>3, <1>4, WriteAllKeeps
<1>6. PICK d \in Nat : Older(trail, xs, O, trail', n, Layers, d)
  BY <1>1, <1>2, <1>3, <1>4, WriteAllTrail
<1>7. \A s \in trail' : s.size = SlotOf(s.of[1])
  <2>1. ASSUME NEW s \in trail', NEW j \in 1 .. Layers, s.of = xs[j], s.size = n
        PROVE  s.size = SlotOf(s.of[1])
    BY <1>1, <2>1 DEF n
  <2>2. ASSUME NEW s \in trail', NEW u \in trail, s.of = u.of, s.size = u.size
        PROVE  s.size = SlotOf(s.of[1])
    BY <2>2 DEF Inv
  <2> QED
    BY <1>6, <2>1, <2>2 DEF Older
<1>8. O \in [1 .. Layers -> Nat] /\ \A l \in 1 .. Layers : O[l] <= PoolSize - n
  <2>1. O = [l \in 1 .. Layers |-> O[l]]
    BY <1>5 DEF Offsets
  <2> HIDE DEF O
  <2>2. \A l \in 1 .. Layers : O[l] \in Nat /\ O[l] <= PoolSize - n
    BY <1>2, <1>5, RingAssumption
  <2> QED
    BY <2>1, <2>2
<1> HIDE DEF O
<1>9. node \in Node /\ node.path = path /\ node.offsets = O
  BY <1>8 DEF Node
<1>10. /\ NodesOK'
       /\ \E i \in DOMAIN nodes' : nodes'[i] = node
       /\ \A i \in DOMAIN nodes : nodes[i].path # path =>
            \E j \in DOMAIN nodes' : nodes'[j] = nodes[i]
  <2>1. \A l \in 1 .. Layers : node.offsets[l] <= PoolSize - SlotOf(node.path)
    BY <1>8, <1>9 DEF n
  <2>2. NodesOK
    BY DEF Inv
  <2> HIDE DEF node
  <2> QED
    BY <1>3, <1>9, <2>1, <2>2, RegisterKeeps
<1>11. ASSUME NEW i \in DOMAIN nodes', NEW q, nodes'[i].path = q
       PROVE  Known(q)' /\ OffsetsOf(q)' = nodes'[i].offsets
  <2>1. Known(q)'
    BY <1>11 DEF Known
  <2>2. (CHOOSE j \in DOMAIN nodes' : nodes'[j].path = q) = i
    BY <1>10, <1>11 DEF NodesOK
  <2> QED
    BY <2>1, <2>2 DEF OffsetsOf
<1>12. Known(path)' /\ OffsetsOf(path)' = O
  <2>1. PICK i \in DOMAIN nodes' : nodes'[i] = node
    BY <1>10
  <2>2. nodes'[i].path = path /\ nodes'[i].offsets = O
    BY <1>9, <2>1
  <2> QED
    BY <1>11, <2>2
<1>13. ASSUME NEW q, q # path, Known(q)
       PROVE  Known(q)' /\ OffsetsOf(q)' = OffsetsOf(q)
  <2>1. PICK i \in DOMAIN nodes : nodes[i].path = q
    BY <1>13 DEF Known
  <2>2. OffsetsOf(q) = nodes[i].offsets
    BY <2>1, NodeFound DEF Inv
  <2>3. PICK j \in DOMAIN nodes' : nodes'[j] = nodes[i]
    BY <1>10, <1>13, <2>1
  <2>4. nodes'[j].path = q /\ nodes'[j].offsets = nodes[i].offsets
    BY <2>1, <2>3
  <2> QED
    BY <1>11, <2>2, <2>4
<1>14. ASSUME NEW s \in trail', \A u \in trail' : u.of = s.of => s.age <= u.age
       PROVE  Known(s.of[1])' /\ OffsetsOf(s.of[1])'[s.of[2]] = s.at
  <2>1. ASSUME NEW j \in 1 .. Layers, s.of = xs[j], s.at = O[j]
        PROVE  Known(s.of[1])' /\ OffsetsOf(s.of[1])'[s.of[2]] = s.at
    <3>1. s.of[1] = path /\ s.of[2] = j
      BY <1>1, <2>1
    <3> QED
      BY <1>12, <2>1, <3>1
  <2>2. ASSUME NEW u \in trail, s.of = u.of, s.at = u.at, s.age = u.age + d
        PROVE  Known(s.of[1])' /\ OffsetsOf(s.of[1])'[s.of[2]] = s.at
    <3>1. s.age \in Nat /\ s.age <= Window /\ Window \in Int
      BY <1>5, RingAssumption DEF Sound, Slots, Inside, Window
    <3>2. /\ u.age \in Nat /\ 1 <= u.age
          /\ \A v \in trail : v.age \in Nat
      BY <1>4 DEF Sound, Slots, Inside
    <3>3. u.of \in Blocks
      BY <1>4 DEF Slots
    <3>4. PICK q \in Paths, l \in 1 .. Layers : u.of = <<q, l>>
      BY <3>3 DEF Blocks
    <3>5. q # path
      <4> SUFFICES ASSUME q = path PROVE FALSE
        OBVIOUS
      <4>1. d <= Window
        BY <2>2, <3>1, <3>2
      <4>2. PICK v \in trail' : v.of = xs[l] /\ v.age <= d
        BY <1>6, <4>1 DEF Older
      <4>3. v.of = s.of
        BY <1>1, <2>2, <3>4, <4>2
      <4>4. s.age <= v.age
        BY <1>14, <4>3
      <4>5. v.age \in Nat
        BY <1>5 DEF Sound, Slots
      <4> QED
        BY <2>2, <3>1, <3>2, <4>2, <4>4, <4>5
    <3>6. ASSUME NEW v \in trail, v.of = u.of
          PROVE  u.age <= v.age
      <4> SUFFICES ASSUME v.age < u.age PROVE FALSE
        BY <3>2
      <4>1. v.age + d <= Window
        BY <2>2, <3>1, <3>2
      <4>2. PICK w \in trail' : w.of = v.of /\ w.age = v.age + d
        BY <1>6, <4>1 DEF Older
      <4>3. s.age <= w.age
        BY <1>14, <2>2, <3>6, <4>2
      <4> QED
        BY <2>2, <3>1, <3>2, <4>2, <4>3
    <3>7. Known(q) /\ OffsetsOf(q)[l] = u.at
      BY <3>4, <3>6 DEF Inv, IndexFindsRecent, Youngest
    <3>8. Known(q)' /\ OffsetsOf(q)' = OffsetsOf(q)
      BY <1>13, <3>5, <3>7
    <3>9. s.of[1] = q /\ s.of[2] = l
      BY <2>2, <3>4
    <3> QED
      BY <2>2, <3>7, <3>8, <3>9
  <2> QED
    BY <1>6, <2>1, <2>2 DEF Older
<1>15. IndexFindsRecent'
  BY <1>14 DEF IndexFindsRecent, Youngest
<1> QED
  BY <1>5, <1>7, <1>10, <1>15 DEF Inv

LEMMA InvStep == Inv /\ [Next]_vars => Inv'
<1> SUFFICES ASSUME Inv, [Next]_vars PROVE Inv'
  OBVIOUS
<1>1. ASSUME NEW path \in Paths, Offload(path) PROVE Inv'
  BY <1>1, OffloadKeeps
<1>2. CASE UNCHANGED <<ring, trail, nodes>>
  <2>1. \A q : Known(q)' = Known(q) /\ OffsetsOf(q)' = OffsetsOf(q)
    BY <1>2 DEF Known, OffsetsOf
  <2>2. IndexFindsRecent'
    BY <1>2, <2>1 DEF Inv, IndexFindsRecent, Youngest
  <2>3. NodesOK'
    BY <1>2 DEF Inv, NodesOK
  <2>4. Sound(Blocks, ring', trail') /\ \A s \in trail' : s.size = SlotOf(s.of[1])
    BY <1>2 DEF Inv
  <2> QED
    BY <2>2, <2>3, <2>4 DEF Inv
<1>3. ASSUME NEW prompt \in Prompts, Restore(prompt) PROVE Inv'
  BY <1>2, <1>3 DEF Restore
<1>4. CASE UNCHANGED vars
  BY <1>2, <1>4 DEF vars
<1> QED
  BY <1>1, <1>3, <1>4 DEF Next

LEMMA InvAlways == Spec => []Inv
BY InvInit, InvStep, PTL DEF Spec

\* A block on the trail has a youngest slot there.
LEMMA YoungestIs ==
  ASSUME Sound(Blocks, ring, trail), NEW x, x \in {s.of : s \in trail}
  PROVE  \E s \in trail : s.of = x /\ Youngest(s)
<1> DEFINE A == {s.age : s \in {u \in trail : u.of = x}}
<1>1. \A s \in trail : s.age \in Nat
  BY DEF Sound, Slots
<1>2. A \in SUBSET Nat /\ A # {}
  BY <1>1
<1>3. PICK m \in A : \A y \in A : m <= y
  <2> HIDE DEF A
  <2> QED
    BY <1>2, LeastOf
<1>4. PICK s \in trail : s.of = x /\ s.age = m
  BY <1>3
<1>5. \A u \in trail : u.of = x => u.age \in A
  OBVIOUS
<1> HIDE DEF A
<1> QED
  BY <1>3, <1>4, <1>5 DEF Youngest

-----------------------------------------------------------------------------
(* The match *)

LEMMA FrontFacts ==
  ASSUME NEW p \in Paths
  PROVE  /\ Front(p) \in Seq(Seq(Tokens)) /\ Len(Front(p)) = Len(p) - 1
         /\ \A i \in 1 .. Len(p) - 1 : Front(p)[i] = p[i]
         /\ FlattenSeq(Front(p)) \in Seq(Tokens)
         /\ FlattenSeq(p) = FlattenSeq(Front(p)) \o Last(p)
         /\ FlattenSeq(p) = First(p, Len(p))
<1>1. /\ p \in Seq(Seq(Tokens)) /\ Len(p) \in Nat /\ Len(p) >= 1
      /\ Len(p) - 1 \in 0 .. Len(p) - 1 /\ (Len(p) - 1) + 1 = Len(p)
  BY PathFacts
<1>2. /\ Front(p) \in Seq(Seq(Tokens)) /\ Len(Front(p)) = Len(p) - 1
      /\ \A i \in 1 .. Len(p) - 1 : Front(p)[i] = p[i]
  BY <1>1 DEF Front
<1>3. SubSeq(p, 1, Len(p)) = p
  BY <1>1
<1>4. First(p, Len(p)) = FlattenSeq(p) /\ First(p, Len(p) - 1) = FlattenSeq(Front(p))
  BY <1>3 DEF First, Front
<1>5. /\ First(p, Len(p) - 1) \in Seq(Tokens)
      /\ First(p, (Len(p) - 1) + 1) = First(p, Len(p) - 1) \o p[(Len(p) - 1) + 1]
  BY <1>1, FirstNext
<1> QED
  BY <1>1, <1>2, <1>4, <1>5 DEF Last

LEMMA CandidateIs ==
  ASSUME NodesOK, NEW prompt \in Seq(Tokens), NEW i \in DOMAIN nodes, NEW path
  PROVE  /\ i \in Nat /\ nodes[i].path \in Paths
         /\ i \in Candidates(prompt, path) <=>
              /\ Front(nodes[i].path) = path
              /\ IsPrefix(FlattenSeq(nodes[i].path), prompt)
<1>1. i \in Nat /\ nodes[i].path \in Paths
  <2>1. nodes \in Seq(Node)
    BY DEF NodesOK
  <2>2. i \in 1 .. Len(nodes) /\ Len(nodes) \in Nat /\ nodes[i] \in Node
    BY <2>1
  <2> QED
    BY <2>2 DEF Node
<1>2. FlattenSeq(nodes[i].path) = FlattenSeq(Front(nodes[i].path)) \o Last(nodes[i].path)
  BY <1>1, FrontFacts
<1> QED
  BY <1>1, <1>2 DEF Candidates

LEMMA ExtendedIs ==
  ASSUME NodesOK, NEW prompt \in Seq(Tokens), NEW c, NEW path,
         path = IF c = <<>> THEN <<>> ELSE Last(c)
  PROVE  \/ Candidates(prompt, path) = {} /\ Extended(prompt, c) = c
         \/ \E i \in Candidates(prompt, path) : Extended(prompt, c) = Append(c, nodes[i].path)
<1> DEFINE C == Candidates(prompt, path)
           E == IF C = {} THEN c
                ELSE Append(c, nodes[CHOOSE i \in C : \A j \in C : i <= j].path)
<1>1. Extended(prompt, c) = E
  BY DEF Extended
<1>2. C \in SUBSET Nat
  BY DEF Candidates, NodesOK
<1> HIDE DEF C
<1>3. CASE C # {}
  <2>1. \E i \in C : \A j \in C : i <= j
    BY <1>2, <1>3, LeastOf
  <2> DEFINE k == CHOOSE i \in C : \A j \in C : i <= j
  <2>2. k \in C
    BY <2>1
  <2>3. E = Append(c, nodes[k].path)
    BY <1>3
  <2> HIDE DEF k, E
  <2> QED
    BY <1>1, <2>2, <2>3 DEF C
<1>4. CASE C = {}
  BY <1>1, <1>4 DEF C
<1> QED
  BY <1>3, <1>4

\* Turn after turn, as many as the prompt has tokens.
Turns(f, prompt) ==
  /\ f[0] = <<>>
  /\ \A n \in 1 .. Len(prompt) : f[n] = Extended(prompt, f[n - 1])

LEMMA MatchingIs ==
  ASSUME NEW prompt \in Seq(Tokens)
  PROVE  \E f : Turns(f, prompt) /\ Matching(prompt) = f[Len(prompt)]
<1> DEFINE N == Len(prompt)
           Is(f, n) == f = [i \in 0 .. n |-> IF i = 0 THEN <<>> ELSE Extended(prompt, f[i - 1])]
           P == {n \in 0 .. N : \E f : Is(f, n)}
<1>1. N \in Nat
  OBVIOUS
<1>2. 0 \in P
  <2> DEFINE g == [i \in 0 .. 0 |-> <<>>]
  <2>1. Is(g, 0) /\ 0 \in 0 .. N
    BY <1>1
  <2> HIDE DEF Is, g
  <2> QED
    BY <2>1
<1>3. ASSUME NEW n \in 0 .. N - 1, n \in P
      PROVE  n + 1 \in P
  <2>1. PICK f : Is(f, n)
    BY <1>3
  <2> DEFINE g == [i \in 0 .. n + 1 |-> IF i = n + 1 THEN Extended(prompt, f[n]) ELSE f[i]]
  <2>2. ASSUME NEW i \in 0 .. n + 1
        PROVE  g[i] = IF i = 0 THEN <<>> ELSE Extended(prompt, g[i - 1])
    <3>1. CASE i = 0
      BY <2>1, <3>1
    <3>2. CASE i = n + 1
      <4>1. g[i] = Extended(prompt, f[n]) /\ i - 1 = n /\ i # 0
        BY <3>2
      <4>2. g[n] = f[n]
        OBVIOUS
      <4> QED
        BY <4>1, <4>2
    <3>3. CASE i # 0 /\ i # n + 1
      <4>1. i \in 0 .. n /\ i - 1 \in 0 .. n
        BY <3>3
      <4>2. g[i] = f[i] /\ g[i - 1] = f[i - 1]
        BY <4>1, <3>3
      <4> QED
        BY <2>1, <3>3, <4>1, <4>2
    <3> QED
      BY <3>1, <3>2, <3>3
  <2>3. Is(g, n + 1)
    <3> HIDE DEF g
    <3>1. g = [i \in 0 .. n + 1 |-> g[i]]
      BY DEF g
    <3> QED
      BY <2>2, <3>1
  <2>4. n + 1 \in 0 .. N
    BY <1>1
  <2> HIDE DEF Is, g
  <2> QED
    BY <2>3, <2>4
<1>4. N \in P
  <2> HIDE DEF P
  <2>1. 0 .. N \subseteq P
    BY <1>1, <1>2, <1>3, UpTo
  <2> QED
    BY <1>1, <2>1
<1> DEFINE h == CHOOSE f : Is(f, N)
<1>5. Is(h, N)
  BY <1>4
<1>6. Matching(prompt) = h[N]
  BY DEF Matching
<1>7. Turns(h, prompt)
  <2> HIDE DEF h
  <2>1. h[0] = <<>>
    BY <1>1, <1>5
  <2>2. ASSUME NEW n \in 1 .. N PROVE h[n] = Extended(prompt, h[n - 1])
    <3>1. n \in 0 .. N /\ n # 0
      BY <1>1
    <3> QED
      BY <1>5, <3>1
  <2> QED
    BY <2>1, <2>2 DEF Turns
<1> HIDE DEF h
<1> QED
  BY <1>6, <1>7

\* A chain of nodes from the root whose tokens the prompt begins with.
Sensible(c, prompt) ==
  /\ c \in Seq(Paths)
  /\ \A i \in 1 .. Len(c) :
       /\ IsPrefix(FlattenSeq(c[i]), prompt)
       /\ Len(c[i]) = i
       /\ \A j \in 1 .. i : c[i][j] = Last(c[j])

LEMMA ExtendedKeeps ==
  ASSUME NodesOK, NEW prompt \in Seq(Tokens), NEW c, Sensible(c, prompt)
  PROVE  Sensible(Extended(prompt, c), prompt)
<1> DEFINE path == IF c = <<>> THEN <<>> ELSE Last(c)
           N == Len(c)
<1>1. c \in Seq(Paths) /\ N \in Nat
  BY DEF Sensible
<1>2. CASE Extended(prompt, c) = c
  BY <1>2
<1>3. CASE \E i \in Candidates(prompt, path) : Extended(prompt, c) = Append(c, nodes[i].path)
  <2>1. PICK i \in Candidates(prompt, path) : Extended(prompt, c) = Append(c, nodes[i].path)
    BY <1>3
  <2> DEFINE p == nodes[i].path
             d == Append(c, p)
  <2>2. i \in DOMAIN nodes
    BY DEF Candidates
  <2> HIDE DEF path
  <2>3. p \in Paths /\ Front(p) = path /\ IsPrefix(FlattenSeq(p), prompt)
    BY <2>1, <2>2, CandidateIs
  <2> HIDE DEF p
  <2>4. /\ Len(p) \in Nat /\ Len(Front(p)) = Len(p) - 1
        /\ \A j \in 1 .. Len(p) - 1 : Front(p)[j] = p[j]
    BY <2>3, FrontFacts, PathFacts
  <2>5. Len(path) = N /\ \A j \in 1 .. N : path[j] = Last(c[j])
    <3>1. CASE c = <<>>
      BY <1>1, <3>1 DEF path
    <3>2. CASE c # <<>>
      <4>1. N \in 1 .. N /\ path = c[N]
        BY <1>1, <3>2 DEF path, Last
      <4> QED
        BY <4>1 DEF Sensible
    <3> QED
      BY <3>1, <3>2
  <2>6. Len(p) = N + 1 /\ \A j \in 1 .. N : p[j] = Last(c[j])
    BY <1>1, <2>3, <2>4, <2>5
  <2>7. /\ d \in Seq(Paths) /\ Len(d) = N + 1 /\ d[N + 1] = p
        /\ \A j \in 1 .. N : d[j] = c[j]
    BY <1>1, <2>3
  <2>8. Last(d[N + 1]) = p[N + 1]
    BY <2>6, <2>7 DEF Last
  <2> HIDE DEF d
  <2>9. ASSUME NEW k \in 1 .. N + 1
        PROVE  /\ IsPrefix(FlattenSeq(d[k]), prompt)
               /\ Len(d[k]) = k
               /\ \A j \in 1 .. k : d[k][j] = Last(d[j])
    <3>1. CASE k = N + 1
      <4>1. ASSUME NEW j \in 1 .. k PROVE p[j] = Last(d[j])
        <5>1. CASE j = N + 1
          BY <2>8, <5>1
        <5>2. CASE j # N + 1
          <6>1. j \in 1 .. N
            BY <1>1, <3>1, <5>2
          <6> QED
            BY <2>6, <2>7, <6>1
        <5> QED
          BY <5>1, <5>2
      <4>2. d[k] = p
        BY <2>7, <3>1
      <4> QED
        BY <2>3, <2>6, <3>1, <4>1, <4>2
    <3>2. CASE k # N + 1
      <4>1. k \in 1 .. N /\ d[k] = c[k]
        BY <1>1, <2>7, <3>2
      <4>2. \A j \in 1 .. k : d[j] = c[j]
        BY <1>1, <2>7, <4>1
      <4> QED
        BY <4>1, <4>2 DEF Sensible
    <3> QED
      BY <3>1, <3>2
  <2>10. Sensible(d, prompt)
    BY <2>7, <2>9 DEF Sensible
  <2>11. Extended(prompt, c) = d
    BY <2>1 DEF d, p
  <2> QED
    BY <2>10, <2>11
<1>4. Extended(prompt, c) = c \/ \E i \in Candidates(prompt, path) : Extended(prompt, c) = Append(c, nodes[i].path)
  BY ExtendedIs
<1> QED
  BY <1>2, <1>3, <1>4

LEMMA MatchingSensible ==
  ASSUME NodesOK, NEW prompt \in Seq(Tokens)
  PROVE  Sensible(Matching(prompt), prompt)
<1>1. PICK f : Turns(f, prompt) /\ Matching(prompt) = f[Len(prompt)]
  BY MatchingIs
<1> DEFINE N == Len(prompt)
           P == {n \in 0 .. N : Sensible(f[n], prompt)}
<1>2. N \in Nat
  OBVIOUS
<1>3. 0 \in P
  <2>1. <<>> \in Seq(Paths) /\ Len(<<>>) = 0
    OBVIOUS
  <2>2. Sensible(<<>>, prompt)
    BY <2>1 DEF Sensible
  <2> QED
    BY <1>1, <1>2, <2>2 DEF Turns
<1>4. ASSUME NEW n \in 0 .. N - 1, n \in P
      PROVE  n + 1 \in P
  <2>1. n + 1 \in 1 .. N /\ n + 1 \in 0 .. N /\ (n + 1) - 1 = n
    BY <1>2
  <2>2. f[n + 1] = Extended(prompt, f[n])
    BY <1>1, <2>1 DEF Turns
  <2>3. Sensible(f[n], prompt)
    BY <1>4
  <2> QED
    BY <2>1, <2>2, <2>3, ExtendedKeeps
<1>5. 0 .. N \subseteq P
  <2> HIDE DEF P
  <2> QED
    BY <1>2, <1>3, <1>4, UpTo
<1>6. N \in P
  BY <1>2, <1>5
<1> QED
  BY <1>1, <1>6

LEMMA PrefixFollows == NodesOK => MatchIsPrefix
<1> SUFFICES ASSUME NodesOK, NEW prompt \in Prompts
             PROVE  LET chain == Matching(prompt)
                    IN  \A i \in DOMAIN chain :
                          /\ IsPrefix(FlattenSeq(chain[i]), prompt)
                          /\ chain[i] = [j \in 1 .. i |-> Last(chain[j])]
  BY DEF MatchIsPrefix
<1> DEFINE chain == Matching(prompt)
<1>1. Sensible(chain, prompt)
  BY MatchingSensible, ConnectorAssumption
<1> HIDE DEF chain
<1>2. chain \in Seq(Paths) /\ DOMAIN chain = 1 .. Len(chain) /\ Len(chain) \in Nat
  BY <1>1 DEF Sensible
<1>3. ASSUME NEW i \in DOMAIN chain
      PROVE  /\ IsPrefix(FlattenSeq(chain[i]), prompt)
             /\ chain[i] = [j \in 1 .. i |-> Last(chain[j])]
  <2>1. chain[i] \in Seq(Seq(Tokens)) /\ i \in 1 .. Len(chain)
    BY <1>2, PathFacts
  <2>2. /\ IsPrefix(FlattenSeq(chain[i]), prompt) /\ Len(chain[i]) = i
        /\ \A j \in 1 .. i : chain[i][j] = Last(chain[j])
    BY <1>1, <2>1 DEF Sensible
  <2>3. chain[i] = [j \in 1 .. i |-> chain[i][j]]
    BY <2>1, <2>2
  <2> QED
    BY <2>2, <2>3
<1> QED
  BY <1>3 DEF chain

\* Where no node is split, the only candidate on a path is the node that goes on
\* with it.
LEMMA OneCandidate ==
  ASSUME NodesOK, Unsplit, NEW prompt \in Seq(Tokens), NEW path,
         NEW i \in Candidates(prompt, path), NEW j \in Candidates(prompt, path)
  PROVE  i = j
<1> DEFINE p == nodes[i].path
           q == nodes[j].path
           n == Len(FlattenSeq(path)) + 1
<1>1. i \in DOMAIN nodes /\ j \in DOMAIN nodes
  BY DEF Candidates
<1>2. /\ p \in Paths /\ Front(p) = path /\ IsPrefix(FlattenSeq(p), prompt)
      /\ q \in Paths /\ Front(q) = path /\ IsPrefix(FlattenSeq(q), prompt)
  BY <1>1, CandidateIs
<1>3. ASSUME NEW r \in Paths, Front(r) = path, IsPrefix(FlattenSeq(r), prompt)
      PROVE  Head(Last(r)) = prompt[n]
  <2>1. /\ FlattenSeq(path) \in Seq(Tokens)
        /\ FlattenSeq(r) = FlattenSeq(path) \o Last(r)
    BY <1>3, FrontFacts
  <2>2. Last(r) \in Seq(Tokens) /\ Last(r) # <<>>
    BY PathFacts
  <2>3. Head(Last(r)) = Last(r)[1] /\ Len(Last(r)) >= 1 /\ Len(Last(r)) \in Nat
    BY <2>2
  <2>4. /\ FlattenSeq(r) \in Seq(Tokens) /\ n \in 1 .. Len(FlattenSeq(r))
        /\ FlattenSeq(r)[n] = Last(r)[1]
    BY <2>1, <2>2, <2>3
  <2>5. FlattenSeq(r)[n] = prompt[n]
    BY <1>3, <2>4, PrefixIs
  <2> QED
    BY <2>3, <2>4, <2>5
<1>4. Head(Last(p)) = prompt[n] /\ Head(Last(q)) = prompt[n]
  <2> HIDE DEF n, p, q
  <2> QED
    BY <1>2, <1>3
<1> QED
  BY <1>1, <1>2, <1>4 DEF Unsplit

\* The tokens of a path's first nodes begin those of the path.
LEMMA StartFits ==
  ASSUME NEW p \in Paths, NEW prompt \in Seq(Tokens), IsPrefix(FlattenSeq(p), prompt),
         NEW n \in 1 .. Len(p)
  PROVE  /\ IsPrefix(FlattenSeq(SubSeq(p, 1, n)), prompt)
         /\ Front(SubSeq(p, 1, n)) = SubSeq(p, 1, n - 1)
         /\ Len(p) <= Len(prompt)
<1>1. /\ p \in Seq(Seq(Tokens)) /\ Len(p) \in Nat /\ Len(p) >= 1
      /\ \A i \in 1 .. Len(p) : p[i] # <<>>
      /\ FlattenSeq(p) = First(p, Len(p))
  <2>1. FlattenSeq(p) = First(p, Len(p))
    BY FrontFacts
  <2> QED
    BY <2>1, PathFacts
<1>2. n \in 0 .. Len(p) /\ Len(p) \in 0 .. Len(p)
  BY <1>1
<1>3. IsPrefix(First(p, n), First(p, Len(p))) /\ Len(First(p, Len(p))) >= Len(p)
  BY <1>1, <1>2, FirstWithin
<1>4. First(p, n) \in Seq(Tokens) /\ First(p, Len(p)) \in Seq(Tokens)
  BY <1>1, <1>2, FirstIn
<1> DEFINE a == First(p, n)
           b == First(p, Len(p))
<1>5. a \in Seq(Tokens) /\ b \in Seq(Tokens) /\ IsPrefix(a, b) /\ IsPrefix(b, prompt)
      /\ Len(b) >= Len(p)
  BY <1>1, <1>3, <1>4
<1> HIDE DEF a, b
<1>6. /\ Len(a) <= Len(b) /\ \A i \in 1 .. Len(a) : a[i] = b[i]
      /\ Len(b) <= Len(prompt) /\ \A i \in 1 .. Len(b) : b[i] = prompt[i]
  BY <1>5, PrefixIs
<1>7. Len(a) \in Nat /\ Len(b) \in Nat /\ Len(prompt) \in Nat
  BY <1>5
<1>8. Len(a) <= Len(prompt) /\ \A i \in 1 .. Len(a) : a[i] = prompt[i]
  BY <1>6, <1>7
<1>9. IsPrefix(a, prompt)
  BY <1>5, <1>8, PrefixIs
<1>10. Front(SubSeq(p, 1, n)) = SubSeq(p, 1, n - 1)
  BY <1>1 DEF Front
<1>11. Len(p) <= Len(prompt)
  BY <1>1, <1>5, <1>6, <1>7
<1> QED
  BY <1>9, <1>10, <1>11 DEF a, First

LEMMA LongestFollows == NodesOK => MatchIsLongest
<1> SUFFICES ASSUME NodesOK, Unsplit, NEW prompt \in Prompts, NEW i \in DOMAIN nodes,
                    IsPrefix(FlattenSeq(nodes[i].path), prompt),
                    \A n \in 1 .. Len(nodes[i].path) : Known(SubSeq(nodes[i].path, 1, n))
             PROVE  nodes[i].path \in ToSet(Matching(prompt))
  BY DEF MatchIsLongest
<1> DEFINE path == nodes[i].path
           N == Len(prompt)
<1>1. prompt \in Seq(Tokens) /\ N \in Nat
  BY ConnectorAssumption
<1>2. path \in Paths
  BY <1>1, CandidateIs
<1>3. IsPrefix(FlattenSeq(path), prompt) /\ \A n \in 1 .. Len(path) : Known(SubSeq(path, 1, n))
  OBVIOUS
<1> HIDE DEF path
<1>4. path \in Seq(Seq(Tokens)) /\ Len(path) \in Nat /\ Len(path) >= 1 /\ Len(path) <= N
  <2>1. 1 \in 1 .. Len(path)
    BY <1>2, PathFacts
  <2> QED
    BY <1>1, <1>2, <1>3, <2>1, PathFacts, StartFits
<1>5. PICK f : Turns(f, prompt) /\ Matching(prompt) = f[N]
  BY <1>1, MatchingIs
<1> DEFINE Reaches(n) == Len(f[n]) = n /\ (n # 0 => f[n][n] = SubSeq(path, 1, n))
           P == {n \in 0 .. N :
                   /\ f[n] \in Seq(Paths)
                   /\ n <= Len(path) => Reaches(n)
                   /\ n >= Len(path) => \E k \in 1 .. Len(f[n]) : f[n][k] = path}
<1>6. SubSeq(path, 1, Len(path)) = path /\ SubSeq(path, 1, 0) = <<>>
  BY <1>4
\* The next node of the path is the one the turn takes.
<1>7. ASSUME NEW n \in 0 .. Len(path) - 1, NEW c \in Seq(Paths),
             Len(c) = n, n # 0 => c[n] = SubSeq(path, 1, n)
      PROVE  Extended(prompt, c) = Append(c, SubSeq(path, 1, n + 1))
  <2> DEFINE last == IF c = <<>> THEN <<>> ELSE Last(c)
             q == SubSeq(path, 1, n + 1)
  <2>1. n + 1 \in 1 .. Len(path) /\ (n + 1) - 1 = n
    BY <1>4
  <2>2. last = SubSeq(path, 1, n)
    <3>1. CASE n = 0
      BY <1>6, <1>7, <3>1
    <3>2. CASE n # 0
      BY <1>7, <3>2 DEF Last
    <3> QED
      BY <3>1, <3>2
  <2>3. Known(q) /\ IsPrefix(FlattenSeq(q), prompt) /\ Front(q) = SubSeq(path, 1, n)
    BY <1>1, <1>2, <1>3, <2>1, StartFits
  <2> HIDE DEF last, q
  <2>4. PICK k \in DOMAIN nodes : nodes[k].path = q
    BY <2>3 DEF Known
  <2>5. k \in Candidates(prompt, last)
    BY <1>1, <2>2, <2>3, <2>4, CandidateIs
  <2>6. PICK j \in Candidates(prompt, last) : Extended(prompt, c) = Append(c, nodes[j].path)
    <3>1. last = IF c = <<>> THEN <<>> ELSE Last(c)
      BY DEF last
    <3>2. Candidates(prompt, last) # {}
      BY <2>5
    <3> QED
      BY <1>1, <3>1, <3>2, ExtendedIs
  <2>7. j = k
    BY <1>1, <2>5, <2>6, OneCandidate
  <2> QED
    BY <2>4, <2>6, <2>7 DEF q
\* What a turn leaves of the chain.
<1>8. ASSUME NEW c \in Seq(Paths)
      PROVE  /\ Extended(prompt, c) \in Seq(Paths) /\ Len(Extended(prompt, c)) >= Len(c)
             /\ \A k \in 1 .. Len(c) : Extended(prompt, c)[k] = c[k]
  <2> DEFINE last == IF c = <<>> THEN <<>> ELSE Last(c)
  <2>1. \/ Extended(prompt, c) = c
        \/ \E j \in Candidates(prompt, last) : Extended(prompt, c) = Append(c, nodes[j].path)
    BY <1>1, ExtendedIs
  <2>2. ASSUME NEW j \in Candidates(prompt, last), Extended(prompt, c) = Append(c, nodes[j].path)
        PROVE  /\ Extended(prompt, c) \in Seq(Paths) /\ Len(Extended(prompt, c)) >= Len(c)
               /\ \A k \in 1 .. Len(c) : Extended(prompt, c)[k] = c[k]
    <3>1. j \in DOMAIN nodes
      BY DEF Candidates
    <3>2. nodes[j].path \in Paths
      BY <1>1, <3>1, CandidateIs
    <3> QED
      BY <2>2, <3>2
  <2> QED
    BY <2>1, <2>2
<1>9. 0 \in P
  <2>1. f[0] = <<>> /\ <<>> \in Seq(Paths) /\ Len(<<>>) = 0
    BY <1>5 DEF Turns
  <2>2. f[0] \in Seq(Paths) /\ Reaches(0)
    BY <2>1
  <2>3. 0 \in 0 .. N /\ ~(0 >= Len(path))
    BY <1>1, <1>4
  <2> HIDE DEF Reaches
  <2> QED
    BY <2>2, <2>3
<1>10. ASSUME NEW n \in 0 .. N - 1, n \in P
       PROVE  n + 1 \in P
  <2>1. n + 1 \in 1 .. N /\ n + 1 \in 0 .. N /\ (n + 1) - 1 = n /\ n \in Nat
    BY <1>1
  <2>2. f[n + 1] = Extended(prompt, f[n]) /\ f[n] \in Seq(Paths)
    BY <1>5, <1>10, <2>1 DEF Turns
  <2>3. CASE n < Len(path)
    <3>1. n \in 0 .. Len(path) - 1
      BY <1>4, <2>1, <2>3
    <3>2. Len(f[n]) = n /\ (n # 0 => f[n][n] = SubSeq(path, 1, n))
      BY <1>10, <2>1, <2>3
    <3>3. f[n + 1] = Append(f[n], SubSeq(path, 1, n + 1)) /\ f[n + 1] \in Seq(Paths)
      BY <1>7, <1>8, <2>2, <3>1, <3>2
    <3>4. Len(f[n + 1]) = n + 1 /\ f[n + 1][n + 1] = SubSeq(path, 1, n + 1)
      BY <2>2, <3>2, <3>3
    <3>5. n + 1 >= Len(path) => n + 1 = Len(path)
      BY <1>4, <2>1, <2>3
    <3>6. ASSUME n + 1 >= Len(path) PROVE \E k \in 1 .. Len(f[n + 1]) : f[n + 1][k] = path
      <4>1. n + 1 \in 1 .. Len(f[n + 1]) /\ f[n + 1][n + 1] = path
        <5>1. n + 1 = Len(path)
          BY <3>5, <3>6
        <5>2. SubSeq(path, 1, n + 1) = path
          BY <1>6, <5>1
        <5> QED
          BY <2>1, <3>4, <5>2
      <4> QED
        BY <4>1
    <3> QED
      BY <2>1, <3>3, <3>4, <3>6
  <2>4. CASE n >= Len(path)
    <3>1. PICK k \in 1 .. Len(f[n]) : f[n][k] = path
      BY <1>10, <2>4
    <3>2. /\ f[n + 1] \in Seq(Paths) /\ Len(f[n + 1]) >= Len(f[n]) /\ Len(f[n]) \in Nat
          /\ Len(f[n + 1]) \in Nat /\ f[n + 1][k] = path
      BY <1>8, <2>2, <3>1
    <3>3. k \in 1 .. Len(f[n + 1])
      BY <3>2
    <3>4. ~(n + 1 <= Len(path))
      BY <1>4, <2>1, <2>4
    <3> QED
      BY <2>1, <3>2, <3>3, <3>4
  <2> QED
    BY <1>4, <2>1, <2>3, <2>4
<1>11. 0 .. N \subseteq P
  <2> HIDE DEF P
  <2> QED
    BY <1>1, <1>9, <1>10, UpTo
<1>12. N \in P
  BY <1>1, <1>11
<1>13. PICK k \in 1 .. Len(f[N]) : f[N][k] = path
  BY <1>4, <1>12
<1>14. k \in DOMAIN f[N]
  BY <1>12
<1>15. path \in ToSet(Matching(prompt))
  BY <1>5, <1>13, <1>14 DEF ToSet
<1> QED
  BY <1>15 DEF path

-----------------------------------------------------------------------------
(* The theorems *)

\* The write head stays in the pool, and every offset the index keeps leaves room in
\* the pool for the node's slot.
THEOREM TypeCorrect == Spec => []TypeOK
<1>1. Inv => TypeOK
  <2> SUFFICES ASSUME Inv PROVE TypeOK
    OBVIOUS
  <2>1. DOMAIN ring.mem = 0 .. PoolSize - 1 /\ ring.head \in 0 .. PoolSize
    BY DEF Inv, Sound
  <2>2. ASSUME NEW i \in DOMAIN nodes
        PROVE  /\ nodes[i].path \in Paths
               /\ nodes[i].offsets \in [1 .. Layers -> 0 .. PoolSize - SlotOf(nodes[i].path)]
    <3>1. nodes[i] \in Node
      BY DEF Inv, NodesOK
    <3>2. nodes[i].path \in Paths /\ nodes[i].offsets \in [1 .. Layers -> Nat]
      BY <3>1 DEF Node
    <3>3. SlotOf(nodes[i].path) \in Nat /\ PoolSize \in Nat
      BY <3>2, PathFacts, RingAssumption
    <3>4. ASSUME NEW l \in 1 .. Layers
          PROVE  nodes[i].offsets[l] \in 0 .. PoolSize - SlotOf(nodes[i].path)
      <4>1. nodes[i].offsets[l] \in Nat
        BY <3>2
      <4>2. nodes[i].offsets[l] <= PoolSize - SlotOf(nodes[i].path)
        BY DEF Inv, NodesOK
      <4> QED
        BY <3>3, <4>1, <4>2
    <3> QED
      BY <3>2, <3>4
  <2> QED
    BY <2>1, <2>2 DEF Inv, NodesOK, TypeOK
<1> QED
  BY <1>1, InvAlways, PTL

\* write_paged_block loses a slot only by age: what no more than Window cells were
\* written since is whole, wherever the ring has wrapped.
THEOREM RecentIsIntact == Spec => []RecentIntact
<1>1. Inv => RecentIntact
  BY DEF Inv, Sound, Whole, RecentIntact
<1> QED
  BY <1>1, InvAlways, PTL

\* The node index points at the slot of a node's layer that was written last.
THEOREM IndexIsRecent == Spec => []IndexFindsRecent
<1>1. Inv => IndexFindsRecent
  BY DEF Inv
<1> QED
  BY <1>1, InvAlways, PTL

\* restore_prefix copies, for every matched node and layer whose last slot is within
\* the window, the cells that were written for that node and layer.
THEOREM NodeRestoreIsRight == Spec => RecentRestoreIsRight
<1> DEFINE Right(prompt) ==
             LET young == {s.of : s \in trail}
                 chain == Matching(prompt)
             IN  Restore(prompt) =>
                   \A i \in DOMAIN chain, l \in 1 .. Layers :
                     <<chain[i], l>> \in young =>
                       restored'.blocks[i][l] = PayloadOf(<<chain[i], l>>, Cells(Len(Last(chain[i]))))
<1>1. ASSUME Inv, NEW prompt \in Prompts
      PROVE  Right(prompt)
  <2> DEFINE chain == Matching(prompt)
             n(i) == Cells(Len(Last(chain[i])))
  <2> SUFFICES ASSUME Restore(prompt), NEW i \in DOMAIN chain, NEW l \in 1 .. Layers,
                      <<chain[i], l>> \in {s.of : s \in trail}
               PROVE  restored'.blocks[i][l] = PayloadOf(<<chain[i], l>>, n(i))
    OBVIOUS
  <2>1. restored'.blocks[i][l] = Payload(ring, OffsetsOf(chain[i])[l], n(i))
    BY DEF Restore
  <2> DEFINE p == chain[i]
  <2> HIDE DEF chain
  <2>2. PICK s \in trail : s.of = <<p, l>> /\ Youngest(s)
    BY <1>1, YoungestIs DEF Inv
  <2>3. s.of \in Blocks /\ s.at \in Nat /\ s.size \in Nat /\ Whole(ring, s)
    BY <1>1, RingAssumption DEF Inv, Sound, Slots
  <2>4. p \in Paths /\ s.of[1] = p /\ s.of[2] = l
    BY <2>2, <2>3 DEF Blocks
  <2>5. OffsetsOf(p)[l] = s.at
    BY <1>1, <2>2, <2>4 DEF Inv, IndexFindsRecent
  <2>6. s.size = SlotOf(p) /\ n(i) = s.size - 1
    BY <1>1, <2>4, PathFacts DEF Inv
  <2>7. ASSUME NEW k \in 1 .. n(i) PROVE ring.mem[s.at + k] = [of |-> <<p, l>>, at |-> k]
    <3>1. k \in 0 .. s.size - 1
      BY <2>3, <2>6
    <3> QED
      BY <2>2, <2>3, <3>1 DEF Whole
  <2> HIDE DEF n
  <2>8. Payload(ring, s.at, n(i)) = PayloadOf(<<p, l>>, n(i))
    BY <2>7 DEF Payload, PayloadOf
  <2> QED
    BY <2>1, <2>5, <2>8
<1> HIDE DEF Right
<1>2. Inv /\ [Next]_vars => [\A prompt \in Prompts : Right(prompt)]_vars
  BY <1>1
<1>3. RecentRestoreIsRight <=> [][\A prompt \in Prompts : Right(prompt)]_vars
  BY DEF RecentRestoreIsRight, Right
<1> QED
  BY <1>2, <1>3, InvAlways, PTL DEF Spec

\* find_matching_nodes returns a chain of nodes, each the parent of the next, whose
\* tokens the prompt begins with: what a restore reports as matched is what it read.
THEOREM MatchIsRight == Spec => []MatchIsPrefix
<1>1. Inv => MatchIsPrefix
  BY PrefixFollows DEF Inv
<1> QED
  BY <1>1, InvAlways, PTL

\* find_matching_nodes misses no node whose ancestors are all known, in whatever
\* order they were evicted, where the engine has split none.
THEOREM MatchMissesNothing == Spec => []MatchIsLongest
<1>1. Inv => MatchIsLongest
  BY LongestFollows DEF Inv
<1> QED
  BY <1>1, InvAlways, PTL

-----------------------------------------------------------------------------
(* vLLM: the blocks of a prompt, layer by layer *)

\* What a slot of the vLLM connector holds: a layer of the block a prefix ends with.
PrefixBlocks == Seq(Tokens) \X (1 .. Layers)

\* Rows of equal length end to end: where the rows begin, and that they do not meet.
LEMMA Rows ==
  ASSUME NEW n \in Nat, NEW i \in 1 .. n, NEW l \in 1 .. Layers
  PROVE  (i - 1) * Layers + l \in 1 .. n * Layers
<1>1. Layers \in Nat /\ Layers >= 1
  BY ConnectorAssumption
<1>2. \A x, y \in Nat : x * y \in Nat
  OBVIOUS
<1>3. n - i \in Nat /\ i - 1 \in Nat
  OBVIOUS
<1>4. (n - i) * Layers \in Nat /\ (i - 1) * Layers \in Nat
  BY <1>1, <1>2, <1>3
<1>5. n * Layers = (i - 1) * Layers + Layers + (n - i) * Layers
  BY <1>1, <1>3
<1> QED
  BY <1>1, <1>4, <1>5

\* The first n prefixes are written as q: every layer of each, in order.
InRows(q, new, n) ==
  /\ q \in Seq(PrefixBlocks) /\ Len(q) = n * Layers
  /\ \A i \in 1 .. n, l \in 1 .. Layers : q[(i - 1) * Layers + l] = <<new[i], l>>
  /\ \A j \in 1 .. n * Layers : \E i \in 1 .. n, l \in 1 .. Layers : j = (i - 1) * Layers + l

LEMMA LayersAre ==
  ASSUME NEW p \in Seq(Tokens)
  PROVE  /\ LayersOf(p) \in Seq(PrefixBlocks) /\ Len(LayersOf(p)) = Layers
         /\ \A l \in 1 .. Layers : LayersOf(p)[l] = <<p, l>>
<1>1. Layers \in Nat
  BY ConnectorAssumption
<1>2. \A l \in 1 .. Layers : <<p, l>> \in PrefixBlocks
  BY DEF PrefixBlocks
<1>3. LayersOf(p) \in [1 .. Layers -> PrefixBlocks]
  BY <1>2 DEF LayersOf
<1>4. LayersOf(p) \in Seq(PrefixBlocks)
  BY <1>1, <1>3
<1>5. DOMAIN LayersOf(p) = 1 .. Layers
  BY DEF LayersOf
<1>6. Len(LayersOf(p)) = Layers
  BY <1>1, <1>4, <1>5
<1> QED
  BY <1>4, <1>6 DEF LayersOf

\* One prefix more.
LEMMA OneMoreRow ==
  ASSUME NEW new \in Seq(Seq(Tokens)), NEW n \in Nat, n + 1 \in 1 .. Len(new),
         NEW q, InRows(q, new, n)
  PROVE  InRows(q \o LayersOf(new[n + 1]), new, n + 1)
<1> DEFINE p == new[n + 1]
           r == LayersOf(p)
           t == q \o r
           K == n * Layers
<1>1. /\ p \in Seq(Tokens) /\ Layers \in Nat /\ Layers >= 1
      /\ q \in Seq(PrefixBlocks) /\ Len(q) = K
  BY ConnectorAssumption DEF InRows
<1>2. r \in Seq(PrefixBlocks) /\ Len(r) = Layers /\ \A l \in 1 .. Layers : r[l] = <<p, l>>
  BY <1>1, LayersAre
<1>3. K \in Nat /\ (n + 1) * Layers = K + Layers /\ ((n + 1) - 1) * Layers = K
  <2>1. \A x, y \in Nat : x * y \in Nat
    OBVIOUS
  <2>2. K \in Nat
    BY <1>1, <2>1
  <2>3. (n + 1) * Layers = K + Layers /\ (n + 1) - 1 = n
    BY <1>1
  <2> QED
    BY <2>2, <2>3
<1> HIDE DEF r, K
<1>4. /\ t \in Seq(PrefixBlocks) /\ Len(t) = K + Layers
      /\ \A j \in 1 .. K : t[j] = q[j]
      /\ \A l \in 1 .. Layers : t[K + l] = r[l]
  <2>1. t \in Seq(PrefixBlocks)
    BY <1>1, <1>2
  <2>2. /\ Len(t) = Len(q) + Len(r)
        /\ \A j \in 1 .. Len(q) + Len(r) :
             t[j] = IF j <= Len(q) THEN q[j] ELSE r[j - Len(q)]
    BY <1>1, <1>2, ConcatProperties
  <2> HIDE DEF t
  <2>3. ASSUME NEW l \in 1 .. Layers PROVE t[K + l] = r[l]
    <3>1. K + l \in 1 .. Len(q) + Len(r) /\ ~(K + l <= Len(q)) /\ (K + l) - Len(q) = l
      BY <1>1, <1>2, <1>3
    <3> QED
      BY <2>2, <3>1
  <2>4. ASSUME NEW j \in 1 .. K PROVE t[j] = q[j]
    BY <1>1, <1>2, <1>3, <2>2
  <2> QED
    BY <1>1, <1>2, <1>3, <2>1, <2>2, <2>3, <2>4
<1> HIDE DEF t, p
<1>5. ASSUME NEW i \in 1 .. n + 1, NEW l \in 1 .. Layers
      PROVE  t[(i - 1) * Layers + l] = <<new[i], l>>
  <2>1. CASE i = n + 1
    BY <1>2, <1>3, <1>4, <2>1 DEF p
  <2>2. CASE i # n + 1
    <3>1. i \in 1 .. n
      BY <2>2
    <3>2. (i - 1) * Layers + l \in 1 .. K
      BY <3>1, Rows DEF K
    <3>3. q[(i - 1) * Layers + l] = <<new[i], l>>
      BY <3>1 DEF InRows
    <3> QED
      BY <1>4, <3>2, <3>3
  <2> QED
    BY <2>1, <2>2
<1>6. ASSUME NEW j \in 1 .. (n + 1) * Layers
      PROVE  \E i \in 1 .. n + 1, l \in 1 .. Layers : j = (i - 1) * Layers + l
  <2>1. CASE j <= K
    <3>1. j \in 1 .. n * Layers
      BY <1>3, <2>1 DEF K
    <3>2. PICK i \in 1 .. n, l \in 1 .. Layers : j = (i - 1) * Layers + l
      BY <3>1 DEF InRows
    <3>3. i \in 1 .. n + 1
      OBVIOUS
    <3> QED
      BY <3>2, <3>3
  <2>2. CASE j > K
    <3>1. j - K \in 1 .. Layers /\ j = K + (j - K)
      BY <1>1, <1>3, <2>2
    <3>2. n + 1 \in 1 .. n + 1
      OBVIOUS
    <3> QED
      BY <1>3, <3>1, <3>2
  <2> QED
    BY <1>3, <2>1, <2>2
<1>7. t \in Seq(PrefixBlocks) /\ Len(t) = (n + 1) * Layers
  BY <1>3, <1>4
<1>8. InRows(t, new, n + 1)
  BY <1>5, <1>6, <1>7 DEF InRows
<1> QED
  BY <1>8 DEF t, r, p

\* What send_kv_caches_and_hidden_states writes: every layer of every prefix in order.
LEMMA StoredIs ==
  ASSUME NEW new \in Seq(Seq(Tokens))
  PROVE  InRows(Stored(new), new, Len(new))
<1> DEFINE N == Len(new)
           s == [i \in DOMAIN new |-> LayersOf(new[i])]
<1>1. N \in Nat /\ DOMAIN new = 1 .. N /\ \A i \in 1 .. N : new[i] \in Seq(Tokens)
  OBVIOUS
<1>2. s \in Seq(Seq(PrefixBlocks)) /\ Len(s) = N /\ \A i \in 1 .. N : s[i] = LayersOf(new[i])
  <2>1. \A i \in 1 .. N : LayersOf(new[i]) \in Seq(PrefixBlocks)
    BY <1>1, LayersAre
  <2>2. s \in [1 .. N -> Seq(PrefixBlocks)]
    BY <1>1, <2>1
  <2>3. s \in Seq(Seq(PrefixBlocks))
    BY <1>1, <2>2
  <2>4. DOMAIN s = 1 .. N
    BY <1>1
  <2>5. Len(s) = N
    BY <1>1, <2>3, <2>4
  <2> QED
    BY <1>1, <2>3, <2>5
<1>3. Stored(new) = FlattenSeq(s)
  BY DEF Stored
<1>4. Layers \in Nat /\ 0 * Layers = 0
  BY ConnectorAssumption
<1> HIDE DEF s
<1>5. InRows(<<>>, new, 0)
  BY <1>4 DEF InRows
<1>6. CASE N = 0
  <2>1. FlattenSeq(s) = <<>>
    <3>1. s = <<>>
      BY <1>2, <1>6
    <3>2. Len(s) = 0
      BY <1>2, <1>6
    <3> QED
      BY <3>1, <3>2 DEF FlattenSeq
  <2> QED
    BY <1>3, <1>5, <1>6, <2>1
<1>7. CASE N # 0
  <2>1. PICK f : Ends(f, s) /\ FlattenSeq(s) = f[N]
    <3>1. Len(s) >= 1
      BY <1>1, <1>2, <1>7
    <3> QED
      BY <1>2, <3>1, FlattenIs
  <2> DEFINE P == {n \in 0 .. N : n = 0 \/ InRows(f[n], new, n)}
  <2>2. 0 \in P
    BY <1>1
  <2>3. ASSUME NEW n \in 0 .. N - 1, n \in P
        PROVE  n + 1 \in P
    <3>1. n \in Nat /\ n + 1 \in 1 .. N /\ n + 1 \in 0 .. N /\ (n + 1) - 1 = n
      BY <1>1
    <3>2. CASE n = 0
      <4>1. InRows(<<>> \o LayersOf(new[n + 1]), new, n + 1)
        BY <1>5, <3>1, <3>2, OneMoreRow
      <4>2. <<>> \o LayersOf(new[n + 1]) = LayersOf(new[n + 1])
        <5>1. LayersOf(new[n + 1]) \in Seq(PrefixBlocks)
          BY <1>1, <3>1, LayersAre
        <5> QED
          BY <5>1
      <4>3. f[n + 1] = LayersOf(new[n + 1])
        BY <1>2, <2>1, <3>1, <3>2 DEF Ends
      <4> QED
        BY <3>1, <4>1, <4>2, <4>3
    <3>3. CASE n # 0
      <4>1. InRows(f[n], new, n)
        BY <2>3, <3>3
      <4>2. n + 1 \in 2 .. Len(s)
        BY <1>1, <1>2, <3>1, <3>3
      <4>3. f[n + 1] = f[n] \o LayersOf(new[n + 1])
        BY <1>2, <2>1, <3>1, <4>2 DEF Ends
      <4>4. InRows(f[n] \o LayersOf(new[n + 1]), new, n + 1)
        BY <3>1, <4>1, OneMoreRow
      <4> QED
        BY <3>1, <4>3, <4>4
    <3> QED
      BY <3>2, <3>3
  <2>4. 0 .. N \subseteq P
    <3> HIDE DEF P
    <3> QED
      BY <1>1, <2>2, <2>3, UpTo
  <2> QED
    BY <1>1, <1>3, <1>7, <2>1, <2>4
<1> QED
  BY <1>6, <1>7

-----------------------------------------------------------------------------
(* vLLM: the blocks of a prompt that are not known *)

LEMMA HashesAre ==
  ASSUME NEW prompt \in Seq(Tokens), NEW b \in 1 .. Len(prompt)
  PROVE  /\ Hashes(prompt)[b] = SubSeq(prompt, 1, b)
         /\ Hashes(prompt)[b] \in Seq(Tokens) /\ Len(Hashes(prompt)[b]) = b
<1>1. Hashes(prompt)[b] = SubSeq(prompt, 1, b)
  BY DEF Hashes
<1>2. SubSeq(prompt, 1, b) \in Seq(Tokens) /\ Len(SubSeq(prompt, 1, b)) = b
  OBVIOUS
<1> QED
  BY <1>1, <1>2

\* The loop of send, hash after hash: f[b] are the missing ones of the first b.
Lookups(f, prompt) ==
  /\ f[0] = <<>>
  /\ \A b \in 1 .. Len(prompt) :
       f[b] = IF Hashes(prompt)[b] \in DOMAIN index THEN f[b - 1]
              ELSE Append(f[b - 1], Hashes(prompt)[b])

LEMMA MissingIs ==
  ASSUME NEW prompt \in Seq(Tokens)
  PROVE  \E f : Lookups(f, prompt) /\ Missing(prompt) = f[Len(prompt)]
<1> DEFINE N == Len(prompt)
           H == Hashes(prompt)
           Is(f, n) == f = [b \in 0 .. n |-> IF b = 0 THEN <<>>
                                             ELSE IF H[b] \in DOMAIN index THEN f[b - 1]
                                             ELSE Append(f[b - 1], H[b])]
           P == {n \in 0 .. N : \E f : Is(f, n)}
<1>1. N \in Nat
  OBVIOUS
<1>2. 0 \in P
  <2> DEFINE g == [b \in 0 .. 0 |-> <<>>]
  <2>1. Is(g, 0) /\ 0 \in 0 .. N
    BY <1>1
  <2> HIDE DEF Is, g
  <2> QED
    BY <2>1
<1>3. ASSUME NEW n \in 0 .. N - 1, n \in P
      PROVE  n + 1 \in P
  <2>1. PICK f : Is(f, n)
    BY <1>3
  <2> DEFINE more == IF H[n + 1] \in DOMAIN index THEN f[n] ELSE Append(f[n], H[n + 1])
             g == [b \in 0 .. n + 1 |-> IF b = n + 1 THEN more ELSE f[b]]
  <2> HIDE DEF H
  <2>2. ASSUME NEW b \in 0 .. n + 1
        PROVE  g[b] = IF b = 0 THEN <<>>
                      ELSE IF H[b] \in DOMAIN index THEN g[b - 1] ELSE Append(g[b - 1], H[b])
    <3>1. CASE b = 0
      BY <2>1, <3>1
    <3>2. CASE b = n + 1
      <4>1. g[b] = more /\ b - 1 = n /\ b # 0
        BY <3>2
      <4>2. g[n] = f[n]
        OBVIOUS
      <4> QED
        BY <3>2, <4>1, <4>2
    <3>3. CASE b # 0 /\ b # n + 1
      <4>1. b \in 0 .. n /\ b - 1 \in 0 .. n
        BY <3>3
      <4>2. g[b] = f[b] /\ g[b - 1] = f[b - 1]
        BY <4>1, <3>3
      <4> HIDE DEF g
      <4> QED
        BY <2>1, <3>3, <4>1, <4>2
    <3> QED
      BY <3>1, <3>2, <3>3
  <2>3. Is(g, n + 1)
    <3> HIDE DEF g
    <3>1. g = [b \in 0 .. n + 1 |-> g[b]]
      BY DEF g
    <3> QED
      BY <2>2, <3>1
  <2>4. n + 1 \in 0 .. N
    BY <1>1
  <2> HIDE DEF Is, g
  <2> QED
    BY <2>3, <2>4
<1>4. N \in P
  <2> HIDE DEF P
  <2>1. 0 .. N \subseteq P
    BY <1>1, <1>2, <1>3, UpTo
  <2> QED
    BY <1>1, <2>1
<1> DEFINE h == CHOOSE f : Is(f, N)
<1>5. Is(h, N)
  BY <1>4
<1>6. Missing(prompt) = h[N]
  BY DEF Missing
<1>7. Lookups(h, prompt)
  <2> HIDE DEF h
  <2>1. h[0] = <<>>
    BY <1>1, <1>5
  <2>2. ASSUME NEW b \in 1 .. N
        PROVE  h[b] = IF H[b] \in DOMAIN index THEN h[b - 1] ELSE Append(h[b - 1], H[b])
    <3>1. b \in 0 .. N /\ b # 0
      BY <1>1
    <3> HIDE DEF H
    <3> QED
      BY <1>5, <3>1
  <2> QED
    BY <2>1, <2>2 DEF Lookups
<1> HIDE DEF h
<1> QED
  BY <1>6, <1>7

\* What send finds missing: every unknown block of the prompt, once.
LEMMA MissingFacts ==
  ASSUME NEW prompt \in Seq(Tokens)
  PROVE  /\ Missing(prompt) \in Seq(Seq(Tokens)) /\ NoRepeat(Missing(prompt))
         /\ Elems(Missing(prompt)) =
              {h \in {Hashes(prompt)[b] : b \in 1 .. Len(prompt)} : h \notin DOMAIN index}
<1> DEFINE N == Len(prompt)
           H == Hashes(prompt)
           Unknown(n) == {h \in {H[b] : b \in 1 .. n} : h \notin DOMAIN index}
<1>1. PICK f : Lookups(f, prompt) /\ Missing(prompt) = f[N]
  BY MissingIs
<1> DEFINE P == {n \in 0 .. N : f[n] \in Seq(Seq(Tokens)) /\ NoRepeat(f[n]) /\ Elems(f[n]) = Unknown(n)}
<1>2. N \in Nat
  OBVIOUS
<1>3. \A b \in 1 .. N : H[b] \in Seq(Tokens) /\ Len(H[b]) = b
  BY HashesAre
<1> HIDE DEF H
<1>4. 0 \in P
  <2>1. f[0] = <<>>
    BY <1>1 DEF Lookups
  <2>2. <<>> \in Seq(Seq(Tokens)) /\ NoRepeat(<<>>) /\ Elems(<<>>) = {}
    BY DEF NoRepeat, Elems
  <2>3. Unknown(0) = {}
    OBVIOUS
  <2> HIDE DEF Unknown
  <2>4. Elems(f[0]) = Unknown(0) /\ f[0] \in Seq(Seq(Tokens)) /\ NoRepeat(f[0])
    BY <2>1, <2>2, <2>3
  <2> QED
    BY <1>2, <2>4
<1>5. ASSUME NEW n \in 0 .. N - 1, n \in P
      PROVE  n + 1 \in P
  <2> DEFINE h == H[n + 1]
  <2>1. /\ n + 1 \in 1 .. N /\ n + 1 \in 0 .. N /\ (n + 1) - 1 = n
        /\ \A b \in 1 .. n + 1 : b \in 1 .. n \/ b = n + 1
        /\ \A b \in 1 .. n : b \in 1 .. N /\ b # n + 1
    BY <1>2
  <2>2. h \in Seq(Tokens) /\ f[n] \in Seq(Seq(Tokens)) /\ NoRepeat(f[n]) /\ Elems(f[n]) = Unknown(n)
    BY <1>3, <1>5, <2>1
  <2>3. f[n + 1] = IF h \in DOMAIN index THEN f[n] ELSE Append(f[n], h)
    BY <1>1, <2>1 DEF Lookups, H
  <2>4. {H[b] : b \in 1 .. n + 1} = {H[b] : b \in 1 .. n} \cup {h}
    BY <1>2, <2>1
  <2>5. CASE h \in DOMAIN index
    <3>1. Unknown(n + 1) = Unknown(n)
      BY <2>4, <2>5
    <3> QED
      BY <2>1, <2>2, <2>3, <2>5, <3>1
  <2>6. CASE h \notin DOMAIN index
    <3>1. Unknown(n + 1) = Unknown(n) \cup {h}
      BY <2>4, <2>6
    <3>2. h \notin Unknown(n)
      BY <1>3, <2>1
    <3> HIDE DEF h, Unknown
    <3>3. Elems(Append(f[n], h)) = Elems(f[n]) \cup {h} /\ NoRepeat(Append(f[n], h))
      BY <2>2, <3>2, AppendElems
    <3>4. Append(f[n], h) \in Seq(Seq(Tokens))
      BY <2>2
    <3>5. f[n + 1] = Append(f[n], h)
      BY <2>3, <2>6
    <3> QED
      BY <2>1, <2>2, <3>1, <3>3, <3>4, <3>5
  <2> QED
    BY <2>5, <2>6
<1>6. N \in P
  <2> HIDE DEF P
  <2>1. 0 .. N \subseteq P
    BY <1>2, <1>4, <1>5, UpTo
  <2> QED
    BY <1>2, <2>1
<1> QED
  BY <1>1, <1>6 DEF H

-----------------------------------------------------------------------------
(* vLLM: the inductive invariant *)

VllmInv ==
  /\ Sound(PrefixBlocks, ring, trail)
  /\ \A s \in trail : s.size = Slot
  /\ \A h \in DOMAIN index : index[h] \in [1 .. Layers -> 0 .. PoolSize - Slot]
  /\ OffsetsFindRecent
  /\ offered \subseteq Prompts
  /\ \A prompt \in offered : \A b \in 1 .. Len(prompt) : Hashes(prompt)[b] \in DOMAIN index

LEMMA VllmInvInit == VllmInit => VllmInv
<1> SUFFICES ASSUME VllmInit PROVE VllmInv
  OBVIOUS
<1>1. /\ ring.head = 0 /\ DOMAIN ring.mem = 0 .. PoolSize - 1 /\ trail = {}
      /\ DOMAIN index = {} /\ offered = {}
  BY DEF VllmInit, RingInit
<1>2. Sound(PrefixBlocks, ring, trail)
  BY <1>1, RingAssumption DEF Sound
<1> QED
  BY <1>1, <1>2 DEF VllmInv, OffsetsFindRecent

\* What Send does to the index: what was known stays, and each missing block gets the
\* offsets its layers were written at.
LEMMA SendIndexes ==
  ASSUME NEW prompt \in Seq(Tokens), Send(prompt)
  PROVE  LET new == Missing(prompt)
             O == Offsets(ring, Stored(new), Slot)
         IN  /\ DOMAIN index' = DOMAIN index \cup Elems(new)
             /\ \A h \in DOMAIN index : index'[h] = index[h]
             /\ \A i \in 1 .. Len(new) :
                  /\ new[i] \in DOMAIN index' /\ new[i] \notin DOMAIN index
                  /\ index'[new[i]] = [l \in 1 .. Layers |-> O[(i - 1) * Layers + l]]
<1> DEFINE new == Missing(prompt)
           O == Offsets(ring, Stored(new), Slot)
           At(h) == CHOOSE i \in DOMAIN new : new[i] = h
           entry(h) == [l \in 1 .. Layers |-> O[(At(h) - 1) * Layers + l]]
<1>1. index' = [h \in DOMAIN index \cup ToSet(new) |->
                  IF h \in DOMAIN index THEN index[h] ELSE entry(h)]
  BY DEF Send
<1>2. ToSet(new) = Elems(new)
  BY DEF ToSet, Elems
<1>3. new \in Seq(Seq(Tokens)) /\ NoRepeat(new) /\ \A h \in Elems(new) : h \notin DOMAIN index
  BY MissingFacts
<1>4. DOMAIN new = 1 .. Len(new)
  BY <1>3
<1>5. ASSUME NEW i \in 1 .. Len(new)
      PROVE  new[i] \in Elems(new) /\ entry(new[i]) = [l \in 1 .. Layers |-> O[(i - 1) * Layers + l]]
  <2>1. new[i] \in Elems(new)
    BY <1>4 DEF Elems
  <2>2. At(new[i]) = i
    BY <1>3, <1>4 DEF NoRepeat
  <2> HIDE DEF At, new, O
  <2>3. entry(new[i]) = [l \in 1 .. Layers |-> O[(i - 1) * Layers + l]]
    BY <2>2
  <2> QED
    BY <2>1, <2>3
<1> HIDE DEF entry, new, O
<1>6. /\ DOMAIN index' = DOMAIN index \cup Elems(new)
      /\ \A h \in DOMAIN index : index'[h] = index[h]
      /\ \A h \in Elems(new) : index'[h] = entry(h)
  BY <1>1, <1>2, <1>3
<1> QED
  BY <1>3, <1>5, <1>6 DEF new, O

LEMMA SendKeeps ==
  ASSUME VllmInv, NEW prompt \in Prompts, Send(prompt)
  PROVE  VllmInv'
<1> DEFINE new == Missing(prompt)
           xs == Stored(new)
           O == Offsets(ring, xs, Slot)
           N == Len(new)
<1>1. prompt \in Seq(Tokens) /\ new \in Seq(Seq(Tokens)) /\ N \in Nat
  BY ConnectorAssumption, MissingFacts
<1>2. InRows(xs, new, N)
  BY <1>1, StoredIs
<1>3. Slot \in 1 .. MaxSlot
  BY VllmAssumption, RingAssumption DEF Slot, ReadWidth
<1>4. /\ DOMAIN index' = DOMAIN index \cup Elems(new)
      /\ \A h \in DOMAIN index : index'[h] = index[h]
      /\ \A i \in 1 .. N :
           /\ new[i] \in DOMAIN index' /\ new[i] \notin DOMAIN index
           /\ index'[new[i]] = [l \in 1 .. Layers |-> O[(i - 1) * Layers + l]]
  BY <1>1, SendIndexes
<1>5. WriteAll(xs, Slot) /\ offered' = offered \cup {prompt}
  BY DEF Send
<1>6. Elems(new) = {h \in {Hashes(prompt)[b] : b \in 1 .. Len(prompt)} : h \notin DOMAIN index}
  BY <1>1, MissingFacts
<1> HIDE DEF new, xs
<1>7. /\ Len(xs) \in Nat /\ DOMAIN xs = 1 .. Len(xs) /\ Len(xs) = N * Layers
      /\ \A j \in 1 .. Len(xs) : xs[j] \in PrefixBlocks
  BY <1>2 DEF InRows
<1>8. Sound(PrefixBlocks, ring, trail)
  BY DEF VllmInv
<1>9. /\ Sound(PrefixBlocks, ring', trail')
      /\ \A j \in 1 .. Len(xs) : O[j] \in 0 .. PoolSize - Slot
  BY <1>3, <1>5, <1>7, <1>8, WriteAllKeeps
<1>10. PICK d \in Nat : Older(trail, xs, O, trail', Slot, Len(xs), d)
  BY <1>3, <1>5, <1>7, <1>8, WriteAllTrail
<1> HIDE DEF O, N
<1>11. \A s \in trail' :
         \/ \E j \in 1 .. Len(xs) : s.of = xs[j] /\ s.at = O[j] /\ s.size = Slot
         \/ \E u \in trail : s.of = u.of /\ s.at = u.at /\ s.size = u.size
  BY <1>10 DEF Older
<1>12. \A s \in trail' : s.size = Slot
  BY <1>11 DEF VllmInv
<1>13. \A h \in DOMAIN index' : index'[h] \in [1 .. Layers -> 0 .. PoolSize - Slot]
  <2>1. ASSUME NEW i \in 1 .. N
        PROVE  index'[new[i]] \in [1 .. Layers -> 0 .. PoolSize - Slot]
    <3>1. \A l \in 1 .. Layers : (i - 1) * Layers + l \in 1 .. Len(xs)
      BY <1>1, <1>7, Rows
    <3>2. \A l \in 1 .. Layers : O[(i - 1) * Layers + l] \in 0 .. PoolSize - Slot
      BY <1>9, <3>1
    <3> QED
      BY <1>4, <3>2
  <2>2. \A h \in Elems(new) : \E i \in 1 .. N : h = new[i]
    BY <1>1 DEF Elems, N
  <2>3. \A h \in DOMAIN index : index'[h] \in [1 .. Layers -> 0 .. PoolSize - Slot]
    BY <1>4 DEF VllmInv
  <2> QED
    BY <1>4, <2>1, <2>2, <2>3
<1>14. ASSUME NEW s \in trail'
       PROVE  s.of[1] \in DOMAIN index' /\ index'[s.of[1]][s.of[2]] = s.at
  <2>1. CASE \E j \in 1 .. Len(xs) : s.of = xs[j] /\ s.at = O[j] /\ s.size = Slot
    <3>1. PICK j \in 1 .. Len(xs) : s.of = xs[j] /\ s.at = O[j]
      BY <2>1
    <3>2. PICK i \in 1 .. N, l \in 1 .. Layers : j = (i - 1) * Layers + l
      BY <1>2, <1>7 DEF InRows
    <3>3. xs[j] = <<new[i], l>>
      BY <1>2, <3>2 DEF InRows
    <3>4. s.of[1] = new[i] /\ s.of[2] = l
      BY <3>1, <3>3
    <3>5. new[i] \in DOMAIN index' /\ index'[new[i]][l] = O[(i - 1) * Layers + l]
      BY <1>4
    <3> QED
      BY <3>1, <3>2, <3>4, <3>5
  <2>2. CASE \E u \in trail : s.of = u.of /\ s.at = u.at /\ s.size = u.size
    <3>1. PICK u \in trail : s.of = u.of /\ s.at = u.at
      BY <2>2
    <3>2. u.of[1] \in DOMAIN index /\ index[u.of[1]][u.of[2]] = u.at
      BY DEF VllmInv, OffsetsFindRecent
    <3> QED
      BY <1>4, <3>1, <3>2
  <2> QED
    BY <1>11, <2>1, <2>2
<1>15. ASSUME NEW p \in offered', NEW b \in 1 .. Len(p)
       PROVE  Hashes(p)[b] \in DOMAIN index'
  <2>1. CASE p = prompt
    BY <1>4, <1>6, <2>1
  <2>2. CASE p \in offered
    BY <1>4, <2>2 DEF VllmInv
  <2> QED
    BY <1>5, <2>1, <2>2
<1>16. OffsetsFindRecent'
  BY <1>14 DEF OffsetsFindRecent
<1>17. offered' \subseteq Prompts
  BY <1>5 DEF VllmInv
<1>18. \A p \in offered' : \A b \in 1 .. Len(p) : Hashes(p)'[b] \in DOMAIN index'
  BY <1>15 DEF Hashes
<1> QED
  BY <1>9, <1>12, <1>13, <1>16, <1>17, <1>18 DEF VllmInv

LEMMA VllmInvStep == VllmInv /\ [VllmNext]_vllmVars => VllmInv'
<1> SUFFICES ASSUME VllmInv, [VllmNext]_vllmVars PROVE VllmInv'
  OBVIOUS
<1>1. ASSUME NEW prompt \in Prompts, Send(prompt) PROVE VllmInv'
  BY <1>1, SendKeeps
<1>2. CASE UNCHANGED <<ring, trail, index, offered>>
  <2>1. OffsetsFindRecent'
    BY <1>2 DEF VllmInv, OffsetsFindRecent
  <2>2. \A prompt \in offered' : \A b \in 1 .. Len(prompt) : Hashes(prompt)'[b] \in DOMAIN index'
    BY <1>2 DEF VllmInv, Hashes
  <2> QED
    BY <1>2, <2>1, <2>2 DEF VllmInv
<1>3. ASSUME NEW prompt \in Prompts, Receive(prompt) PROVE VllmInv'
  BY <1>2, <1>3 DEF Receive
<1>4. CASE UNCHANGED vllmVars
  BY <1>2, <1>4 DEF vllmVars
<1> QED
  BY <1>1, <1>3, <1>4 DEF VllmNext

LEMMA VllmInvAlways == VllmSpec => []VllmInv
BY VllmInvInit, VllmInvStep, PTL DEF VllmSpec

-----------------------------------------------------------------------------
(* vLLM: what the invariant gives *)

\* find_longest_prefix returns blocks the index knows, and all of them where it knows all.
LEMMA MatchedIs ==
  ASSUME NEW prompt \in Seq(Tokens)
  PROVE  /\ Matched(prompt) \in 0 .. Len(prompt)
         /\ \A b \in 1 .. Matched(prompt) : Hashes(prompt)[b] \in DOMAIN index
         /\ (\A b \in 1 .. Len(prompt) : Hashes(prompt)[b] \in DOMAIN index) =>
              Matched(prompt) = Len(prompt)
<1> DEFINE U == {b \in 1 .. Len(prompt) : Hashes(prompt)[b] \notin DOMAIN index}
           first == CHOOSE b \in U : \A c \in U : b <= c
<1>1. Len(prompt) \in Nat /\ U \in SUBSET Nat
  OBVIOUS
<1>2. Matched(prompt) = IF U = {} THEN Len(prompt) ELSE first - 1
  BY DEF Matched
<1>3. CASE U = {}
  BY <1>1, <1>2, <1>3
<1>4. CASE U # {}
  <2>1. \E b \in U : \A c \in U : b <= c
    <3> HIDE DEF U
    <3> QED
      BY <1>1, <1>4, LeastOf
  <2>2. first \in U /\ \A c \in U : first <= c
    BY <2>1
  <2>3. first \in 1 .. Len(prompt) /\ Hashes(prompt)[first] \notin DOMAIN index
    BY <2>2
  <2> HIDE DEF first
  <2>4. ASSUME NEW b \in 1 .. first - 1 PROVE Hashes(prompt)[b] \in DOMAIN index
    <3>1. b \in 1 .. Len(prompt) /\ ~(first <= b)
      BY <1>1, <2>3
    <3> QED
      BY <2>2, <3>1
  <2>5. Matched(prompt) = first - 1
    BY <1>2, <1>4
  <2>6. first - 1 \in 0 .. Len(prompt)
    BY <1>1, <2>3
  <2> QED
    BY <2>3, <2>4, <2>5, <2>6
<1> QED
  BY <1>3, <1>4

\* Send keeps the offsets of the index inside the ring, and offers prompts only: a
\* restore never reads behind the buffer.
THEOREM VllmTypeCorrect == VllmSpec => []VllmTypeOK
<1>1. VllmInv => VllmTypeOK
  BY DEF VllmInv, VllmTypeOK, Sound
<1> QED
  BY <1>1, VllmInvAlways, PTL

\* The ring under send loses a block only by age.
THEOREM VllmRecentIsIntact == VllmSpec => []RecentIntact
<1>1. VllmInv => RecentIntact
  BY DEF VllmInv, Sound, Whole, RecentIntact
<1> QED
  BY <1>1, VllmInvAlways, PTL

\* The prefix index has every block that is within the window, at the offset that the
\* block was written at.
THEOREM OffsetsAreRecent == VllmSpec => []OffsetsFindRecent
<1>1. VllmInv => OffsetsFindRecent
  BY DEF VllmInv
<1> QED
  BY <1>1, VllmInvAlways, PTL

\* send leaves no hole in the index: find_longest_prefix matches a prompt that was
\* offloaded to its last full block.
THEOREM OffloadedStaysMatched == VllmSpec => []OffloadedIsMatched
<1>1. VllmInv => OffloadedIsMatched
  BY ConnectorAssumption, MatchedIs DEF VllmInv, OffloadedIsMatched
<1> QED
  BY <1>1, VllmInvAlways, PTL

\* recv_kv_caches_and_hidden_states copies, for every matched block and layer within the
\* window, the cells that were written for it, where the caches are of two bytes an
\* element: read_paged_block is not told of any other width.
THEOREM BlockRestoreIsRight ==
  ASSUME Width = ReadWidth
  PROVE  VllmSpec => RecentBlocksAreRight
<1> DEFINE Right(prompt) ==
             LET young == {s.of : s \in trail}
             IN  Receive(prompt) =>
                   \A b \in DOMAIN restored'.blocks, l \in 1 .. Layers :
                     <<SubSeq(prompt, 1, b), l>> \in young =>
                       restored'.blocks[b][l] = PayloadOf(<<SubSeq(prompt, 1, b), l>>, 2 * Width)
<1>1. ASSUME VllmInv, NEW prompt \in Prompts
      PROVE  Right(prompt)
  <2> DEFINE p(b) == SubSeq(prompt, 1, b)
             n == 2 * Width
  <2> SUFFICES ASSUME Receive(prompt), NEW b \in DOMAIN restored'.blocks, NEW l \in 1 .. Layers,
                      <<p(b), l>> \in {s.of : s \in trail}
               PROVE  restored'.blocks[b][l] = PayloadOf(<<p(b), l>>, n)
    OBVIOUS
  <2>1. prompt \in Seq(Tokens) /\ Len(prompt) \in Nat
    BY ConnectorAssumption
  <2>2. b \in 1 .. Matched(prompt) /\ b \in 1 .. Len(prompt)
    <3>1. b \in 1 .. Matched(prompt)
      BY DEF Receive
    <3>2. Matched(prompt) \in 0 .. Len(prompt)
      BY <2>1, MatchedIs
    <3> QED
      BY <2>1, <3>1, <3>2
  <2>3. Hashes(prompt)[b] = p(b)
    BY <2>1, <2>2, HashesAre
  <2>4. n = 2 * ReadWidth /\ n \in Nat /\ Slot = n + 1
    BY VllmAssumption DEF Slot, ReadWidth
  <2>5. restored'.blocks[b][l] = Payload(ring, index[Hashes(prompt)[b]][l], 2 * ReadWidth)
    BY <2>2 DEF Receive
  <2>6. PICK s \in trail : s.of = <<p(b), l>>
    OBVIOUS
  <2> DEFINE q == p(b)
  <2> HIDE DEF p
  <2>7. s.at \in Nat /\ s.size = n + 1 /\ Whole(ring, s) /\ s.of[1] = q /\ s.of[2] = l
    BY <1>1, <2>4, <2>6 DEF VllmInv, Sound, Slots
  <2>8. index[q][l] = s.at
    BY <1>1, <2>7 DEF VllmInv, OffsetsFindRecent
  <2> HIDE DEF n, q
  <2>9. ASSUME NEW k \in 1 .. n PROVE ring.mem[s.at + k] = [of |-> <<q, l>>, at |-> k]
    <3>1. k \in 0 .. s.size - 1
      BY <2>4, <2>7
    <3> QED
      BY <2>6, <2>7, <3>1 DEF Whole, q
  <2>10. Payload(ring, s.at, n) = PayloadOf(<<q, l>>, n)
    BY <2>9 DEF Payload, PayloadOf
  <2> QED
    BY <2>3, <2>4, <2>5, <2>8, <2>10 DEF q
<1> HIDE DEF Right
<1>2. VllmInv /\ [VllmNext]_vllmVars => [\A prompt \in Prompts : Right(prompt)]_vllmVars
  BY <1>1
<1>3. RecentBlocksAreRight <=> [][\A prompt \in Prompts : Right(prompt)]_vllmVars
  BY DEF RecentBlocksAreRight, Right
<1> QED
  BY <1>2, <1>3, VllmInvAlways, PTL DEF VllmSpec
=============================================================================
