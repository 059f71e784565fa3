------------------------------- MODULE Lemmas -------------------------------
(***************************************************************************)
(* What the proofs of several components need: numbers one after the       *)
(* other, what the operations of a queue do to its elements, and sequences *)
(* laid end to end.                                                        *)
(***************************************************************************)
EXTENDS Integers, Sequences, FiniteSets, SequencesExt, SequenceTheorems, FiniteSetTheorems, WellFoundedInduction, TLAPS

-----------------------------------------------------------------------------
(* Numbers *)

\* A set of numbers has a least one.
LEMMA LeastOf ==
  ASSUME NEW S \in SUBSET Nat, S # {}
  PROVE  \E x \in S : \A y \in S : x <= y
<1> DEFINE R == OpToRel(<, Nat)
<1>1. IsWellFoundedOn(R, Nat)
  BY NatLessThanWellFounded
<1>2. PICK x \in S : \A y \in S : ~(<<y, x>> \in R)
  <2> HIDE DEF R
  <2> QED
    BY <1>1, WFMin
<1>3. \A y \in S : x <= y
  <2> SUFFICES ASSUME NEW y \in S PROVE x <= y
    OBVIOUS
  <2>1. ~(<<y, x>> \in {z \in Nat \X Nat : z[1] < z[2]})
    BY <1>2 DEF OpToRel
  <2>2. x \in Nat /\ y \in Nat
    OBVIOUS
  <2>3. ~(y < x)
    BY <2>1, <2>2
  <2> QED
    BY <2>2, <2>3
<1> QED
  BY <1>3

\* Induction up to N, for the numbers in a set.
LEMMA UpTo ==
  ASSUME NEW N \in Nat, NEW P, 0 \in P,
         \A i \in 0 .. N - 1 : i \in P => i + 1 \in P
  PROVE  0 .. N \subseteq P
<1> SUFFICES ASSUME ~(0 .. N \subseteq P) PROVE FALSE
  OBVIOUS
<1> DEFINE S == {i \in 0 .. N : i \notin P}
<1>1. S \in SUBSET Nat /\ S # {}
  OBVIOUS
<1>2. PICK x \in S : \A y \in S : x <= y
  <2> HIDE DEF S
  <2> QED
    BY <1>1, LeastOf
<1>3. x \in 0 .. N /\ x \notin P /\ x # 0
  BY <1>2
<1>4. x - 1 \in 0 .. N - 1 /\ x - 1 + 1 = x
  BY <1>3
<1>5. x - 1 \notin P
  BY <1>3, <1>4
<1>6. x - 1 \in S
  BY <1>4, <1>5
<1>7. x <= x - 1
  BY <1>2, <1>6
<1> QED
  BY <1>3, <1>7

-----------------------------------------------------------------------------
(* Sequences without repetition *)

Elems(s) == {s[i] : i \in DOMAIN s}

NoRepeat(s) == \A i, j \in DOMAIN s : s[i] = s[j] => i = j

\* Taking the first connection of the queue leaves the others.
LEMMA TailElems ==
  ASSUME NEW S, NEW s \in Seq(S), s # <<>>, NoRepeat(s)
  PROVE  /\ Head(s) \in Elems(s)
         /\ Elems(Tail(s)) = Elems(s) \ {Head(s)}
         /\ NoRepeat(Tail(s))
<1>1. Len(s) \in Nat \ {0} /\ DOMAIN s = 1 .. Len(s) /\ Head(s) = s[1]
  BY EmptySeq, LenProperties
<1>2. /\ Tail(s) \in Seq(S)
      /\ DOMAIN Tail(s) = 1 .. (Len(s) - 1)
      /\ \A i \in 1 .. (Len(s) - 1) : Tail(s)[i] = s[i + 1]
  BY HeadTailProperties, LenProperties, <1>1
<1>3. ASSUME NEW i \in 1 .. Len(s), i # 1
      PROVE  i - 1 \in 1 .. (Len(s) - 1) /\ Tail(s)[i - 1] = s[i]
  BY <1>1, <1>2, <1>3
<1>4. ASSUME NEW i \in 1 .. (Len(s) - 1)
      PROVE  i + 1 \in 1 .. Len(s) /\ Tail(s)[i] = s[i + 1] /\ s[i + 1] # s[1]
  BY <1>1, <1>2 DEF NoRepeat
<1>5. Elems(Tail(s)) \subseteq Elems(s) \ {Head(s)}
  BY <1>1, <1>2, <1>4 DEF Elems
<1>6. Elems(s) \ {Head(s)} \subseteq Elems(Tail(s))
  <2> SUFFICES ASSUME NEW i \in 1 .. Len(s), s[i] # Head(s)
               PROVE  s[i] \in Elems(Tail(s))
    BY <1>1 DEF Elems
  <2>1. i # 1
    BY <1>1
  <2> QED
    BY <1>2, <1>3, <2>1 DEF Elems
<1>7. NoRepeat(Tail(s))
  BY <1>1, <1>2, <1>4 DEF NoRepeat
<1>8. Head(s) \in Elems(s)
  <2>1. 1 \in 1 .. Len(s)
    BY <1>1
  <2> QED
    BY <1>1, <2>1 DEF Elems
<1> QED
  BY <1>5, <1>6, <1>7, <1>8

\* Putting a connection that is not queued at the end.
LEMMA AppendElems ==
  ASSUME NEW S, NEW s \in Seq(S), NEW e \in S, e \notin Elems(s), NoRepeat(s)
  PROVE  /\ Elems(Append(s, e)) = Elems(s) \cup {e}
         /\ NoRepeat(Append(s, e))
<1>1. Len(s) \in Nat /\ DOMAIN s = 1 .. Len(s)
  BY LenProperties
<1>2. /\ DOMAIN Append(s, e) = 1 .. (Len(s) + 1)
      /\ \A i \in 1 .. Len(s) : Append(s, e)[i] = s[i]
      /\ Append(s, e)[Len(s) + 1] = e
  BY AppendProperties, LenProperties
<1>3. \A i \in 1 .. (Len(s) + 1) : i \in 1 .. Len(s) \/ i = Len(s) + 1
  BY <1>1
<1>4. Elems(Append(s, e)) \subseteq Elems(s) \cup {e}
  BY <1>1, <1>2, <1>3 DEF Elems
<1>5. Elems(s) \cup {e} \subseteq Elems(Append(s, e))
  BY <1>1, <1>2 DEF Elems
<1>6. NoRepeat(Append(s, e))
  <2>1. \A i \in 1 .. Len(s) : s[i] # e
    BY <1>1 DEF Elems
  <2> QED
    BY <1>1, <1>2, <1>3, <2>1 DEF NoRepeat
<1> QED
  BY <1>4, <1>5, <1>6

\* A sequence has no more elements than places.
LEMMA ElemsBound ==
  ASSUME NEW S, NEW s \in Seq(S)
  PROVE  IsFiniteSet(Elems(s)) /\ Cardinality(Elems(s)) <= Len(s)
<1>1. Len(s) \in Nat /\ DOMAIN s = 1 .. Len(s)
  BY LenProperties
<1>2. IsFiniteSet(1 .. Len(s)) /\ Cardinality(1 .. Len(s)) = Len(s)
  <2>1. /\ IsFiniteSet(1 .. Len(s))
        /\ Cardinality(1 .. Len(s)) = IF 1 > Len(s) THEN 0 ELSE Len(s) - 1 + 1
    BY <1>1, FS_Interval
  <2> QED
    BY <1>1, <2>1
<1> DEFINE f == [i \in 1 .. Len(s) |-> s[i]]
<1>3. f \in Surjection(1 .. Len(s), Elems(s))
  BY <1>1 DEF Surjection, Elems
<1> QED
  BY <1>1, <1>2, <1>3, FS_Surjection

-----------------------------------------------------------------------------
(* Slices laid end to end *)

\* f[i]: the first i slices of s end to end.
Ends(f, s) ==
  /\ f[1] = s[1]
  /\ \A i \in 2 .. Len(s) : f[i] = f[i - 1] \o s[i]

LEMMA FlattenIs ==
  ASSUME NEW S, NEW s \in Seq(Seq(S)), Len(s) >= 1
  PROVE  \E f : Ends(f, s) /\ FlattenSeq(s) = f[Len(s)]
<1> DEFINE N == Len(s)
           Is(f, n) == f = [i \in 1 .. n |-> IF i = 1 THEN s[i] ELSE f[i - 1] \o s[i]]
           P == {n \in 0 .. N - 1 : \E f : Is(f, n + 1)}
<1>1. N \in Nat /\ N >= 1 /\ N - 1 \in Nat
  OBVIOUS
<1>2. 0 \in P
  <2> DEFINE g == [i \in 1 .. 0 + 1 |-> s[i]]
  <2>1. Is(g, 0 + 1) /\ 0 \in 0 .. N - 1
    BY <1>1
  <2> HIDE DEF Is, g
  <2> QED
    BY <2>1
<1>3. ASSUME NEW n \in 0 .. (N - 1) - 1, n \in P
      PROVE  n + 1 \in P
  <2>1. PICK f : Is(f, n + 1)
    BY <1>3
  <2> DEFINE k == n + 2
             g == [i \in 1 .. k |-> IF i = k THEN f[k - 1] \o s[k] ELSE f[i]]
  <2>2. n \in Nat /\ k - 1 = n + 1 /\ k \in Nat /\ (n + 1) + 1 = k
    OBVIOUS
  <2>3. ASSUME NEW i \in 1 .. k
        PROVE  g[i] = IF i = 1 THEN s[i] ELSE g[i - 1] \o s[i]
    <3>1. CASE i = 1
      BY <2>1, <2>2, <3>1
    <3>2. CASE i = k
      <4>1. k \in 1 .. k /\ k # 1
        BY <2>2
      <4>2. g[k] = f[k - 1] \o s[k]
        BY <4>1
      <4>3. k - 1 \in 1 .. k /\ k - 1 # k
        BY <2>2
      <4>4. g[k - 1] = f[k - 1]
        BY <4>3
      <4> QED
        BY <3>2, <4>1, <4>2, <4>4
    <3>3. CASE i # 1 /\ i # k
      <4>1. i \in 1 .. n + 1 /\ i - 1 \in 1 .. n + 1
        BY <2>2, <3>3
      <4>2. g[i] = f[i]
        BY <3>3
      <4>3. i - 1 # k /\ i - 1 \in 1 .. k
        BY <2>2, <3>3
      <4>4. g[i - 1] = f[i - 1]
        BY <4>3
      <4> QED
        BY <2>1, <3>3, <4>1, <4>2, <4>4
    <3> QED
      BY <3>1, <3>2, <3>3
  <2>4. Is(g, k)
    <3>1. g = [i \in 1 .. k |-> g[i]]
      OBVIOUS
    <3> HIDE DEF g
    <3> QED
      BY <2>3, <3>1
  <2>5. n + 1 \in 0 .. N - 1
    BY <1>1
  <2> HIDE DEF Is, g, k
  <2> QED
    BY <2>2, <2>4, <2>5
<1>4. N - 1 \in P
  <2> HIDE DEF P
  <2>1. 0 .. N - 1 \subseteq P
    BY <1>1, <1>2, <1>3, UpTo
  <2> QED
    BY <1>1, <2>1
<1>5. (N - 1) + 1 = N
  BY <1>1
<1>6. \E f : Is(f, N)
  BY <1>4, <1>5
<1> DEFINE h == CHOOSE f : Is(f, N)
<1>7. Is(h, N)
  BY <1>6
<1>8. FlattenSeq(s) = h[N]
  BY <1>1 DEF FlattenSeq
<1>9. Ends(h, s)
  <2> HIDE DEF h
  <2>1. h[1] = s[1]
    BY <1>1, <1>7
  <2>2. ASSUME NEW i \in 2 .. N PROVE h[i] = h[i - 1] \o s[i]
    <3>1. i \in 1 .. N /\ i # 1
      BY <1>1
    <3> QED
      BY <1>7, <3>1
  <2> QED
    BY <2>1, <2>2 DEF Ends
<1> QED
  BY <1>8, <1>9

LEMMA EndsIn ==
  ASSUME NEW S, NEW s \in Seq(Seq(S)), NEW f, Ends(f, s)
  PROVE  \A i \in 1 .. Len(s) : f[i] \in Seq(S)
<1> DEFINE N == Len(s)
           P == {n \in 0 .. N : n = 0 \/ f[n] \in Seq(S)}
<1>1. N \in Nat /\ \A i \in 1 .. N : s[i] \in Seq(S)
  OBVIOUS
<1>2. 0 \in P
  BY <1>1
<1>3. ASSUME NEW n \in 0 .. N - 1, n \in P
      PROVE  n + 1 \in P
  <2>1. n + 1 \in 1 .. N /\ s[n + 1] \in Seq(S) /\ n + 1 \in 0 .. N
    BY <1>1
  <2>2. CASE n = 0
    BY <2>1, <2>2 DEF Ends
  <2>3. CASE n # 0
    <3>1. f[n] \in Seq(S) /\ n + 1 \in 2 .. N /\ (n + 1) - 1 = n
      BY <1>1, <1>3, <2>3
    <3>2. f[n + 1] = f[n] \o s[n + 1]
      BY <3>1 DEF Ends
    <3>3. f[n] \o s[n + 1] \in Seq(S)
      BY <2>1, <3>1
    <3> QED
      BY <2>1, <3>2, <3>3
  <2> QED
    BY <2>2, <2>3
<1>4. 0 .. N \subseteq P
  <2> HIDE DEF P
  <2> QED
    BY <1>1, <1>2, <1>3, UpTo
<1> QED
  <2> SUFFICES ASSUME NEW i \in 1 .. N PROVE f[i] \in Seq(S)
    OBVIOUS
  <2>1. i \in 0 .. N /\ i # 0
    BY <1>1
  <2>2. i \in P
    <3> HIDE DEF P
    <3> QED
      BY <1>4, <2>1
  <2> QED
    BY <2>1, <2>2

LEMMA PrefixIs ==
  ASSUME NEW S, NEW p \in Seq(S), NEW q \in Seq(S)
  PROVE  IsPrefix(p, q) <=> Len(p) <= Len(q) /\ \A i \in 1 .. Len(p) : p[i] = q[i]
<1>1. Len(p) \in Nat /\ Len(q) \in Nat
  OBVIOUS
<1>2. ASSUME IsPrefix(p, q)
      PROVE  Len(p) <= Len(q) /\ \A i \in 1 .. Len(p) : p[i] = q[i]
  <2>1. Len(p) <= Len(q) /\ SubSeq(p, 1, Len(p)) = SubSeq(q, 1, Len(p))
    BY <1>2 DEF IsPrefix
  <2>2. ASSUME NEW i \in 1 .. Len(p) PROVE p[i] = q[i]
    <3>1. SubSeq(p, 1, Len(p))[i] = p[i] /\ SubSeq(q, 1, Len(p))[i] = q[i]
      BY <1>1, <2>1
    <3> QED
      BY <2>1, <3>1
  <2> QED
    BY <2>1, <2>2
<1>3. ASSUME Len(p) <= Len(q), \A i \in 1 .. Len(p) : p[i] = q[i]
      PROVE  IsPrefix(p, q)
  <2>1. SubSeq(p, 1, Len(p)) = SubSeq(q, 1, Len(p))
    BY <1>1, <1>3
  <2> QED
    BY <1>3, <2>1 DEF IsPrefix
<1> QED
  BY <1>2, <1>3

\* The first m slices of s.
First(s, m) == FlattenSeq(SubSeq(s, 1, m))

LEMMA FirstNext ==
  ASSUME NEW S, NEW s \in Seq(Seq(S)), NEW m \in 0 .. Len(s) - 1
  PROVE  /\ First(s, m) \in Seq(S)
         /\ First(s, m + 1) = First(s, m) \o s[m + 1]
<1> DEFINE q == SubSeq(s, 1, m)
           t == SubSeq(s, 1, m + 1)
<1>1. Len(s) \in Nat /\ m \in Nat /\ m + 1 \in 1 .. Len(s) /\ s[m + 1] \in Seq(S)
  OBVIOUS
<1>2. /\ t \in Seq(Seq(S)) /\ Len(t) = m + 1 /\ t[m + 1] = s[m + 1]
      /\ q \in Seq(Seq(S)) /\ Len(q) = m
  <2>1. /\ t \in Seq(Seq(S)) /\ Len(t) = m + 1
        /\ q \in Seq(Seq(S)) /\ Len(q) = m
    BY <1>1
  <2>2. t[m + 1] = s[m + 1]
    BY <1>1
  <2> QED
    BY <2>1, <2>2
<1>3. PICK f : Ends(f, t) /\ FlattenSeq(t) = f[m + 1]
  <2>1. Len(t) >= 1
    BY <1>1, <1>2
  <2> HIDE DEF t
  <2> QED
    BY <1>2, <2>1, FlattenIs
<1>4. CASE m = 0
  <2>1. FlattenSeq(q) = <<>>
    <3>1. q = <<>> /\ Len(q) = 0
      BY <1>2, <1>4
    <3> QED
      BY <3>1 DEF FlattenSeq
  <2>2. FlattenSeq(t) = s[m + 1]
    BY <1>2, <1>3, <1>4 DEF Ends
  <2>3. <<>> \o s[m + 1] = s[m + 1] /\ <<>> \in Seq(S)
    BY <1>1
  <2> QED
    BY <2>1, <2>2, <2>3 DEF First
<1>5. CASE m # 0
  <2>1. m \in 1 .. Len(t) /\ m + 1 \in 2 .. Len(t) /\ (m + 1) - 1 = m /\ Len(q) >= 1
    BY <1>1, <1>2, <1>5
  <2>2. SubSeq(t, 1, m) = q
    BY <1>1
  <2>3. PICK g : Ends(g, q) /\ FlattenSeq(q) = g[m]
    <3> HIDE DEF q
    <3> QED
      BY <1>2, <2>1, FlattenIs
  <2> HIDE DEF q, t
  <2>4. f[m] = g[m]
    <3> DEFINE P == {n \in 0 .. m : n = 0 \/ f[n] = g[n]}
    <3>1. \A i \in 1 .. m : q[i] = t[i]
      BY <1>2, <2>2
    <3>2. 0 \in P
      BY <1>1
    <3>3. ASSUME NEW n \in 0 .. m - 1, n \in P
          PROVE  n + 1 \in P
      <4>1. n + 1 \in 1 .. m /\ n + 1 \in 0 .. m /\ q[n + 1] = t[n + 1]
        BY <1>1, <3>1
      <4>2. CASE n = 0
        BY <1>3, <2>3, <4>1, <4>2 DEF Ends
      <4>3. CASE n # 0
        <5>1. /\ f[n] = g[n] /\ (n + 1) - 1 = n
              /\ n + 1 \in 2 .. Len(t) /\ n + 1 \in 2 .. Len(q)
          BY <1>1, <1>2, <3>3, <4>3
        <5>2. f[n + 1] = f[n] \o t[n + 1] /\ g[n + 1] = g[n] \o q[n + 1]
          BY <1>3, <2>3, <5>1 DEF Ends
        <5> QED
          BY <4>1, <5>1, <5>2
      <4> QED
        BY <4>2, <4>3
    <3>4. 0 .. m \subseteq P
      <4> HIDE DEF P
      <4> QED
        BY <1>1, <3>2, <3>3, UpTo
    <3>5. m \in P /\ m # 0
      BY <1>1, <1>5, <3>4
    <3> QED
      BY <3>5
  <2>5. f[m + 1] = f[m] \o s[m + 1]
    BY <1>2, <1>3, <2>1 DEF Ends
  <2>6. g[m] \in Seq(S)
    <3>1. \A i \in 1 .. Len(q) : g[i] \in Seq(S)
      BY <1>2, <2>3, EndsIn
    <3>2. m \in 1 .. Len(q)
      BY <1>1, <1>2, <1>5
    <3> QED
      BY <3>1, <3>2
  <2>7. FlattenSeq(q) \in Seq(S) /\ FlattenSeq(t) = FlattenSeq(q) \o s[m + 1]
    BY <1>3, <2>3, <2>4, <2>5, <2>6
  <2> QED
    BY <2>7 DEF First, q, t
<1> QED
  BY <1>4, <1>5

LEMMA FirstIn ==
  ASSUME NEW S, NEW s \in Seq(Seq(S)), NEW m \in 0 .. Len(s)
  PROVE  First(s, m) \in Seq(S)
<1>1. CASE m < Len(s)
  <2>1. m \in 0 .. Len(s) - 1
    BY <1>1
  <2> QED
    BY <2>1, FirstNext
<1>2. CASE m = Len(s) /\ m # 0
  <2>1. m - 1 \in 0 .. Len(s) - 1 /\ (m - 1) + 1 = m /\ m \in 1 .. Len(s)
    BY <1>2
  <2>2. First(s, m - 1) \in Seq(S) /\ First(s, m) = First(s, m - 1) \o s[m]
    BY <2>1, FirstNext
  <2>3. s[m] \in Seq(S)
    BY <2>1
  <2> QED
    BY <2>2, <2>3
<1>3. CASE m = 0 /\ Len(s) = 0
  <2>1. SubSeq(s, 1, m) = <<>> /\ Len(<<>>) = 0
    BY <1>3
  <2>2. First(s, m) = <<>>
    BY <2>1 DEF First, FlattenSeq
  <2> QED
    BY <2>2
<1> QED
  <2>1. m < Len(s) \/ (m = Len(s) /\ m # 0) \/ (m = 0 /\ Len(s) = 0)
    OBVIOUS
  <2> QED
    BY <2>1, <1>1, <1>2, <1>3

\* The first slices begin those of all, and no slice is empty.
LEMMA FirstWithin ==
  ASSUME NEW S, NEW s \in Seq(Seq(S)), \A i \in 1 .. Len(s) : s[i] # <<>>,
         NEW m \in 0 .. Len(s), NEW k \in m .. Len(s)
  PROVE  /\ Len(First(s, m)) >= m
         /\ IsPrefix(First(s, m), First(s, k))
<1> DEFINE N == Len(s)
           F(i) == First(s, i)
           P == {n \in 0 .. N : Len(F(n)) >= n /\ (m <= n => IsPrefix(F(m), F(n)))}
<1>1. N \in Nat /\ m \in Nat /\ m <= N /\ k \in 0 .. N /\ m <= k
  OBVIOUS
<1>2. \A n \in 0 .. N : F(n) \in Seq(S)
  BY FirstIn
<1>3. \A n \in 0 .. N - 1 : F(n + 1) = F(n) \o s[n + 1]
  BY FirstNext
<1>4. \A n \in 1 .. N : s[n] \in Seq(S) /\ s[n] # <<>>
  <2>1. \A n \in 1 .. N : s[n] \in Seq(S)
    OBVIOUS
  <2> QED
    BY <2>1
<1> HIDE DEF F
<1>5. \A n \in 0 .. N : Len(F(n)) \in Nat /\ IsPrefix(F(n), F(n))
  BY <1>2, PrefixIs
<1>6. 0 \in P
  <2>1. 0 \in 0 .. N /\ (m <= 0 => m = 0)
    BY <1>1
  <2> QED
    BY <1>5, <2>1
<1>7. ASSUME NEW n \in 0 .. N - 1, n \in P
      PROVE  n + 1 \in P
  <2>1. n \in 0 .. N /\ n + 1 \in 0 .. N /\ n + 1 \in 1 .. N /\ n \in Nat
    BY <1>1
  <2>2. F(n + 1) = F(n) \o s[n + 1] /\ F(n) \in Seq(S) /\ s[n + 1] \in Seq(S)
    BY <1>2, <1>3, <1>4, <2>1
  <2>3. Len(s[n + 1]) \in Nat /\ Len(s[n + 1]) >= 1
    <3>1. s[n + 1] # <<>>
      BY <1>4, <2>1
    <3> QED
      BY <2>2, <3>1
  <2>4. Len(F(n + 1)) = Len(F(n)) + Len(s[n + 1]) /\ Len(F(n)) \in Nat
    BY <2>2
  <2>5. Len(F(n)) >= n
    BY <1>7
  <2>6. Len(F(n + 1)) >= n + 1
    BY <2>1, <2>3, <2>4, <2>5
  <2>7. ASSUME m <= n + 1
        PROVE  IsPrefix(F(m), F(n + 1))
    <3>1. CASE m = n + 1
      BY <1>5, <2>1, <3>1
    <3>2. CASE m # n + 1
      <4>1. IsPrefix(F(m), F(n)) /\ m \in 0 .. N
        BY <1>1, <1>7, <2>1, <2>7, <3>2
      <4>2. F(m) \in Seq(S) /\ F(n + 1) \in Seq(S)
        BY <1>2, <2>1, <4>1
      <4>3. Len(F(m)) <= Len(F(n)) /\ \A i \in 1 .. Len(F(m)) : F(m)[i] = F(n)[i]
        BY <2>2, <4>1, <4>2, PrefixIs
      <4>4. \A i \in 1 .. Len(F(n)) : F(n + 1)[i] = F(n)[i]
        BY <2>2
      <4>5. Len(F(m)) \in Nat
        BY <4>2
      <4>6. Len(F(m)) <= Len(F(n + 1)) /\ \A i \in 1 .. Len(F(m)) : F(m)[i] = F(n + 1)[i]
        BY <2>3, <2>4, <4>3, <4>4, <4>5
      <4> QED
        BY <4>2, <4>6, PrefixIs
    <3> QED
      BY <3>1, <3>2
  <2> QED
    BY <2>1, <2>6, <2>7
<1>8. 0 .. N \subseteq P
  <2> HIDE DEF P
  <2> QED
    BY <1>1, <1>6, <1>7, UpTo
<1>9. m \in P /\ k \in P
  BY <1>1, <1>8
<1> QED
  BY <1>1, <1>9 DEF F


LEMMA FirstAll ==
  ASSUME NEW S, NEW s \in Seq(S)
  PROVE  First(s, Len(s)) = FlattenSeq(s)
<1>1. SubSeq(s, 1, Len(s)) \in Seq(S) /\ Len(SubSeq(s, 1, Len(s))) = Len(s)
  OBVIOUS
<1>2. \A i \in 1 .. Len(s) : SubSeq(s, 1, Len(s))[i] = s[i]
  OBVIOUS
<1>3. SubSeq(s, 1, Len(s)) = s
  BY <1>1, <1>2, SeqEqual
<1> QED
  BY <1>3 DEF First

\* Where a slice lies.
LEMMA FirstPlaces ==
  ASSUME NEW S, NEW s \in Seq(Seq(S)), \A i \in 1 .. Len(s) : s[i] # <<>>,
         NEW m \in 0 .. Len(s) - 1
  PROVE  /\ Len(First(s, m)) \in Nat
         /\ Len(First(s, m + 1)) = Len(First(s, m)) + Len(s[m + 1])
         /\ Len(First(s, m + 1)) <= Len(FlattenSeq(s))
         /\ \A j \in 1 .. Len(s[m + 1]) : FlattenSeq(s)[Len(First(s, m)) + j] = s[m + 1][j]
<1> DEFINE F == First(s, m)
           G == First(s, m + 1)
           W == FlattenSeq(s)
<1>1. /\ Len(s) \in Nat /\ m \in Nat /\ m + 1 \in 0 .. Len(s) /\ m + 1 \in 1 .. Len(s)
      /\ s[m + 1] \in Seq(S) /\ Len(s) \in m + 1 .. Len(s) /\ Len(s) \in 0 .. Len(s)
  OBVIOUS
<1>2. F \in Seq(S) /\ G = F \o s[m + 1]
  BY FirstNext
<1>3. W = First(s, Len(s))
  BY FirstAll
<1>4. W \in Seq(S) /\ IsPrefix(G, W) /\ G \in Seq(S)
  BY <1>1, <1>3, FirstIn, FirstWithin
<1>5. Len(G) <= Len(W) /\ \A i \in 1 .. Len(G) : G[i] = W[i]
  BY <1>4, PrefixIs
<1> HIDE DEF F, G, W
<1>6. Len(F) \in Nat /\ Len(s[m + 1]) \in Nat /\ Len(G) = Len(F) + Len(s[m + 1])
  BY <1>1, <1>2
<1>7. ASSUME NEW j \in 1 .. Len(s[m + 1])
      PROVE  W[Len(F) + j] = s[m + 1][j]
  <2>1. Len(F) + j \in 1 .. Len(G)
    BY <1>6
  <2>2. G[Len(F) + j] = s[m + 1][j]
    BY <1>1, <1>2, <1>6
  <2> QED
    BY <1>5, <2>1, <2>2
<1>8. Len(F) \in Nat /\ Len(G) = Len(F) + Len(s[m + 1]) /\ Len(G) <= Len(W)
  BY <1>5, <1>6
<1>9. \A j \in 1 .. Len(s[m + 1]) : W[Len(F) + j] = s[m + 1][j]
  BY <1>7
<1> QED
  BY <1>8, <1>9 DEF F, G, W

LEMMA FirstGrows ==
  ASSUME NEW S, NEW s \in Seq(Seq(S)), \A i \in 1 .. Len(s) : s[i] # <<>>,
         NEW m \in 0 .. Len(s), NEW k \in m .. Len(s)
  PROVE  Len(First(s, m)) <= Len(First(s, k))
<1>1. k \in 0 .. Len(s) /\ Len(s) \in Nat
  OBVIOUS
<1>2. First(s, m) \in Seq(S) /\ First(s, k) \in Seq(S) /\ IsPrefix(First(s, m), First(s, k))
  BY <1>1, FirstIn, FirstWithin
<1> QED
  BY <1>2, PrefixIs
=============================================================================
