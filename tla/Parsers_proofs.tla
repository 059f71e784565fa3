---------------------------- MODULE Parsers_proofs ----------------------------
(***************************************************************************)
(* Proofs about the two parsers.                                           *)
(*                                                                         *)
(* Chunker, for all documents, targets and overlaps: type correctness, the *)
(* heading path, that no line is lost, and where chunks are cut.           *)
(*                                                                         *)
(* RespReader, for all replies of any length and depth, cut into pieces    *)
(* anywhere: where the decoder stands in the stream, that it waits only    *)
(* for bytes of its reply, and that it implements ReplyStream.             *)
(***************************************************************************)
EXTENDS Chunker, RespReader, Lemmas


-----------------------------------------------------------------------------
(* Lines, sizes and sums *)

LEMMA Sizes ==
  /\ TargetSize \in Nat /\ TargetSize >= 50
  /\ Overlap \in Nat
<1>1. Max({50, TargetChunkSize}) \in {50, TargetChunkSize} /\ Max({50, TargetChunkSize}) >= 50
  <2>1. \E x \in {50, TargetChunkSize} : \A y \in {50, TargetChunkSize} : x >= y
    BY ChunkerAssumption
  <2> QED
    BY <2>1 DEF Max
<1>2. TargetSize \in Nat /\ TargetSize >= 50
  BY <1>1, ChunkerAssumption DEF TargetSize
<1>3. TargetSize \div 2 \in Nat
  BY <1>2
<1>4. Overlap \in {OverlapArgument, TargetSize \div 2}
  <2>1. {OverlapArgument, TargetSize \div 2} \in SUBSET Nat
    BY <1>3, ChunkerAssumption
  <2> DEFINE S == {OverlapArgument, TargetSize \div 2}
  <2>2. S # {}
    OBVIOUS
  <2> HIDE DEF S
  <2>3. \E x \in S : \A y \in S : x <= y
    BY <2>1, <2>2, LeastOf DEF S
  <2>4. Min(S) \in S
    BY <2>3 DEF Min
  <2> QED
    BY <2>4 DEF S, Overlap
<1> QED
  BY <1>2, <1>3, <1>4, ChunkerAssumption

LEMMA DocFacts ==
  ASSUME NEW d \in Docs
  PROVE  /\ d \in Seq(Lines) /\ Len(d) \in Nat /\ Len(d) >= 1 /\ DOMAIN d = 1 .. Len(d)
         /\ \A i \in 1 .. Len(d) : d[i].chars \in Nat /\ d[i].level \in 0 .. 6
         /\ d[1].kind # "blank" /\ d[Len(d)].kind # "blank"
<1>1. d \in Seq(Lines) /\ d # <<>>
  BY ChunkerAssumption
<1>2. Len(d) \in Nat /\ Len(d) >= 1 /\ DOMAIN d = 1 .. Len(d) /\ \A i \in 1 .. Len(d) : d[i] \in Lines
  BY <1>1
<1>3. \A i \in 1 .. Len(d) : d[i].chars \in Nat /\ d[i].level \in 0 .. 6
  BY <1>2 DEF Lines
<1> QED
  BY <1>1, <1>2, <1>3, ChunkerAssumption

\* Sums satisfies its recursion.
LEMMA SumsAre ==
  ASSUME NEW n, Len(n) \in Nat
  PROVE  /\ Sums(n)[0] = 0
         /\ \A k \in 1 .. Len(n) : Sums(n)[k] = Sums(n)[k - 1] + n[k]
<1> DEFINE N == Len(n)
           Is(f, m) == f = [k \in 0 .. m |-> IF k = 0 THEN 0 ELSE f[k - 1] + n[k]]
           P == {m \in 0 .. N : \E f : Is(f, m)}
<1>1. 0 \in P
  <2> DEFINE g == [k \in 0 .. 0 |-> 0]
  <2>1. Is(g, 0) /\ 0 \in 0 .. N
    OBVIOUS
  <2> HIDE DEF Is, g
  <2> QED
    BY <2>1
<1>2. ASSUME NEW m \in 0 .. N - 1, m \in P
      PROVE  m + 1 \in P
  <2>1. PICK f : Is(f, m)
    BY <1>2
  <2> DEFINE g == [k \in 0 .. m + 1 |-> IF k = m + 1 THEN f[m] + n[m + 1] ELSE f[k]]
  <2>2. ASSUME NEW k \in 0 .. m + 1
        PROVE  g[k] = IF k = 0 THEN 0 ELSE g[k - 1] + n[k]
    <3>1. CASE k = 0
      BY <2>1, <3>1
    <3>2. CASE k = m + 1
      <4>1. g[k] = f[m] + n[k] /\ k - 1 = m /\ k # 0
        BY <3>2
      <4>2. g[m] = f[m]
        OBVIOUS
      <4> QED
        BY <4>1, <4>2
    <3>3. CASE k # 0 /\ k # m + 1
      <4>1. k \in 0 .. m /\ k - 1 \in 0 .. m
        BY <3>3
      <4>2. g[k] = f[k] /\ g[k - 1] = f[k - 1]
        BY <4>1, <3>3
      <4> QED
        BY <2>1, <3>3, <4>1, <4>2
    <3> QED
      BY <3>1, <3>2, <3>3
  <2>3. Is(g, m + 1)
    <3> HIDE DEF g
    <3>1. g = [k \in 0 .. m + 1 |-> g[k]]
      BY DEF g
    <3> QED
      BY <2>2, <3>1
  <2>4. m + 1 \in 0 .. N
    OBVIOUS
  <2> HIDE DEF Is, g
  <2> QED
    BY <2>3, <2>4
<1>3. N \in P
  <2> HIDE DEF P
  <2>1. 0 .. N \subseteq P
    BY <1>1, <1>2, UpTo
  <2> QED
    BY <2>1
<1>4. \E f : Is(f, N)
  BY <1>3
<1>5. Is(Sums(n), N)
  BY <1>4 DEF Sums
<1> QED
  BY <1>5

LEMMA SumsGrow ==
  ASSUME NEW n, Len(n) \in Nat, \A k \in 1 .. Len(n) : n[k] \in Nat,
         NEW j \in 0 .. Len(n)
  PROVE  Sums(n)[j] \in Nat /\ \A k \in 0 .. j : Sums(n)[k] \in Nat /\ Sums(n)[k] <= Sums(n)[j]
<1> DEFINE s == Sums(n)
           P == {m \in 0 .. Len(n) : s[m] \in Nat /\ \A k \in 0 .. m : s[k] \in Nat /\ s[k] <= s[m]}
<1>1. s[0] = 0 /\ \A k \in 1 .. Len(n) : s[k] = s[k - 1] + n[k]
  BY SumsAre
<1> HIDE DEF s
<1>2. 0 \in P
  BY <1>1
<1>3. ASSUME NEW m \in 0 .. Len(n) - 1, m \in P
      PROVE  m + 1 \in P
  <2>1. m + 1 \in 1 .. Len(n) /\ (m + 1) - 1 = m /\ m + 1 \in 0 .. Len(n)
    OBVIOUS
  <2>2. s[m + 1] = s[m] + n[m + 1] /\ n[m + 1] \in Nat
    BY <1>1, <2>1
  <2>3. s[m] \in Nat /\ \A k \in 0 .. m : s[k] \in Nat /\ s[k] <= s[m]
    BY <1>3
  <2>4. s[m + 1] \in Nat /\ s[m] <= s[m + 1]
    BY <2>2, <2>3
  <2>5. ASSUME NEW k \in 0 .. m + 1 PROVE s[k] \in Nat /\ s[k] <= s[m + 1]
    <3>1. CASE k = m + 1
      BY <2>4, <3>1
    <3>2. CASE k # m + 1
      <4>1. k \in 0 .. m
        BY <3>2
      <4>2. s[k] \in Nat /\ s[k] <= s[m]
        BY <2>3, <4>1
      <4> QED
        BY <2>3, <2>4, <4>2
    <3> QED
      BY <3>1, <3>2
  <2> QED
    BY <2>1, <2>4, <2>5
<1>4. 0 .. Len(n) \subseteq P
  <2> HIDE DEF P
  <2> QED
    BY <1>2, <1>3, UpTo
<1>5. j \in P
  BY <1>4
<1> QED
  BY <1>5 DEF s

LEMMA EstimateGrows ==
  ASSUME NEW a \in Nat, NEW b \in Nat, a <= b
  PROVE  Estimate(a) \in Nat /\ Estimate(b) \in Nat /\ Estimate(a) <= Estimate(b)
<1>1. ASSUME NEW c \in Nat, c # 0
      PROVE  /\ Estimate(c) \in Nat /\ Estimate(c) >= 1 /\ Estimate(c) >= c \div 4
             /\ Estimate(c) = 1 \/ Estimate(c) = c \div 4
  <2>1. c \div 4 \in Nat
    OBVIOUS
  <2> DEFINE q == c \div 4
  <2> HIDE DEF q
  <2>2. \E x \in {1, q} : \A y \in {1, q} : x >= y
    BY <2>1 DEF q
  <2>3. Max({1, q}) \in {1, q} /\ \A y \in {1, q} : Max({1, q}) >= y
    BY <2>2 DEF Max
  <2>4. Estimate(c) = Max({1, q})
    BY <1>1 DEF Estimate, q
  <2> QED
    BY <2>1, <2>3, <2>4 DEF q
<1>2. Estimate(0) = 0
  BY DEF Estimate
<1>3. a \div 4 \in Nat /\ b \div 4 \in Nat /\ a \div 4 <= b \div 4
  OBVIOUS
<1>4. CASE a = 0
  BY <1>1, <1>2, <1>4
<1>5. CASE a # 0
  <2>1. b # 0
    BY <1>5
  <2> QED
    BY <1>1, <1>3, <1>5, <2>1
<1> QED
  BY <1>4, <1>5

\* A stretch has no more tokens than one that begins before it.
LEMMA TokensShrink ==
  ASSUME doc \in Docs, NEW f \in 1 .. Len(doc), NEW i \in 0 .. Len(doc), NEW g \in f .. Len(doc) + 1
  PROVE  Tokens(f, i) \in Nat /\ Tokens(g, i) \in Nat /\ Tokens(g, i) <= Tokens(f, i)
<1> DEFINE n == [k \in DOMAIN doc |-> doc[k].chars]
           C(a) == Sum(n, a, i) + (i - a)
<1>1. Len(doc) \in Nat /\ DOMAIN doc = 1 .. Len(doc) /\ \A k \in 1 .. Len(doc) : doc[k].chars \in Nat
  BY DocFacts
<1>2. Len(n) = Len(doc) /\ \A k \in 1 .. Len(doc) : n[k] \in Nat
  <2>1. n \in Seq(Nat)
    BY <1>1
  <2>2. DOMAIN n = 1 .. Len(n) /\ Len(n) \in Nat
    BY <2>1
  <2> QED
    BY <1>1, <2>2
<1> HIDE DEF n
<1>3. ASSUME NEW a \in 1 .. i
      PROVE  C(a) \in Nat /\ \A b \in a .. i : C(b) <= C(a)
  <2>1. Sums(n)[i] \in Nat /\ \A k \in 0 .. i : Sums(n)[k] \in Nat /\ Sums(n)[k] <= Sums(n)[i]
    BY <1>1, <1>2, SumsGrow
  <2>2. a - 1 \in 0 .. i /\ a \in Nat /\ i \in Nat /\ a <= i
    BY <1>1
  <2>3. C(a) \in Nat
    BY <2>1, <2>2 DEF Sum
  <2>4. ASSUME NEW b \in a .. i PROVE C(b) <= C(a)
    <3>1. b - 1 \in 0 .. Len(doc) /\ a - 1 \in 0 .. b - 1 /\ b - 1 \in 0 .. i
      BY <1>1
    <3>2. Sums(n)[a - 1] <= Sums(n)[b - 1]
      BY <1>1, <1>2, <3>1, SumsGrow
    <3>3. Sums(n)[b - 1] \in Nat /\ Sums(n)[a - 1] \in Nat
      BY <2>1, <2>2, <3>1
    <3>4. \A x, y, z \in Nat : x <= y => (z - y) + (i - b) <= (z - x) + (i - a)
      BY <2>2
    <3>5. /\ C(b) = (Sums(n)[i] - Sums(n)[b - 1]) + (i - b)
          /\ C(a) = (Sums(n)[i] - Sums(n)[a - 1]) + (i - a)
      BY DEF Sum
    <3> HIDE DEF C
    <3> QED
      BY <2>1, <3>2, <3>3, <3>4, <3>5
  <2> QED
    BY <2>3, <2>4
<1>4. \A a \in 1 .. i : Tokens(a, i) = Estimate(C(a))
  BY DEF Tokens, n
<1>5. \A a \in Nat : a > i => Tokens(a, i) = 0
  BY DEF Tokens
<1> HIDE DEF C
<1>6. f \in Nat /\ g \in Nat /\ f <= g /\ i \in Nat /\ f >= 1
  BY <1>1
<1>7. CASE g <= i
  <2>1. f \in 1 .. i /\ g \in f .. i /\ g \in 1 .. i
    BY <1>6, <1>7
  <2>2. C(f) \in Nat /\ C(g) \in Nat /\ C(g) <= C(f)
    BY <1>3, <2>1
  <2> QED
    BY <1>4, <2>1, <2>2, EstimateGrows
<1>8. CASE g > i /\ f <= i
  <2>1. f \in 1 .. i /\ Tokens(g, i) = 0
    BY <1>5, <1>6, <1>8
  <2>2. C(f) \in Nat
    BY <1>3, <2>1
  <2>3. Estimate(C(f)) \in Nat
    BY <2>2, EstimateGrows
  <2> QED
    BY <1>4, <2>1, <2>3
<1>9. CASE f > i
  BY <1>5, <1>6, <1>9
<1> QED
  BY <1>6, <1>7, <1>8, <1>9

-----------------------------------------------------------------------------
(* Code blocks and headings *)

LEMMA NoCodeYet == ~InCode(0)
<1>1. {j \in 1 .. 0 : doc[j].kind = "fence"} = {}
  OBVIOUS
<1>2. Cardinality({}) = 0
  BY FS_EmptySet
<1> QED
  BY <1>1, <1>2 DEF InCode

LEMMA CodeSets ==
  ASSUME NEW i \in Nat
  PROVE  /\ IsFiniteSet({j \in 1 .. i : doc[j].kind = "fence"})
         /\ Cardinality({j \in 1 .. i : doc[j].kind = "fence"}) \in Nat
<1>1. IsFiniteSet(1 .. i)
  BY FS_Interval
<1>2. IsFiniteSet({j \in 1 .. i : doc[j].kind = "fence"})
  BY <1>1, FS_Subset
<1> QED
  BY <1>2, FS_CardinalityType

\* A fence turns code to text and text to code; other lines change nothing.
LEMMA InCodeStep ==
  ASSUME NEW i \in Nat
  PROVE  /\ doc[i + 1].kind = "fence" => (InCode(i + 1) <=> ~InCode(i))
         /\ doc[i + 1].kind # "fence" => (InCode(i + 1) <=> InCode(i))
<1> DEFINE F(n) == {j \in 1 .. n : doc[j].kind = "fence"}
<1>1. IsFiniteSet(F(i)) /\ Cardinality(F(i)) \in Nat
  BY CodeSets
<1>2. 1 .. i + 1 = (1 .. i) \cup {i + 1} /\ i + 1 \notin 1 .. i
  OBVIOUS
<1>3. CASE doc[i + 1].kind = "fence"
  <2>1. F(i + 1) = F(i) \cup {i + 1} /\ i + 1 \notin F(i)
    BY <1>2, <1>3
  <2> HIDE DEF F
  <2>2. Cardinality(F(i + 1)) = Cardinality(F(i)) + 1
    BY <1>1, <2>1, FS_AddElement
  <2>3. ASSUME NEW c \in Nat PROVE (c + 1) % 2 = 1 <=> ~(c % 2 = 1)
    OBVIOUS
  <2>4. Cardinality(F(i + 1)) % 2 = 1 <=> ~(Cardinality(F(i)) % 2 = 1)
    BY <1>1, <2>2, <2>3
  <2> QED
    BY <1>3, <2>4 DEF InCode, F
<1>4. CASE doc[i + 1].kind # "fence"
  <2>1. F(i + 1) = F(i)
    BY <1>2, <1>4
  <2> QED
    BY <1>4, <2>1 DEF InCode
<1> QED
  BY <1>3, <1>4

\* What the blank lines at the end of a stretch leave alone.
LEMMA BlankTail ==
  ASSUME NEW a \in Nat, NEW b \in Nat, a <= b, \A j \in a + 1 .. b : Blank(j)
  PROVE  InCode(b) <=> InCode(a)
<1>1. \A j \in a + 1 .. b : doc[j].kind # "fence"
  BY DEF Blank
<1>2. {j \in 1 .. b : doc[j].kind = "fence"} = {j \in 1 .. a : doc[j].kind = "fence"}
  <2>1. \A j \in 1 .. b : j \in 1 .. a \/ j \in a + 1 .. b
    OBVIOUS
  <2>2. 1 .. a \subseteq 1 .. b
    OBVIOUS
  <2> QED
    BY <1>1, <2>1, <2>2
<1> QED
  BY <1>2 DEF InCode

LEMMA HeadingsStep ==
  ASSUME NEW i \in Nat
  PROVE  Headings(i + 1) = IF doc[i + 1].kind = "heading" /\ ~InCode(i + 1)
                             THEN Headings(i) \cup {i + 1} ELSE Headings(i)
<1>1. 1 .. i + 1 = (1 .. i) \cup {i + 1}
  OBVIOUS
<1> QED
  BY <1>1 DEF Headings

\* A new heading is on the path of headings, and ends those that are not above it.
LEMMA AboveStep ==
  ASSUME NEW i \in Nat, i + 1 <= Len(doc), doc \in Docs
  PROVE  Above(i + 1) = IF doc[i + 1].kind = "heading" /\ ~InCode(i + 1)
                          THEN {h \in Above(i) : doc[i + 1].level > doc[h].level} \cup {i + 1}
                          ELSE Above(i)
<1>1. CASE ~(doc[i + 1].kind = "heading" /\ ~InCode(i + 1))
  BY <1>1, HeadingsStep DEF Above
<1>2. CASE doc[i + 1].kind = "heading" /\ ~InCode(i + 1)
  <2>1. Headings(i + 1) = Headings(i) \cup {i + 1}
    BY <1>2, HeadingsStep
  <2>2. \A h \in Headings(i) : h \in Nat /\ i + 1 > h /\ ~(h > i + 1)
    BY DEF Headings
  <2>3. ~(i + 1 > i + 1)
    OBVIOUS
  <2>4. Above(i + 1) = {h \in Headings(i) \cup {i + 1} :
                         \A g \in Headings(i) \cup {i + 1} : g > h => doc[g].level > doc[h].level}
    BY <2>1 DEF Above
  <2>5. i + 1 \in Above(i + 1)
    BY <2>2, <2>3, <2>4
  <2>6. ASSUME NEW h \in Headings(i)
        PROVE  h \in Above(i + 1) <=> h \in Above(i) /\ doc[i + 1].level > doc[h].level
    BY <2>2, <2>4 DEF Above
  <2>7. Above(i) \subseteq Headings(i)
    BY DEF Above
  <2>8. Above(i + 1) \subseteq Headings(i) \cup {i + 1}
    BY <2>4
  <2>9. Above(i + 1) = {h \in Above(i) : doc[i + 1].level > doc[h].level} \cup {i + 1}
    BY <2>5, <2>6, <2>7, <2>8
  <2> QED
    BY <1>2, <2>9
<1> QED
  BY <1>1, <1>2

-----------------------------------------------------------------------------
(* The stack of headings *)

Increasing(s) == \A i, j \in DOMAIN s : i < j => s[i] < s[j]

\* Along the path, each heading is of a lower level than those before it, so that
\* popping from the end leaves exactly the headings of a higher level.
LEMMA PoppedIs ==
  ASSUME doc \in Docs, NEW r \in 0 .. Len(doc), NEW level \in 0 .. 6,
         stack \in Seq(Nat), ToSet(stack) = Above(r), Increasing(stack)
  PROVE  \E m \in 0 .. Len(stack) :
           /\ Popped(level) = SubSeq(stack, 1, m)
           /\ \A k \in 1 .. Len(stack) : k <= m <=> level > doc[stack[k]].level
<1> DEFINE S == {n \in 0 .. Len(stack) : \A i \in n + 1 .. Len(stack) : doc[stack[i]].level >= level}
           m == Min(S)
<1>1. Len(stack) \in Nat /\ DOMAIN stack = 1 .. Len(stack) /\ Len(doc) \in Nat
  BY DocFacts
<1>2. \A k \in 1 .. Len(stack) : stack[k] \in Above(r) /\ stack[k] \in 1 .. r /\ stack[k] \in Nat
  <2>1. \A k \in 1 .. Len(stack) : stack[k] \in Above(r)
    BY <1>1 DEF ToSet
  <2> QED
    BY <1>1, <2>1 DEF Above, Headings
<1>3. ASSUME NEW k \in 1 .. Len(stack)
      PROVE  doc[stack[k]].level \in Nat /\ level \in Nat
  <2>1. stack[k] \in 1 .. Len(doc)
    BY <1>1, <1>2
  <2>2. doc[stack[k]].level \in 0 .. 6
    BY <2>1, DocFacts
  <2> QED
    BY <2>2
<1>4. Len(stack) \in S
  BY <1>1
<1>5. m \in S /\ \A n \in S : m <= n
  <2>1. S \in SUBSET Nat /\ S # {}
    BY <1>1, <1>4
  <2> HIDE DEF S
  <2>2. \E x \in S : \A y \in S : x <= y
    BY <2>1, LeastOf
  <2> QED
    BY <2>2 DEF Min
<1>6. Popped(level) = SubSeq(stack, 1, m)
  BY DEF Popped
<1> HIDE DEF m
<1>7. m \in 0 .. Len(stack) /\ \A k \in m + 1 .. Len(stack) : doc[stack[k]].level >= level
  BY <1>5
<1>8. ASSUME NEW k \in 1 .. Len(stack), k <= m
      PROVE  level > doc[stack[k]].level
  <2>1. m - 1 \in 0 .. Len(stack) /\ m \in 1 .. Len(stack)
    BY <1>1, <1>7, <1>8
  <2>2. m - 1 \notin S
    <3> HIDE DEF S
    <3> QED
      BY <1>5, <1>7, <2>1
  <2>3. PICK j \in m - 1 + 1 .. Len(stack) : ~(doc[stack[j]].level >= level)
    BY <2>1, <2>2
  <2>4. j = m
    BY <1>1, <1>7, <2>1, <2>3
  <2>5. level > doc[stack[m]].level
    <3>1. ~(doc[stack[m]].level >= level)
      BY <2>3, <2>4
    <3>2. doc[stack[m]].level \in Nat /\ level \in Nat
      BY <1>3, <2>1
    <3>3. \A x, y \in Nat : ~(x >= y) => y > x
      OBVIOUS
    <3> QED
      BY <3>1, <3>2, <3>3, Zenon
  <2>6. CASE k = m
    BY <2>5, <2>6
  <2>7. CASE k # m
    <3>1. k < m
      BY <1>1, <1>7, <1>8, <2>7
    <3>2. stack[k] < stack[m]
      BY <1>1, <2>1, <3>1 DEF Increasing
    <3>3. stack[m] > stack[k]
      BY <1>2, <2>1, <3>2
    <3>4. stack[m] \in Headings(r)
      BY <1>2, <2>1 DEF Above
    <3>5. doc[stack[m]].level > doc[stack[k]].level
      BY <1>2, <3>3, <3>4 DEF Above
    <3>6. doc[stack[m]].level \in Nat /\ level \in Nat /\ doc[stack[k]].level \in Nat
      BY <1>3, <2>1
    <3>7. \A x, y, z \in Nat : x > y /\ y > z => x > z
      OBVIOUS
    <3> QED
      BY <2>5, <3>5, <3>6, <3>7
  <2> QED
    BY <2>6, <2>7
<1>9. ASSUME NEW k \in 1 .. Len(stack), ~(k <= m)
      PROVE  ~(level > doc[stack[k]].level)
  <2>1. k \in m + 1 .. Len(stack)
    BY <1>1, <1>7, <1>9
  <2>2. doc[stack[k]].level >= level
    BY <1>7, <2>1
  <2> QED
    BY <1>3, <2>2
<1> QED
  BY <1>6, <1>7, <1>8, <1>9

-----------------------------------------------------------------------------
(* What a flush keeps *)

LEMMA LineSums ==
  ASSUME doc \in Docs, NEW k \in 1 .. Len(doc) + 1, NEW to \in 0 .. Len(doc)
  PROVE  TokensByLine(k, to) \in Int /\ (k = to + 1 => TokensByLine(k, to) = 0)
<1> DEFINE n == [j \in DOMAIN doc |-> Estimate(doc[j].chars)]
<1>1. Len(doc) \in Nat /\ DOMAIN doc = 1 .. Len(doc) /\ \A j \in 1 .. Len(doc) : doc[j].chars \in Nat
  BY DocFacts
<1>2. Len(n) = Len(doc) /\ \A j \in 1 .. Len(doc) : n[j] \in Nat
  <2>1. \A j \in 1 .. Len(doc) : Estimate(doc[j].chars) \in Nat
    <3> SUFFICES ASSUME NEW j \in 1 .. Len(doc) PROVE Estimate(doc[j].chars) \in Nat
      OBVIOUS
    <3>1. doc[j].chars \in Nat /\ doc[j].chars <= doc[j].chars
      BY <1>1
    <3> QED
      BY <3>1, EstimateGrows
  <2>2. n \in Seq(Nat)
    BY <1>1, <2>1
  <2>3. DOMAIN n = 1 .. Len(n) /\ Len(n) \in Nat
    BY <2>2
  <2>4. Len(n) = Len(doc)
    BY <1>1, <2>3
  <2>5. \A j \in 1 .. Len(doc) : n[j] = Estimate(doc[j].chars)
    BY <1>1
  <2> QED
    BY <2>1, <2>4, <2>5
<1>3. TokensByLine(k, to) = Sums(n)[to] - Sums(n)[k - 1]
  BY DEF TokensByLine, Sum
<1> HIDE DEF n
<1>4. k - 1 \in 0 .. Len(doc)
  BY <1>1
<1>5. Sums(n)[to] \in Nat /\ Sums(n)[k - 1] \in Nat
  BY <1>1, <1>2, <1>4, SumsGrow
<1>6. k = to + 1 => k - 1 = to
  BY <1>1
<1> QED
  BY <1>3, <1>5, <1>6

LEMMA KeptRange ==
  ASSUME doc \in Docs, NEW from \in 1 .. Len(doc), NEW to \in from .. Len(doc)
  PROVE  KeptFrom(from, to) \in from .. to + 1
<1> DEFINE S == {k \in from .. to + 1 : TokensByLine(k, to) <= Overlap}
           Q(k) == /\ TokensByLine(k, to) <= Overlap
                   /\ \A j \in from .. k - 1 : TokensByLine(j, to) > Overlap
<1>1. Len(doc) \in Nat
  BY DocFacts
<1>2. \A k \in from .. to + 1 : TokensByLine(k, to) \in Int /\ (k = to + 1 => TokensByLine(k, to) = 0)
  <2> SUFFICES ASSUME NEW k \in from .. to + 1
               PROVE  TokensByLine(k, to) \in Int /\ (k = to + 1 => TokensByLine(k, to) = 0)
    OBVIOUS
  <2>1. k \in 1 .. Len(doc) + 1 /\ to \in 0 .. Len(doc)
    BY <1>1
  <2> QED
    BY <2>1, LineSums
<1>3. to + 1 \in S
  BY <1>1, <1>2, Sizes
<1>4. PICK x \in S : \A y \in S : x <= y
  <2>1. S \in SUBSET Nat /\ S # {}
    BY <1>1, <1>3
  <2> HIDE DEF S
  <2> QED
    BY <2>1, LeastOf
<1>5. x \in from .. to + 1 /\ TokensByLine(x, to) <= Overlap
  BY <1>4
<1>6. ASSUME NEW j \in from .. x - 1 PROVE TokensByLine(j, to) > Overlap
  <2>1. j \in from .. to + 1 /\ ~(x <= j)
    BY <1>1, <1>5
  <2>2. ~(TokensByLine(j, to) <= Overlap)
    BY <1>4, <2>1
  <2> QED
    BY <1>2, <2>1, <2>2, Sizes
<1>7. Q(x)
  BY <1>5, <1>6
<1>8. KeptFrom(from, to) = IF Overlap > 0 /\ from < to THEN CHOOSE k \in from .. to + 1 : Q(k) ELSE to + 1
  BY DEF KeptFrom
<1> HIDE DEF Q
<1>9. (CHOOSE k \in from .. to + 1 : Q(k)) \in from .. to + 1
  BY <1>5, <1>7
<1>10. to + 1 \in from .. to + 1
  BY <1>1
<1> QED
  BY <1>8, <1>9, <1>10

\* The solid lines of a stretch have a first and a last one.
LEMMA SolidEnds ==
  ASSUME NEW f \in Nat, NEW e \in Nat,
         NEW S, S = {i \in f .. e : ~Blank(i)}, S # {}
  PROVE  /\ Min(S) \in S /\ Max(S) \in S
         /\ \A i \in S : Min(S) <= i /\ i <= Max(S)
<1>1. S \in SUBSET Nat
  OBVIOUS
<1>2. \E x \in S : \A y \in S : x <= y
  BY <1>1, LeastOf
<1>3. Min(S) \in S /\ \A i \in S : Min(S) <= i
  BY <1>2 DEF Min
<1> DEFINE D == {d \in 0 .. e : e - d \in S}
<1>4. D \in SUBSET Nat /\ D # {}
  <2>1. PICK s \in S : TRUE
    OBVIOUS
  <2>2. s \in Nat /\ s <= e /\ e - (e - s) = s /\ e - s \in 0 .. e
    OBVIOUS
  <2>3. e - s \in D
    BY <2>1, <2>2
  <2>4. 0 .. e \subseteq Nat
    OBVIOUS
  <2>5. D \subseteq 0 .. e
    OBVIOUS
  <2> HIDE DEF D
  <2> QED
    BY <2>3, <2>4, <2>5
<1>5. PICK d \in D : \A y \in D : d <= y
  <2> HIDE DEF D
  <2> QED
    BY <1>4, LeastOf
<1>6. e - d \in S /\ d \in 0 .. e
  BY <1>5
<1>7. ASSUME NEW y \in S PROVE e - d >= y
  <2>1. y \in Nat /\ y <= e /\ e - (e - y) = y /\ e - y \in 0 .. e
    OBVIOUS
  <2>2. e - y \in D
    BY <2>1
  <2>3. d <= e - y
    BY <1>5, <2>2
  <2> QED
    BY <1>6, <2>1, <2>3
<1>8. \E x \in S : \A y \in S : x >= y
  BY <1>6, <1>7
<1>9. Max(S) \in S /\ \A i \in S : Max(S) >= i
  BY <1>8 DEF Max
<1>10. \A i \in S : i <= Max(S)
  BY <1>1, <1>9
<1> QED
  BY <1>3, <1>9, <1>10

-----------------------------------------------------------------------------
(* The chunks and the lines that wait *)

Chunk == [from : Nat, to : Nat, title : Seq(Nat), start : Nat,
          cut : {"whole", "heading", "size", "end"}, at : Nat]

CutOf(cs, k) == IF k = 1 THEN 0 ELSE cs[k - 1].at

LastCut(cs) == CutOf(cs, Len(cs) + 1)

\* Chunk c is cut where it is due, when the one before it was cut behind line p.
DueCut(c, p) ==
  /\ WasDue(c)
  /\ c.cut # "whole" => NoneWasDue(c, p)
  /\ c.cut \in {"size", "heading"} => ~InCode(c.to)

\* The lines f .. e are to be flushed, and why.
Reached(f, e, cut) ==
  /\ cut = "size" => ~InCode(e) /\ Tokens(f, e) >= TargetSize
  /\ cut = "heading" => e + 1 \in Headings(e + 1) /\ Tokens(f, e) >= TargetSize \div 2
  /\ cut = "end" => e = Len(doc)

\* The lines from f on, of which the last chunk before was cut behind line p, were
\* not to be cut up to line e, nor before a heading up to line h.
Due(p, f, e, h) ==
  /\ \A i \in p + 1 .. e : ~InCode(i) => Tokens(f, i) < TargetSize
  /\ \A g \in Headings(h) : g > p + 1 /\ g > f => Tokens(f, g - 1) < TargetSize \div 2

Within(c) == 1 <= c.from /\ c.from <= c.to /\ c.to <= Len(doc)

Sound(cs) ==
  /\ cs \in Seq(Chunk)
  /\ \A k \in 1 .. Len(cs) : Within(cs[k]) /\ DueCut(cs[k], CutOf(cs, k))
  /\ \A k \in 1 .. Len(cs) - 1 : cs[k].from <= cs[k + 1].from /\ cs[k].to <= cs[k + 1].to

Covers(cs, n) ==
  \A i \in 1 .. n - 1 : Blank(i) \/ \E k \in 1 .. Len(cs) : i \in cs[k].from .. cs[k].to

\* A chunk ends on a line that is not blank, and begins no later than what lies behind it.
Behind(cs, f, e) ==
  \A k \in 1 .. Len(cs) :
    /\ cs[k].to <= e /\ ~Blank(cs[k].to)
    /\ \A i \in f .. Len(doc) : ~Blank(i) => cs[k].from <= i

\* What every turn of the loop keeps of the chunks and the lines that wait.
Waiting(cs, f, e, h) ==
  /\ Sound(cs) /\ Covers(cs, f) /\ Behind(cs, f, e)
  /\ Due(LastCut(cs), f, e, h)

LEMMA CoversLess ==
  ASSUME NEW cs, NEW n \in Nat, NEW m \in 0 .. n, Covers(cs, n)
  PROVE  Covers(cs, m)
<1>1. 1 .. m - 1 \subseteq 1 .. n - 1
  OBVIOUS
<1> QED
  BY <1>1 DEF Covers

LEMMA ChunkFields ==
  ASSUME NEW c \in Chunk
  PROVE  c.from \in Nat /\ c.to \in Nat /\ c.start \in Nat /\ c.at \in Nat
BY DEF Chunk

LEMMA NewChunk ==
  ASSUME NEW a \in Nat, NEW b \in Nat, NEW path \in Seq(Nat), NEW cut \in {"whole", "heading", "size", "end"},
         NEW m \in Nat, NEW n \in Nat
  PROVE  [from |-> a, to |-> b, title |-> path, start |-> m, cut |-> cut, at |-> n] \in Chunk
BY DEF Chunk

LEMMA OneMore ==
  ASSUME NEW S, NEW cs \in Seq(S), NEW c \in S
  PROVE  /\ cs \o <<c>> \in Seq(S) /\ Len(cs) \in Nat
         /\ Len(cs \o <<c>>) = Len(cs) + 1
         /\ \A k \in 1 .. Len(cs) : (cs \o <<c>>)[k] = cs[k]
         /\ (cs \o <<c>>)[Len(cs) + 1] = c
OBVIOUS

LEMMA LastCutType ==
  ASSUME NEW cs \in Seq(Chunk)
  PROVE  LastCut(cs) \in Nat
<1>1. Len(cs) \in Nat /\ \A k \in 1 .. Len(cs) : cs[k] \in Chunk
  OBVIOUS
<1>2. CASE Len(cs) = 0
  BY <1>2 DEF LastCut, CutOf
<1>3. CASE Len(cs) # 0
  <2>1. Len(cs) \in 1 .. Len(cs) /\ Len(cs) + 1 # 1 /\ Len(cs) + 1 - 1 = Len(cs)
    BY <1>1, <1>3
  <2> QED
    BY <1>1, <2>1, ChunkFields DEF LastCut, CutOf
<1> QED
  BY <1>2, <1>3

LEMMA SoundAppend ==
  ASSUME NEW cs, Sound(cs), NEW c \in Chunk, Within(c), DueCut(c, LastCut(cs)),
         \A k \in 1 .. Len(cs) : cs[k].from <= c.from /\ cs[k].to <= c.to
  PROVE  Sound(cs \o <<c>>) /\ LastCut(cs \o <<c>>) = c.at
<1> DEFINE ds == cs \o <<c>>
<1>1. cs \in Seq(Chunk)
  BY DEF Sound
<1>2. /\ ds \in Seq(Chunk) /\ Len(cs) \in Nat /\ Len(ds) = Len(cs) + 1
      /\ \A k \in 1 .. Len(cs) : ds[k] = cs[k]
      /\ ds[Len(cs) + 1] = c
  BY <1>1, OneMore
<1> HIDE DEF ds
<1>3. ASSUME NEW k \in 1 .. Len(cs) + 1
      PROVE  CutOf(ds, k) = CutOf(cs, k)
  <2>1. CASE k = 1
    BY <2>1 DEF CutOf
  <2>2. CASE k # 1
    <3>1. k - 1 \in 1 .. Len(cs)
      BY <1>2, <2>2
    <3> QED
      BY <1>2, <3>1 DEF CutOf
  <2> QED
    BY <2>1, <2>2
<1>4. ASSUME NEW k \in 1 .. Len(ds)
      PROVE  Within(ds[k]) /\ DueCut(ds[k], CutOf(ds, k))
  <2>1. k \in 1 .. Len(cs) + 1
    BY <1>2
  <2>2. CASE k = Len(cs) + 1
    <3>1. ds[k] = c /\ CutOf(ds, k) = LastCut(cs)
      BY <1>2, <1>3, <2>1, <2>2 DEF LastCut
    <3> QED
      BY <3>1
  <2>3. CASE k # Len(cs) + 1
    <3>1. k \in 1 .. Len(cs)
      BY <1>2, <2>1, <2>3
    <3>2. ds[k] = cs[k] /\ CutOf(ds, k) = CutOf(cs, k)
      BY <1>2, <1>3, <2>1, <3>1
    <3> QED
      BY <3>1, <3>2 DEF Sound
  <2> QED
    BY <2>2, <2>3
<1>5. ASSUME NEW k \in 1 .. Len(ds) - 1
      PROVE  ds[k].from <= ds[k + 1].from /\ ds[k].to <= ds[k + 1].to
  <2>1. k \in 1 .. Len(cs) /\ ds[k] = cs[k]
    BY <1>2
  <2>2. CASE k = Len(cs)
    <3>1. ds[k + 1] = c
      BY <1>2, <2>2
    <3> QED
      BY <2>1, <3>1
  <2>3. CASE k # Len(cs)
    <3>1. k + 1 \in 1 .. Len(cs) /\ k \in 1 .. Len(cs) - 1
      BY <1>2, <2>1, <2>3
    <3>2. ds[k + 1] = cs[k + 1]
      BY <1>2, <3>1
    <3> QED
      BY <2>1, <3>1, <3>2 DEF Sound
  <2> QED
    BY <2>2, <2>3
<1>6. Sound(ds)
  BY <1>2, <1>4, <1>5 DEF Sound
<1>7. LastCut(ds) = c.at
  <2>1. Len(ds) + 1 - 1 = Len(cs) + 1 /\ Len(ds) + 1 # 1
    BY <1>2
  <2> QED
    BY <1>2, <2>1 DEF LastCut, CutOf
<1> QED
  BY <1>6, <1>7 DEF ds

-----------------------------------------------------------------------------
(* A flush *)

\* What a flush of blank lines does: it keeps none of them.
LEMMA FlushBlank ==
  ASSUME doc \in Docs, NEW cs, NEW e \in 1 .. Len(doc), NEW f \in 1 .. e,
         \A i \in f .. e : Blank(i),
         Sound(cs), Covers(cs, f), Behind(cs, f, e), NEW p \in Nat, NEW h \in 0 .. e + 1
  PROVE  Covers(cs, e + 1) /\ Behind(cs, e + 1, e) /\ Due(p, e + 1, e, h)
<1>1. Len(doc) \in Nat /\ e \in Nat /\ f \in Nat
  BY DocFacts
<1>2. Covers(cs, e + 1)
  <2> SUFFICES ASSUME NEW i \in 1 .. e
               PROVE  Blank(i) \/ \E k \in 1 .. Len(cs) : i \in cs[k].from .. cs[k].to
    BY <1>1 DEF Covers
  <2>1. i \in f .. e \/ i \in 1 .. f - 1
    BY <1>1
  <2> QED
    BY <2>1 DEF Covers
<1>3. Behind(cs, e + 1, e)
  <2>1. e + 1 .. Len(doc) \subseteq f .. Len(doc)
    BY <1>1
  <2> QED
    BY <2>1 DEF Behind
<1>4. Due(p, e + 1, e, h)
  <2>1. ASSUME NEW i \in p + 1 .. e PROVE Tokens(e + 1, i) < TargetSize
    <3>1. e + 1 > i
      BY <1>1
    <3>2. Tokens(e + 1, i) = 0
      BY <3>1 DEF Tokens
    <3> QED
      BY <3>2, Sizes
  <2>2. ASSUME NEW g \in Headings(h) PROVE ~(g > e + 1)
    <3>1. g \in 1 .. h
      BY DEF Headings
    <3> QED
      BY <1>1, <3>1
  <2> QED
    BY <2>1, <2>2 DEF Due
<1> QED
  BY <1>2, <1>3, <1>4

\* The chunk a flush makes of the lines f .. e.
LEMMA FlushChunk ==
  ASSUME doc \in Docs, NEW cs, NEW e \in 1 .. Len(doc), NEW f \in 1 .. e,
         NEW c \in Chunk, c.from \in f .. e, c.to \in c.from .. e, c.start = f, c.at = e,
         c.cut \in {"heading", "size", "end"}, Reached(f, e, c.cut),
         ~Blank(c.from), ~Blank(c.to), \A i \in f .. e : ~Blank(i) => c.from <= i /\ i <= c.to,
         Sound(cs), Covers(cs, f), Behind(cs, f, e), Due(LastCut(cs), f, e - 1, e),
         c.cut # "end" => ~InCode(e)
  PROVE  Sound(cs \o <<c>>) /\ LastCut(cs \o <<c>>) = e
<1>1. Len(doc) \in Nat /\ e \in Nat /\ f \in Nat /\ c.from \in Nat /\ c.to \in Nat
  BY DocFacts, ChunkFields
<1>2. Within(c)
  BY <1>1 DEF Within
<1>3. LastCut(cs) \in Nat
  BY LastCutType DEF Sound
<1>4. InCode(e) <=> InCode(c.to)
  <2>1. ASSUME NEW j \in c.to + 1 .. e PROVE Blank(j)
    <3>1. j \in f .. e /\ ~(j <= c.to)
      BY <1>1
    <3> QED
      BY <3>1
  <2>2. c.to <= e
    BY <1>1
  <2> QED
    BY <1>1, <2>1, <2>2, BlankTail
<1>5. WasDue(c)
  <2>1. c.cut # "whole"
    OBVIOUS
  <2> QED
    BY <2>1 DEF WasDue, Reached
<1>6. DueCut(c, LastCut(cs))
  <2>1. ASSUME NEW i \in LastCut(cs) + 1 .. c.at - 1, ~InCode(i)
        PROVE  Tokens(c.start, i) < TargetSize
    BY <2>1 DEF Due
  <2>2. ASSUME NEW h \in Headings(c.at), h > LastCut(cs) + 1
        PROVE  Tokens(c.start, h - 1) < TargetSize \div 2
    <3>1. h \in 1 .. e
      BY DEF Headings
    <3>2. CASE h > f
      BY <2>2, <3>2 DEF Due
    <3>3. CASE ~(h > f)
      <4>1. f > h - 1
        BY <1>1, <3>1, <3>3
      <4>2. Tokens(f, h - 1) = 0
        BY <4>1 DEF Tokens
      <4>3. 0 < TargetSize \div 2
        BY Sizes
      <4> QED
        BY <4>2, <4>3
    <3> QED
      BY <3>2, <3>3
  <2>3. NoneWasDue(c, LastCut(cs))
    BY <2>1, <2>2 DEF NoneWasDue
  <2>4. c.cut \in {"size", "heading"} => ~InCode(c.to)
    BY <1>4
  <2> QED
    BY <1>5, <2>3, <2>4 DEF DueCut
<1>7. ASSUME NEW k \in 1 .. Len(cs)
      PROVE  cs[k].from <= c.from /\ cs[k].to <= c.to
  <2>1. cs[k] \in Chunk
    BY DEF Sound
  <2>2. cs[k].from \in Nat /\ cs[k].to \in Nat /\ cs[k].to <= e /\ ~Blank(cs[k].to)
    BY <2>1, ChunkFields DEF Behind
  <2>3. cs[k].from <= c.from
    <3>1. c.from \in f .. Len(doc)
      BY <1>1
    <3> QED
      BY <3>1 DEF Behind
  <2>4. cs[k].to <= c.to
    <3>1. CASE cs[k].to >= f
      <4>1. cs[k].to \in f .. e
        BY <1>1, <2>2, <3>1
      <4> QED
        BY <2>2, <4>1
    <3>2. CASE ~(cs[k].to >= f)
      BY <1>1, <2>2, <3>2
    <3> QED
      BY <3>1, <3>2
  <2> QED
    BY <2>3, <2>4
<1> QED
  BY <1>2, <1>6, <1>7, SoundAppend

LEMMA FlushedIs ==
  ASSUME doc \in Docs, NEW e \in 1 .. Len(doc), NEW f \in 1 .. e, NEW path, NEW cut
  PROVE  /\ (\A i \in f .. e : Blank(i)) =>
              Flushed(f, e, path, cut).chunks = <<>> /\ Flushed(f, e, path, cut).first = e + 1
         /\ (\E i \in f .. e : ~Blank(i)) =>
              \E a, b \in f .. e :
                /\ ~Blank(a) /\ ~Blank(b) /\ \A i \in f .. e : ~Blank(i) => a <= i /\ i <= b
                /\ Flushed(f, e, path, cut).chunks =
                     <<[from |-> a, to |-> b, title |-> path, start |-> f, cut |-> cut, at |-> e]>>
                /\ Flushed(f, e, path, cut).first = KeptFrom(f, e)
<1> DEFINE S == {i \in f .. e : ~Blank(i)}
<1>0. f \in Nat /\ e \in Nat
  BY DocFacts
<1>1. Flushed(f, e, path, cut) =
        IF S = {} THEN [chunks |-> <<>>, first |-> e + 1]
        ELSE [chunks |-> <<[from |-> Min(S), to |-> Max(S), title |-> path, start |-> f,
                            cut |-> cut, at |-> e]>>,
              first |-> KeptFrom(f, e)]
  BY DEF Flushed
<1>2. CASE S = {}
  <2>1. \A i \in f .. e : Blank(i)
    BY <1>2
  <2>2. Flushed(f, e, path, cut) = [chunks |-> <<>>, first |-> e + 1]
    BY <1>1, <1>2
  <2>3. Flushed(f, e, path, cut).chunks = <<>> /\ Flushed(f, e, path, cut).first = e + 1
    BY <2>2
  <2> QED
    BY <2>1, <2>3
<1>3. CASE S # {}
  <2>1. \E i \in f .. e : ~Blank(i)
    BY <1>3
  <2> DEFINE a == Min(S)
             b == Max(S)
             c == [from |-> a, to |-> b, title |-> path, start |-> f, cut |-> cut, at |-> e]
  <2>2. a \in S /\ b \in S /\ \A i \in S : a <= i /\ i <= b
    <3> HIDE DEF a, b
    <3>1. S = {i \in f .. e : ~Blank(i)}
      OBVIOUS
    <3> HIDE DEF S
    <3> QED
      BY <1>0, <1>3, <3>1, SolidEnds DEF a, b
  <2>3. Flushed(f, e, path, cut) = [chunks |-> <<c>>, first |-> KeptFrom(f, e)]
    BY <1>1, <1>3
  <2> HIDE DEF c
  <2>4. Flushed(f, e, path, cut).chunks = <<c>> /\ Flushed(f, e, path, cut).first = KeptFrom(f, e)
    BY <2>3
  <2> HIDE DEF a, b
  <2>5. /\ a \in f .. e /\ b \in f .. e
        /\ ~Blank(a) /\ ~Blank(b) /\ \A i \in f .. e : ~Blank(i) => a <= i /\ i <= b
    BY <2>2
  <2> QED
    BY <2>1, <2>4, <2>5 DEF c
<1> QED
  BY <1>2, <1>3

\* A flush of the lines that wait leaves chunks that are sound, cover all of them, and
\* lines that wait and are not due.
LEMMA FlushKeeps ==
  ASSUME doc \in Docs, NEW cs, NEW e \in 1 .. Len(doc), NEW f \in 1 .. e,
         NEW path \in Seq(Nat), NEW cut \in {"heading", "size", "end"},
         cut # "end" => ~InCode(e), Reached(f, e, cut),
         Sound(cs), Covers(cs, f), Behind(cs, f, e), Due(LastCut(cs), f, e - 1, e)
  PROVE  /\ Flushed(f, e, path, cut).first \in f .. e + 1
         /\ Covers(cs \o Flushed(f, e, path, cut).chunks, e + 1)
         /\ Waiting(cs \o Flushed(f, e, path, cut).chunks, Flushed(f, e, path, cut).first, e, e + 1)
<1> DEFINE ds == cs \o Flushed(f, e, path, cut).chunks
           g == Flushed(f, e, path, cut).first
<1>a. ds = cs \o Flushed(f, e, path, cut).chunks /\ g = Flushed(f, e, path, cut).first
  OBVIOUS
<1> HIDE DEF ds, g
<1> SUFFICES /\ g \in f .. e + 1
             /\ Sound(ds) /\ Covers(ds, e + 1) /\ Behind(ds, g, e)
             /\ Due(LastCut(ds), g, e, e + 1)
  <2>1. e + 1 \in Nat /\ \A x \in f .. e + 1 : x \in 0 .. e + 1
    BY DocFacts
  <2>2. Covers(ds, g)
    BY <2>1, CoversLess
  <2> QED
    BY <1>a, <2>2 DEF Waiting
<1>1. Len(doc) \in Nat /\ e \in Nat /\ f \in Nat
  BY DocFacts
<1>2. cs \in Seq(Chunk)
  BY DEF Sound
<1>3. CASE \A i \in f .. e : Blank(i)
  <2>1. Flushed(f, e, path, cut).chunks = <<>> /\ g = e + 1
    BY <1>a, <1>3, FlushedIs
  <2>2. ds = cs
    BY <1>a, <1>2, <2>1
  <2>3. LastCut(cs) \in Nat /\ e + 1 \in 0 .. e + 1
    BY <1>1, <1>2, LastCutType
  <2>4. Covers(cs, e + 1) /\ Behind(cs, e + 1, e) /\ Due(LastCut(cs), e + 1, e, e + 1)
    BY <1>3, <2>3, FlushBlank
  <2>5. g \in f .. e + 1
    BY <1>1, <2>1
  <2> QED
    BY <2>1, <2>2, <2>4, <2>5
<1>4. CASE \E i \in f .. e : ~Blank(i)
  <2>1. PICK a, b \in f .. e :
          /\ ~Blank(a) /\ ~Blank(b) /\ \A i \in f .. e : ~Blank(i) => a <= i /\ i <= b
          /\ Flushed(f, e, path, cut).chunks =
               <<[from |-> a, to |-> b, title |-> path, start |-> f, cut |-> cut, at |-> e]>>
          /\ Flushed(f, e, path, cut).first = KeptFrom(f, e)
    BY <1>4, FlushedIs
  <2> DEFINE c == [from |-> a, to |-> b, title |-> path, start |-> f, cut |-> cut, at |-> e]
  <2>2. c.from = a /\ c.to = b /\ c.start = f /\ c.at = e /\ c.cut = cut
    OBVIOUS
  <2>3. c \in Chunk
    <3>1. a \in Nat /\ b \in Nat
      BY <1>1
    <3>2. cut \in {"whole", "heading", "size", "end"}
      OBVIOUS
    <3> QED
      BY <1>1, <3>1, <3>2, NewChunk
  <2>4. ds = cs \o <<c>>
    BY <1>a, <2>1
  <2> HIDE DEF c
  <2>5. c.from \in f .. e /\ c.to \in c.from .. e
    BY <1>1, <2>1, <2>2
  <2>6. /\ ~Blank(c.from) /\ ~Blank(c.to)
        /\ \A i \in f .. e : ~Blank(i) => c.from <= i /\ i <= c.to
        /\ c.cut # "end" => ~InCode(e)
        /\ c.cut \in {"heading", "size", "end"} /\ Reached(f, e, c.cut)
    BY <2>1, <2>2
  <2>7. Sound(ds) /\ LastCut(ds) = e
    <3>1. Sound(cs \o <<c>>) /\ LastCut(cs \o <<c>>) = e
      BY <2>2, <2>3, <2>5, <2>6, FlushChunk
    <3> QED
      BY <2>4, <3>1
  <2>8. g \in f .. e + 1
    <3>1. f \in 1 .. Len(doc) /\ e \in f .. Len(doc)
      BY <1>1
    <3> QED
      BY <1>a, <2>1, <3>1, KeptRange
  <2>9. /\ Len(cs) \in Nat /\ Len(ds) = Len(cs) + 1
        /\ \A k \in 1 .. Len(cs) : ds[k] = cs[k]
        /\ ds[Len(cs) + 1] = c
    BY <1>2, <2>3, <2>4, OneMore
  <2>10. Covers(ds, e + 1)
    <3> SUFFICES ASSUME NEW i \in 1 .. e, ~Blank(i)
                 PROVE  \E k \in 1 .. Len(ds) : i \in ds[k].from .. ds[k].to
      BY <1>1 DEF Covers
    <3>1. CASE i \in f .. e
      <4>1. i \in c.from .. c.to
        BY <1>1, <2>5, <2>6, <3>1
      <4>2. Len(cs) + 1 \in 1 .. Len(ds)
        BY <2>9
      <4> QED
        BY <2>9, <4>1, <4>2
    <3>2. CASE i \notin f .. e
      <4>1. i \in 1 .. f - 1
        BY <1>1, <3>2
      <4>2. PICK k \in 1 .. Len(cs) : i \in cs[k].from .. cs[k].to
        BY <4>1 DEF Covers
      <4>3. k \in 1 .. Len(ds)
        BY <2>9
      <4> QED
        BY <2>9, <4>2, <4>3
    <3> QED
      BY <3>1, <3>2
  <2>11. Behind(ds, g, e)
    <3> SUFFICES ASSUME NEW k \in 1 .. Len(ds)
                 PROVE  /\ ds[k].to <= e /\ ~Blank(ds[k].to)
                        /\ \A i \in g .. Len(doc) : ~Blank(i) => ds[k].from <= i
      BY DEF Behind
    <3>1. \A i \in g .. Len(doc) : i \in f .. Len(doc)
      BY <1>1, <2>8
    <3>2. CASE k \in 1 .. Len(cs)
      BY <2>9, <3>1, <3>2 DEF Behind
    <3>3. CASE k \notin 1 .. Len(cs)
      <4>1. ds[k] = c
        BY <2>9, <3>3
      <4>2. ASSUME NEW i \in g .. Len(doc), ~Blank(i) PROVE c.from <= i
        <5>1. i \in f .. e \/ i > e
          BY <1>1, <3>1
        <5>2. i \in Nat /\ c.from \in Nat /\ c.from <= e
          BY <1>1, <2>5, <3>1
        <5> QED
          BY <1>1, <2>6, <4>2, <5>1, <5>2
      <4>3. c.to <= e
        BY <1>1, <2>5
      <4> QED
        BY <2>6, <4>1, <4>2, <4>3
    <3> QED
      BY <3>2, <3>3
  <2>12. Due(LastCut(ds), g, e, e + 1)
    <3>1. e + 1 .. e = {}
      BY <1>1
    <3>2. ASSUME NEW h \in Headings(e + 1) PROVE ~(h > e + 1)
      <4>1. h \in 1 .. e + 1
        BY DEF Headings
      <4> QED
        BY <1>1, <4>1
    <3> QED
      BY <2>7, <3>1, <3>2 DEF Due
  <2> QED
    BY <2>7, <2>8, <2>10, <2>11, <2>12
<1> QED
  BY <1>3, <1>4

-----------------------------------------------------------------------------
(* The loop *)

LEMMA Less ==
  ASSUME doc \in Docs, NEW cs, Sound(cs), NEW f \in Nat, NEW n \in Nat, NEW e \in 0 .. n, NEW p \in Nat
  PROVE  /\ Due(p, f, n, n) => Due(p, f, e, e) /\ Due(p, f, e, n)
         /\ Due(p, f, n, n + 1) => Due(p, f, n, n)
         /\ Covers(cs, n) => Covers(cs, e)
         /\ Behind(cs, f, e) => Behind(cs, f, n)
<1>1. n \in Nat /\ e \in Nat /\ e <= n
  OBVIOUS
<1>2. Headings(e) \subseteq Headings(n) /\ Headings(n) \subseteq Headings(n + 1)
  <2>1. 1 .. e \subseteq 1 .. n /\ 1 .. n \subseteq 1 .. n + 1
    BY <1>1
  <2> QED
    BY <2>1 DEF Headings
<1>3. p + 1 .. e \subseteq p + 1 .. n
  BY <1>1
<1>4. 1 .. e - 1 \subseteq 1 .. n - 1
  BY <1>1
<1>5. ASSUME Behind(cs, f, e) PROVE Behind(cs, f, n)
  <2> SUFFICES ASSUME NEW k \in 1 .. Len(cs) PROVE cs[k].to <= n
    BY <1>5 DEF Behind
  <2>1. cs[k] \in Chunk
    BY DEF Sound
  <2>2. cs[k].to \in Nat /\ cs[k].to <= e
    BY <1>5, <2>1, ChunkFields DEF Behind
  <2> QED
    BY <1>1, <2>2
<1> QED
  BY <1>2, <1>3, <1>4, <1>5 DEF Due, Covers

\* The conjuncts of the inductive invariant.
Places ==
  doc \in Docs /\ read \in 0 .. Len(doc) /\ first \in 1 .. read + 1

CodeKnown == in_code = InCode(read)

PathKnown == stack \in Seq(Nat) /\ HeadingHierarchy

AllCut == Sound(chunks) /\ Covers(chunks, Len(doc) + 1)

StillCutting == Waiting(chunks, first, read, read)

IInv ==
  /\ Places /\ CodeKnown /\ PathKnown
  /\ done => AllCut
  /\ ~done => StillCutting

LEMMA KeptIs ==
  ASSUME NEW cs \in Seq(Chunk), NEW f
  PROVE  cs \o Kept(f).chunks = cs /\ Kept(f).first = f
<1>1. Kept(f).chunks = <<>> /\ Kept(f).first = f
  BY DEF Kept
<1>2. cs \o <<>> = cs
  OBVIOUS
<1> QED
  BY <1>1, <1>2

\* Before the line is added to those that wait.
LEMMA HeadingWaits ==
  ASSUME IInv, ~done, read < Len(doc), NEW path \in Seq(Nat), NEW heading \in BOOLEAN,
         heading <=> doc[read + 1].kind = "heading" /\ ~InCode(read + 1),
         NEW before, before = IF heading THEN AtHeading(path) ELSE Kept(first)
  PROVE  before.first \in 1 .. read + 1 /\ Waiting(chunks \o before.chunks, before.first, read, read + 1)
<1>1. /\ doc \in Docs /\ Len(doc) \in Nat /\ read \in Nat /\ read <= Len(doc) /\ first \in 1 .. read + 1
      /\ Waiting(chunks, first, read, read)
  BY DocFacts DEF IInv, Places, StillCutting
<1>2. Sound(chunks) /\ chunks \in Seq(Chunk) /\ LastCut(chunks) \in Nat
  BY <1>1, LastCutType DEF Waiting, Sound
<1>3. CASE heading /\ first <= read /\ Tokens(first, read) >= TargetSize \div 2
  <2>1. before = Flushed(first, read, path, "heading")
    BY <1>3 DEF AtHeading
  <2>2. ~InCode(read)
    BY <1>1, <1>3, InCodeStep
  <2>3. read \in 1 .. Len(doc) /\ first \in 1 .. read /\ read - 1 \in 0 .. read
    BY <1>1, <1>3
  <2>4. /\ Sound(chunks) /\ Covers(chunks, first) /\ Behind(chunks, first, read)
        /\ Due(LastCut(chunks), first, read - 1, read)
    <3>1. first \in Nat
      BY <1>1
    <3>2. Due(LastCut(chunks), first, read - 1, read)
      BY <1>1, <1>2, <2>3, <3>1, Less DEF Waiting
    <3> QED
      BY <1>1, <3>2 DEF Waiting
  <2>5. Reached(first, read, "heading")
    <3>1. read + 1 \in 1 .. read + 1
      BY <1>1
    <3> QED
      BY <1>3, <3>1 DEF Reached, Headings
  <2>6. before.first \in first .. read + 1 /\ Waiting(chunks \o before.chunks, before.first, read, read + 1)
    BY <1>1, <2>1, <2>2, <2>3, <2>4, <2>5, FlushKeeps
  <2> QED
    BY <1>1, <2>6
<1>4. CASE ~(heading /\ first <= read /\ Tokens(first, read) >= TargetSize \div 2)
  <2>1. before = Kept(first)
    BY <1>4 DEF AtHeading
  <2>2. chunks \o before.chunks = chunks /\ before.first = first
    BY <1>2, <2>1, KeptIs
  <2>3. ASSUME NEW g \in Headings(read + 1), g > LastCut(chunks) + 1, g > first
        PROVE  Tokens(first, g - 1) < TargetSize \div 2
    <3>1. CASE g \in Headings(read)
      BY <1>1, <2>3, <3>1 DEF Waiting, Due
    <3>2. CASE g \notin Headings(read)
      <4>1. heading /\ g = read + 1
        BY <1>1, <3>2, HeadingsStep
      <4>2. first <= read /\ g - 1 = read
        BY <1>1, <2>3, <4>1
      <4>3. ~(Tokens(first, read) >= TargetSize \div 2)
        BY <1>4, <4>1, <4>2
      <4>4. Tokens(first, read) \in Nat /\ TargetSize \div 2 \in Nat
        <5>1. first \in 1 .. Len(doc) /\ read \in 0 .. Len(doc) /\ first \in first .. Len(doc) + 1
          BY <1>1, <4>2
        <5> QED
          BY <1>1, <5>1, TokensShrink, Sizes
      <4>5. \A x, y \in Nat : ~(x >= y) => x < y
        OBVIOUS
      <4> QED
        BY <4>2, <4>3, <4>4, <4>5
    <3> QED
      BY <3>1, <3>2
  <2>4. Due(LastCut(chunks), first, read, read + 1)
    BY <1>1, <2>3 DEF Waiting, Due
  <2> QED
    BY <1>1, <2>2, <2>4 DEF Waiting
<1> QED
  BY <1>3, <1>4

\* After the line was added to them.
LEMMA SizeWaits ==
  ASSUME doc \in Docs, NEW e \in 1 .. Len(doc), NEW f \in 1 .. e, NEW cs, Waiting(cs, f, e - 1, e),
         NEW path \in Seq(Nat), NEW full \in BOOLEAN,
         full <=> ~InCode(e) /\ Tokens(f, e) >= TargetSize,
         NEW after, after = IF full THEN Flushed(f, e, path, "size") ELSE Kept(f)
  PROVE  after.first \in 1 .. e + 1 /\ Waiting(cs \o after.chunks, after.first, e, e)
<1>1. Len(doc) \in Nat /\ e \in Nat /\ f \in Nat /\ e - 1 \in Nat /\ e - 1 \in 0 .. e
  BY DocFacts
<1>2. /\ Sound(cs) /\ Covers(cs, f) /\ Behind(cs, f, e - 1)
      /\ Due(LastCut(cs), f, e - 1, e)
  BY DEF Waiting
<1>3. cs \in Seq(Chunk) /\ LastCut(cs) \in Nat
  BY <1>2, LastCutType DEF Sound
<1>4. Behind(cs, f, e)
  BY <1>1, <1>2, <1>3, Less
<1>5. CASE full
  <2>1. after = Flushed(f, e, path, "size") /\ ~InCode(e) /\ Reached(f, e, "size")
    BY <1>5 DEF Reached
  <2>2. /\ after.first \in f .. e + 1
        /\ Waiting(cs \o after.chunks, after.first, e, e + 1)
    BY <1>2, <1>4, <2>1, FlushKeeps
  <2>3. after.first \in Nat /\ after.first \in 1 .. e + 1
    BY <1>1, <2>2
  <2>4. Due(LastCut(cs \o after.chunks), after.first, e, e)
    <3>1. Headings(e) \subseteq Headings(e + 1)
      <4>1. 1 .. e \subseteq 1 .. e + 1
        BY <1>1
      <4> QED
        BY <4>1 DEF Headings
    <3> QED
      BY <2>2, <3>1 DEF Waiting, Due
  <2> QED
    BY <2>2, <2>3, <2>4 DEF Waiting
<1>6. CASE ~full
  <2>1. after = Kept(f)
    BY <1>6
  <2>2. cs \o after.chunks = cs /\ after.first = f
    BY <1>3, <2>1, KeptIs
  <2>3. Due(LastCut(cs), f, e, e)
    <3>1. ASSUME NEW i \in LastCut(cs) + 1 .. e, ~InCode(i) PROVE Tokens(f, i) < TargetSize
      <4>1. CASE i = e
        <5>1. ~(Tokens(f, e) >= TargetSize)
          BY <1>6, <3>1, <4>1
        <5>2. Tokens(f, e) \in Nat
          <6>1. f \in 1 .. Len(doc) /\ e \in 0 .. Len(doc) /\ f \in f .. Len(doc) + 1
            BY <1>1
          <6> QED
            BY <6>1, TokensShrink
        <5>3. \A x, y \in Nat : ~(x >= y) => x < y
          OBVIOUS
        <5> QED
          BY <4>1, <5>1, <5>2, <5>3, Sizes
      <4>2. CASE i # e
        <5>1. i \in LastCut(cs) + 1 .. e - 1
          BY <1>1, <1>3, <4>2
        <5> QED
          BY <1>2, <3>1, <5>1 DEF Due
      <4> QED
        BY <4>1, <4>2
    <3> QED
      BY <1>2, <3>1 DEF Due
  <2>4. f \in 1 .. e + 1
    BY <1>1
  <2> QED
    BY <1>2, <1>4, <2>2, <2>3, <2>4 DEF Waiting
<1> QED
  BY <1>5, <1>6

LEMMA Appended ==
  ASSUME NEW s \in Seq(Nat), NEW x \in Nat
  PROVE  /\ Append(s, x) \in Seq(Nat) /\ DOMAIN Append(s, x) = 1 .. Len(s) + 1
         /\ \A k \in 1 .. Len(s) : Append(s, x)[k] = s[k]
         /\ Append(s, x)[Len(s) + 1] = x
OBVIOUS

\* The path of headings behind the next line.
LEMMA PathStep ==
  ASSUME IInv, read < Len(doc), NEW heading \in BOOLEAN,
         heading <=> doc[read + 1].kind = "heading" /\ ~InCode(read + 1),
         NEW path, path = IF heading THEN Append(Popped(doc[read + 1].level), read + 1) ELSE stack
  PROVE  path \in Seq(Nat) /\ ToSet(path) = Above(read + 1) /\ Increasing(path)
<1>1. /\ doc \in Docs /\ Len(doc) \in Nat /\ read \in Nat /\ read \in 0 .. Len(doc)
      /\ stack \in Seq(Nat) /\ ToSet(stack) = Above(read) /\ Increasing(stack)
  BY DocFacts DEF IInv, Places, PathKnown, HeadingHierarchy, Increasing
<1>2. read + 1 <= Len(doc) /\ read + 1 \in 1 .. Len(doc)
  BY <1>1
<1>3. CASE ~heading
  BY <1>1, <1>2, <1>3, AboveStep
<1>4. CASE heading
  <2> DEFINE level == doc[read + 1].level
  <2>1. level \in 0 .. 6
    BY <1>1, <1>2, DocFacts
  <2>2. PICK m \in 0 .. Len(stack) :
          /\ Popped(level) = SubSeq(stack, 1, m)
          /\ \A k \in 1 .. Len(stack) : k <= m <=> level > doc[stack[k]].level
    <3> HIDE DEF level
    <3> QED
      BY <1>1, <2>1, PoppedIs
  <2>3. path = Append(SubSeq(stack, 1, m), read + 1)
    BY <1>4, <2>2
  <2>4. Above(read + 1) = {h \in Above(read) : level > doc[h].level} \cup {read + 1}
    BY <1>1, <1>2, <1>4, AboveStep
  <2> HIDE DEF level
  <2>5. Len(stack) \in Nat /\ m \in Nat /\ m <= Len(stack) /\ DOMAIN stack = 1 .. Len(stack)
    BY <1>1
  <2>6. /\ path \in Seq(Nat) /\ DOMAIN path = 1 .. m + 1
        /\ \A k \in 1 .. m : path[k] = stack[k]
        /\ path[m + 1] = read + 1
    <3>1. SubSeq(stack, 1, m) \in Seq(Nat) /\ Len(SubSeq(stack, 1, m)) = m
          /\ \A k \in 1 .. m : SubSeq(stack, 1, m)[k] = stack[k]
      BY <1>1, <2>5
    <3> DEFINE s == SubSeq(stack, 1, m)
    <3> HIDE DEF s
    <3>2. s \in Seq(Nat) /\ Len(s) = m /\ \A k \in 1 .. m : s[k] = stack[k]
      BY <3>1 DEF s
    <3>3. path = Append(s, read + 1)
      BY <2>3 DEF s
    <3>4. read + 1 \in Nat
      BY <1>1
    <3> DEFINE x == read + 1
    <3> HIDE DEF x
    <3>5. /\ Append(s, x) \in Seq(Nat) /\ DOMAIN Append(s, x) = 1 .. Len(s) + 1
          /\ \A k \in 1 .. Len(s) : Append(s, x)[k] = s[k]
          /\ Append(s, x)[Len(s) + 1] = x
      BY <3>2, <3>4, Appended DEF x
    <3>6. path = Append(s, x)
      BY <3>3 DEF x
    <3>7. path \in Seq(Nat) /\ DOMAIN path = 1 .. m + 1 /\ path[m + 1] = x
      BY <3>2, <3>5, <3>6
    <3>8. \A k \in 1 .. m : path[k] = stack[k]
      BY <3>2, <3>5, <3>6
    <3> QED
      BY <3>7, <3>8 DEF x
  <2>7. \A k \in 1 .. Len(stack) : stack[k] \in Above(read) /\ stack[k] \in 1 .. read
    <3>1. \A k \in 1 .. Len(stack) : stack[k] \in Above(read)
      BY <1>1, <2>5 DEF ToSet
    <3> QED
      BY <3>1 DEF Above, Headings
  <2>8. ASSUME NEW k \in 1 .. m PROVE path[k] \in Above(read + 1)
    <3>1. k \in 1 .. Len(stack) /\ k <= m
      BY <2>5
    <3> QED
      BY <2>2, <2>4, <2>6, <2>7, <3>1
  <2>9. ASSUME NEW h \in Above(read + 1) PROVE \E k \in 1 .. m + 1 : path[k] = h
    <3>1. CASE h = read + 1
      <4>1. m + 1 \in 1 .. m + 1
        BY <2>5
      <4> QED
        BY <2>6, <3>1, <4>1
    <3>2. CASE h # read + 1
      <4>1. h \in Above(read) /\ level > doc[h].level
        BY <2>4, <3>2
      <4>2. PICK k \in 1 .. Len(stack) : stack[k] = h
        BY <1>1, <2>5, <4>1 DEF ToSet
      <4>3. k <= m
        BY <2>2, <4>1, <4>2
      <4>4. k \in 1 .. m /\ k \in 1 .. m + 1
        BY <2>5, <4>3
      <4> QED
        BY <2>6, <4>2, <4>4
    <3> QED
      BY <3>1, <3>2
  <2>10. ToSet(path) = Above(read + 1)
    <3>1. ToSet(path) = {path[k] : k \in 1 .. m + 1}
      BY <2>6 DEF ToSet
    <3>2. \A k \in 1 .. m + 1 : k \in 1 .. m \/ k = m + 1
      BY <2>5
    <3>3. read + 1 \in Above(read + 1)
      BY <2>4
    <3>4. \A k \in 1 .. m + 1 : path[k] \in Above(read + 1)
      BY <2>6, <2>8, <3>2, <3>3
    <3>5. ToSet(path) \subseteq Above(read + 1)
      BY <3>1, <3>4
    <3>6. Above(read + 1) \subseteq ToSet(path)
      BY <2>9, <3>1
    <3> QED
      BY <3>5, <3>6
  <2>11. Increasing(path)
    <3> SUFFICES ASSUME NEW i \in 1 .. m + 1, NEW j \in 1 .. m + 1, i < j
                 PROVE  path[i] < path[j]
      BY <2>6 DEF Increasing
    <3>1. i \in 1 .. m /\ i \in 1 .. Len(stack)
      BY <2>5
    <3>2. CASE j = m + 1
      <4>1. stack[i] \in 1 .. read
        BY <2>7, <3>1
      <4>2. stack[i] < read + 1
        BY <1>1, <4>1
      <4> QED
        BY <2>6, <3>1, <3>2, <4>2
    <3>3. CASE j # m + 1
      <4>1. j \in 1 .. m /\ j \in 1 .. Len(stack)
        BY <2>5, <3>3
      <4> QED
        BY <1>1, <2>5, <2>6, <3>1, <4>1 DEF Increasing
    <3> QED
      BY <3>2, <3>3
  <2> QED
    BY <2>6, <2>10, <2>11
<1> QED
  BY <1>3, <1>4

-----------------------------------------------------------------------------
(* The steps *)

LEMMA InvInit ==
  ASSUME Init
  PROVE  IInv
<1>1. doc \in Docs /\ read = 0 /\ first = 1 /\ stack = <<>> /\ in_code = FALSE /\ chunks = <<>> /\ done = FALSE
  BY DEF Init
<1>2. Len(doc) \in Nat /\ Len(doc) >= 1
  BY <1>1, DocFacts
<1>3. CodeKnown
  <2>1. InCode(0) = FALSE
    BY NoCodeYet DEF InCode
  <2> QED
    BY <1>1, <2>1 DEF CodeKnown
<1>4. PathKnown
  <2>1. DOMAIN stack = {} /\ stack \in Seq(Nat)
    BY <1>1
  <2>2. Above(0) = {}
    BY DEF Above, Headings
  <2>3. ToSet(stack) = {}
    BY <2>1 DEF ToSet
  <2> QED
    BY <1>1, <2>1, <2>2, <2>3 DEF PathKnown, HeadingHierarchy
<1>5. StillCutting
  <2>1. chunks \in Seq(Chunk) /\ Len(chunks) = 0 /\ LastCut(chunks) = 0
    BY <1>1 DEF LastCut, CutOf
  <2>2. Headings(0) = {}
    BY DEF Headings
  <2> QED
    BY <1>1, <2>1, <2>2 DEF StillCutting, Waiting, Sound, Covers, Behind, Due
<1>6. Places
  BY <1>1, <1>2 DEF Places
<1> QED
  BY <1>1, <1>3, <1>4, <1>5, <1>6 DEF IInv

\* The document stays as it was given, and what is said of its lines.
LEMMA SameDoc ==
  ASSUME doc' = doc
  PROVE  /\ \A i : InCode(i)' <=> InCode(i)
         /\ \A i : Blank(i)' <=> Blank(i)
         /\ \A i : Headings(i)' = Headings(i)
         /\ \A i : Above(i)' = Above(i)
         /\ \A i, j : Tokens(i, j)' = Tokens(i, j)
<1>1. \A i : InCode(i)' <=> InCode(i)
  BY DEF InCode
<1>2. \A i : Blank(i)' <=> Blank(i)
  BY DEF Blank
<1>3. \A i : Headings(i)' = Headings(i)
  BY <1>1 DEF Headings
<1>4. \A i : Above(i)' = Above(i)
  BY <1>3 DEF Above
<1>5. \A i, j : Tokens(i, j)' = Tokens(i, j)
  BY DEF Tokens
<1> QED
  BY <1>1, <1>2, <1>3, <1>4, <1>5

LEMMA SameChunks ==
  ASSUME doc' = doc
  PROVE  /\ Sound(chunks)' <=> Sound(chunks')
         /\ Covers(chunks, Len(doc) + 1)' <=> Covers(chunks', Len(doc) + 1)
         /\ Waiting(chunks, first, read, read)' <=> Waiting(chunks', first', read', read')
<1>1. /\ \A i : InCode(i)' <=> InCode(i)
      /\ \A i : Blank(i)' <=> Blank(i)
      /\ \A i : Headings(i)' = Headings(i)
      /\ \A i, j : Tokens(i, j)' = Tokens(i, j)
  BY SameDoc
<1>2. \A c, p : DueCut(c, p)' <=> DueCut(c, p)
  BY <1>1 DEF DueCut, WasDue, NoneWasDue
<1>3. \A c : Within(c)' <=> Within(c)
  BY DEF Within
<1>4. Sound(chunks)' <=> Sound(chunks')
  BY <1>2, <1>3 DEF Sound
<1>5. Covers(chunks, Len(doc) + 1)' <=> Covers(chunks', Len(doc) + 1)
  BY <1>1 DEF Covers
<1>6. Covers(chunks, first)' <=> Covers(chunks', first')
  BY <1>1 DEF Covers
<1>7. Behind(chunks, first, read)' <=> Behind(chunks', first', read')
  BY <1>1 DEF Behind
<1>8. Due(LastCut(chunks), first, read, read)' <=> Due(LastCut(chunks'), first', read', read')
  BY <1>1 DEF Due, LastCut, CutOf
<1> QED
  BY <1>4, <1>5, <1>6, <1>7, <1>8 DEF Waiting

\* The state kept by a step is the state of the step's values.
LEMMA InvNext ==
  ASSUME doc' = doc, doc \in Docs, read' \in 0 .. Len(doc), first' \in 1 .. read' + 1,
         in_code' = InCode(read'),
         stack' \in Seq(Nat), ToSet(stack') = Above(read'), Increasing(stack'),
         done' => Sound(chunks') /\ Covers(chunks', Len(doc) + 1),
         ~done' => Waiting(chunks', first', read', read')
  PROVE  IInv'
<1>1. Places'
  BY DEF Places
<1>2. CodeKnown'
  <2>1. InCode(read)' = InCode(read')
    BY DEF InCode
  <2> QED
    BY <2>1 DEF CodeKnown
<1>3. PathKnown'
  <2>1. Above(read)' = Above(read')
    BY DEF Above, Headings, InCode
  <2>2. HeadingHierarchy'
    BY <2>1 DEF HeadingHierarchy, Increasing, ToSet
  <2> QED
    BY <2>2 DEF PathKnown
<1>4. done' => AllCut'
  BY SameChunks DEF AllCut
<1>5. ~done' => StillCutting'
  BY SameChunks DEF StillCutting
<1> QED
  BY <1>1, <1>2, <1>3, <1>4, <1>5 DEF IInv

LEMMA SmallStep ==
  ASSUME IInv, Small
  PROVE  IInv'
<1>1. /\ doc \in Docs /\ Len(doc) \in Nat /\ Len(doc) >= 1
      /\ read \in 0 .. Len(doc) /\ first \in 1 .. read + 1 /\ in_code = InCode(read)
      /\ stack \in Seq(Nat) /\ ToSet(stack) = Above(read) /\ Increasing(stack)
  BY DocFacts DEF IInv, Places, CodeKnown, PathKnown, HeadingHierarchy, Increasing
<1> DEFINE c == [from |-> 1, to |-> Len(doc), title |-> <<>>, start |-> 1, cut |-> "whole",
                 at |-> Len(doc)]
<1>2. /\ chunks' = <<c>> /\ done' /\ UNCHANGED <<doc, read, first, stack, in_code>>
      /\ Tokens(1, Len(doc)) <= TargetSize
  BY DEF Small
<1>3. c \in Chunk
  <2>1. <<>> \in Seq(Nat) /\ 1 \in Nat
    OBVIOUS
  <2> QED
    BY <1>1, <2>1, NewChunk
<1>4. c.from = 1 /\ c.to = Len(doc) /\ c.cut = "whole" /\ c.at = Len(doc)
  OBVIOUS
<1> HIDE DEF c
<1>5. <<c>> \in Seq(Chunk) /\ Len(<<c>>) = 1 /\ <<c>>[1] = c
  BY <1>3
<1>6. Sound(chunks')
  <2>1. Within(c) /\ DueCut(c, CutOf(<<c>>, 1))
    BY <1>1, <1>2, <1>4 DEF Within, DueCut, WasDue
  <2>2. 1 .. 1 = {1} /\ 1 .. 1 - 1 = {}
    OBVIOUS
  <2> QED
    BY <1>2, <1>5, <2>1, <2>2 DEF Sound
<1>7. Covers(chunks', Len(doc) + 1)
  <2>1. \A i \in 1 .. Len(doc) + 1 - 1 : i \in c.from .. c.to
    BY <1>1, <1>4
  <2>2. 1 \in 1 .. 1
    OBVIOUS
  <2> QED
    BY <1>2, <1>5, <2>1, <2>2 DEF Covers
<1> QED
  BY <1>1, <1>2, <1>6, <1>7, InvNext

LEMMA FinishStep ==
  ASSUME IInv, Finish
  PROVE  IInv'
<1> DEFINE last == IF first <= read THEN Flushed(first, read, stack, "end") ELSE Kept(first)
<1>1. /\ doc \in Docs /\ Len(doc) \in Nat /\ Len(doc) >= 1 /\ read \in Nat
      /\ read \in 0 .. Len(doc) /\ first \in 1 .. read + 1 /\ in_code = InCode(read)
      /\ stack \in Seq(Nat) /\ ToSet(stack) = Above(read) /\ Increasing(stack)
  BY DocFacts DEF IInv, Places, CodeKnown, PathKnown, HeadingHierarchy, Increasing
<1>2. /\ ~done /\ read = Len(doc) /\ done'
      /\ chunks' = chunks \o last.chunks /\ first' = last.first
      /\ UNCHANGED <<doc, read, stack, in_code>>
  BY DEF Finish
<1> HIDE DEF last
<1>3. Waiting(chunks, first, read, read)
  BY <1>2 DEF IInv, StillCutting
<1>4. Sound(chunks) /\ chunks \in Seq(Chunk) /\ LastCut(chunks) \in Nat
  BY <1>3, LastCutType DEF Waiting, Sound
<1>5. /\ first' \in 1 .. read + 1
      /\ Sound(chunks') /\ Covers(chunks', Len(doc) + 1)
  <2>1. CASE first <= read
    <3>1. last = Flushed(first, read, stack, "end")
      BY <2>1 DEF last
    <3>2. first \in Nat /\ read \in 1 .. Len(doc) /\ first \in 1 .. read /\ read - 1 \in 0 .. read
      BY <1>1, <2>1
    <3>3. Due(LastCut(chunks), first, read - 1, read)
      BY <1>1, <1>3, <1>4, <3>2, Less DEF Waiting
    <3>4. /\ last.first \in first .. read + 1
          /\ Covers(chunks \o last.chunks, read + 1)
          /\ Waiting(chunks \o last.chunks, last.first, read, read + 1)
      <4>1. Reached(first, read, "end")
        BY <1>2 DEF Reached
      <4> QED
        BY <1>1, <1>3, <3>1, <3>2, <3>3, <4>1, FlushKeeps DEF Waiting
    <3>5. last.first \in 1 .. read + 1
      BY <1>1, <3>2, <3>4
    <3> QED
      BY <1>2, <3>4, <3>5 DEF Waiting
  <2>2. CASE ~(first <= read)
    <3>1. last = Kept(first)
      BY <2>2 DEF last
    <3>2. chunks \o last.chunks = chunks /\ last.first = first
      BY <1>4, <3>1, KeptIs
    <3>3. first = Len(doc) + 1
      BY <1>1, <1>2, <2>2
    <3> QED
      BY <1>1, <1>2, <1>3, <3>2, <3>3 DEF Waiting
  <2> QED
    BY <2>1, <2>2
<1> QED
  BY <1>1, <1>2, <1>5, InvNext

LEMMA LineStep ==
  ASSUME IInv, Line
  PROVE  IInv'
<1> DEFINE i == read + 1
           l == doc[i]
           code == CodeAfter(l)
           heading == ~code /\ l.kind = "heading"
           path == IF heading THEN Append(Popped(l.level), i) ELSE stack
           before == IF heading THEN AtHeading(path) ELSE Kept(first)
           full == ~code /\ Tokens(before.first, i) >= TargetSize
           after == IF full THEN Flushed(before.first, i, path, "size") ELSE Kept(before.first)
<1>1. /\ ~done /\ read < Len(doc)
      /\ in_code' = code /\ stack' = path
      /\ chunks' = chunks \o before.chunks \o after.chunks
      /\ first' = after.first /\ read' = i
      /\ doc' = doc /\ done' = done
  BY DEF Line
<1>2. /\ doc \in Docs /\ Len(doc) \in Nat /\ read \in Nat /\ i \in 1 .. Len(doc)
      /\ in_code = InCode(read)
  <2>1. doc \in Docs /\ read \in 0 .. Len(doc) /\ in_code = InCode(read)
    BY DEF IInv, Places, CodeKnown
  <2>2. Len(doc) \in Nat
    BY <2>1, DocFacts
  <2>3. read + 1 \in 1 .. Len(doc) /\ read \in Nat
    <3>1. read < Len(doc)
      BY DEF Line
    <3> QED
      BY <2>1, <2>2, <3>1
  <2> HIDE DEF code, heading, path, before, full, after, l
  <2> QED
    BY <2>1, <2>2, <2>3
<1>3. code = InCode(i)
  <2>1. (InCode(i) = TRUE \/ InCode(i) = FALSE) /\ (in_code = TRUE \/ in_code = FALSE)
    BY <1>2 DEF InCode
  <2>2. /\ l.kind = "fence" => (InCode(i) <=> ~InCode(read))
        /\ l.kind # "fence" => (InCode(i) <=> InCode(read))
    BY <1>2, InCodeStep
  <2>3. code = IF l.kind = "fence" THEN ~in_code ELSE in_code
    BY DEF CodeAfter
  <2> HIDE DEF code, l, i
  <2> QED
    BY <1>2, <2>1, <2>2, <2>3
<1>4. heading \in BOOLEAN /\ (heading <=> doc[read + 1].kind = "heading" /\ ~InCode(read + 1))
  <2> HIDE DEF code
  <2> QED
    BY <1>3
<1>5. full \in BOOLEAN /\ (full <=> ~InCode(i) /\ Tokens(before.first, i) >= TargetSize)
  <2> HIDE DEF code, before
  <2> QED
    BY <1>3
<1>6. path = IF heading THEN Append(Popped(doc[read + 1].level), read + 1) ELSE stack
  OBVIOUS
<1>7. before = IF heading THEN AtHeading(path) ELSE Kept(first)
  OBVIOUS
<1>8. after = IF full THEN Flushed(before.first, i, path, "size") ELSE Kept(before.first)
  OBVIOUS
<1> HIDE DEF code, heading, path, before, full, after
<1>9. path \in Seq(Nat) /\ ToSet(path) = Above(i) /\ Increasing(path)
  BY <1>1, <1>4, <1>6, PathStep
<1>10. before.first \in 1 .. i /\ Waiting(chunks \o before.chunks, before.first, read, i)
  BY <1>1, <1>4, <1>7, <1>9, HeadingWaits
<1> DEFINE cs == chunks \o before.chunks
           f == before.first
<1>11. /\ after.first \in 1 .. i + 1
       /\ Waiting(cs \o after.chunks, after.first, i, i)
  <2>1. i - 1 = read
    BY <1>2
  <2>2. /\ i \in 1 .. Len(doc) /\ f \in 1 .. i /\ Waiting(cs, f, i - 1, i)
        /\ full <=> ~InCode(i) /\ Tokens(f, i) >= TargetSize
        /\ after = IF full THEN Flushed(f, i, path, "size") ELSE Kept(f)
        /\ full \in BOOLEAN /\ path \in Seq(Nat)
    BY <1>2, <1>5, <1>8, <1>9, <1>10, <2>1
  <2> HIDE DEF i, cs, f
  <2> QED
    BY <1>2, <2>2, SizeWaits
<1>12. Waiting(chunks', first', read', read') /\ first' \in 1 .. read' + 1 /\ read' \in 0 .. Len(doc)
  BY <1>1, <1>2, <1>11
<1>13. stack' \in Seq(Nat) /\ ToSet(stack') = Above(read') /\ Increasing(stack')
  BY <1>1, <1>9
<1>14. in_code' = InCode(read')
  BY <1>1, <1>3
<1> QED
  BY <1>1, <1>2, <1>12, <1>13, <1>14, InvNext

\* The inductive invariant: what the loop has cut is sound, covers what it flushed, and
\* what waits is not due.
THEOREM Inductive == Spec => []IInv
<1>1. Init => IInv
  BY InvInit
<1>2. IInv /\ [Next]_vars => IInv'
  <2> SUFFICES ASSUME IInv, [Next]_vars PROVE IInv'
    OBVIOUS
  <2>1. CASE Small
    BY <2>1, SmallStep
  <2>2. CASE Line
    BY <2>2, LineStep
  <2>3. CASE Finish
    BY <2>3, FinishStep
  <2>4. CASE UNCHANGED vars
    <3>1. /\ doc' = doc /\ read' = read /\ first' = first /\ stack' = stack
          /\ in_code' = in_code /\ chunks' = chunks /\ done' = done
      BY <2>4 DEF vars
    <3>2. /\ doc \in Docs /\ read \in 0 .. Len(doc) /\ first \in 1 .. read + 1 /\ in_code = InCode(read)
          /\ stack \in Seq(Nat) /\ ToSet(stack) = Above(read) /\ Increasing(stack)
          /\ done => Sound(chunks) /\ Covers(chunks, Len(doc) + 1)
          /\ ~done => Waiting(chunks, first, read, read)
      BY DEF IInv, Places, CodeKnown, PathKnown, HeadingHierarchy, Increasing, AllCut, StillCutting
    <3> QED
      BY <3>1, <3>2, InvNext
  <2> QED
    BY <2>1, <2>2, <2>3, <2>4 DEF Next
<1> QED
  BY <1>1, <1>2, PTL DEF Spec

-----------------------------------------------------------------------------
(* The theorems *)

\* What the chunks are, whether the loop still runs or not.
LEMMA ChunksAre ==
  ASSUME IInv
  PROVE  /\ Sound(chunks) /\ chunks \in Seq(Chunk) /\ Len(chunks) \in Nat /\ DOMAIN chunks = 1 .. Len(chunks)
         /\ doc \in Docs /\ Len(doc) \in Nat
<1>1. Sound(chunks)
  BY DEF IInv, AllCut, StillCutting, Waiting
<1>2. chunks \in Seq(Chunk)
  BY <1>1 DEF Sound
<1> QED
  BY <1>1, <1>2, DocFacts DEF IInv, Places

\* current_lines stays a stretch of the document that has been read, in_code_block says
\* whether the last line lies in a code block, and each chunk is a stretch of the document.
THEOREM TypeCorrect == Spec => []TypeOK
<1>1. IInv => TypeOK
  <2> SUFFICES ASSUME IInv PROVE TypeOK
    OBVIOUS
  <2>1. read \in 0 .. Len(doc) /\ first \in 1 .. read + 1 /\ in_code = InCode(read)
    BY DEF IInv, Places, CodeKnown
  <2>2. \A c \in ToSet(chunks) : 1 <= c.from /\ c.from <= c.to /\ c.to <= Len(doc)
    BY ChunksAre DEF Sound, Within, ToSet
  <2> QED
    BY <2>1, <2>2 DEF TypeOK
<1> QED
  BY <1>1, Inductive, PTL

\* The stack of headings is the path of headings the last line lies under: popping what
\* is of a deeper or the same level suffices, whatever levels a document skips.
THEOREM HeadingPath == Spec => []HeadingHierarchy
<1>1. IInv => HeadingHierarchy
  BY DEF IInv, PathKnown
<1> QED
  BY <1>1, Inductive, PTL

\* Whatever a flush keeps for the overlap, no line that is not blank is left out of the
\* chunks, and the chunks are in the document's order.
THEOREM NoLineLost == Spec => []NothingLost
<1>1. IInv => NothingLost
  <2> SUFFICES ASSUME IInv PROVE NothingLost
    OBVIOUS
  <2> DEFINE n == IF done THEN Len(doc) ELSE first - 1
  <2>1. \A i \in 1 .. n : Blank(i) \/ \E k \in 1 .. Len(chunks) : i \in chunks[k].from .. chunks[k].to
    <3>1. CASE done
      <4>1. n = Len(doc) + 1 - 1
        BY <3>1, ChunksAre
      <4>2. Covers(chunks, Len(doc) + 1)
        BY <3>1 DEF IInv, AllCut
      <4> HIDE DEF n
      <4> QED
        BY <4>1, <4>2 DEF Covers
    <3>2. CASE ~done
      BY <3>2 DEF IInv, StillCutting, Waiting, Covers
    <3> QED
      BY <3>1, <3>2
  <2>2. \A k \in 1 .. Len(chunks) : chunks[k] \in ToSet(chunks)
    BY ChunksAre DEF ToSet
  <2>3. \A i \in 1 .. n : Blank(i) \/ \E c \in ToSet(chunks) : i \in c.from .. c.to
    <3> HIDE DEF n
    <3> QED
      BY <2>1, <2>2
  <2>4. \A k \in 1 .. Len(chunks) - 1 :
          chunks[k].from <= chunks[k + 1].from /\ chunks[k].to <= chunks[k + 1].to
    BY ChunksAre DEF Sound
  <2> QED
    BY <2>3, <2>4 DEF NothingLost
<1> QED
  BY <1>1, Inductive, PTL

\* Every chunk is cut where it is due, for every target and overlap, neither later nor
\* earlier: what was flushed had reached the target and lies outside of code, or had
\* reached half of it and a heading follows, or the document ends; and behind no line
\* before it was a cut due.
THEOREM CutsAreDue == Spec => []CutWhereDue
<1>1. IInv => CutWhereDue
  <2> SUFFICES ASSUME IInv PROVE CutWhereDue
    OBVIOUS
  <2>1. \A k \in DOMAIN chunks : DueCut(chunks[k], CutOf(chunks, k))
    BY ChunksAre DEF Sound
  <2>2. \A k : CutBefore(k) = CutOf(chunks, k)
    BY DEF CutBefore, CutOf
  <2>3. \A k \in DOMAIN chunks : DueCut(chunks[k], CutBefore(k))
    BY <2>1, <2>2
  <2> QED
    BY <2>3 DEF CutWhereDue, DueCut
<1> QED
  BY <1>1, Inductive, PTL


-----------------------------------------------------------------------------
(* The decoder: frames *)

FrameType == [marker : Markers, n : Nat \cup {-1}, bytes : Seq(Nat)]

Header(f) == Len(LineOf(f)) + 3

\* Constants and numbers, once.
LEMMA FrameFields ==
  ASSUME NEW f \in Frames
  PROVE  /\ f.marker \in Markers /\ f.marker \in Nat /\ f.n \in Nat \cup {-1}
         /\ f.bytes \in Seq(Nat)
         /\ f.marker \in {Plus, Minus} => f.n = 0 /\ IsLine(f.bytes)
         /\ f.marker \in {Colon, Star, Underscore} \/ f.n = -1 => f.bytes = <<>>
         /\ f.marker = Underscore => f.n = -1
         /\ HasPayload(f) => f.n = Len(f.bytes)
         /\ f = [marker |-> f.marker, n |-> f.n, bytes |-> f.bytes]
<1>1. f \in [marker : Markers, n : Nat \cup {-1}, bytes : Seq(Byte)]
  BY DEF Frames
<1>2. \A m \in Markers : m \in Nat
  BY DEF Markers, Plus, Minus, Colon, Dollar, Star, Underscore
<1>3. Byte \subseteq Nat
  BY DEF Byte, Zero
<1>4. Seq(Byte) \subseteq Seq(Nat)
  <2> SUFFICES ASSUME NEW s \in Seq(Byte) PROVE s \in Seq(Nat)
    OBVIOUS
  <2>1. Len(s) \in Nat /\ s \in [1 .. Len(s) -> Byte]
    OBVIOUS
  <2>2. s \in [1 .. Len(s) -> Nat]
    BY <1>3, <2>1
  <2> QED
    BY <2>1, <2>2, SeqDef
<1>5. f.marker \in Markers /\ f.n \in Nat \cup {-1} /\ f.bytes \in Seq(Byte)
  BY <1>1
<1>6. f = [marker |-> f.marker, n |-> f.n, bytes |-> f.bytes]
  BY <1>1
<1>7. /\ f.marker \in {Plus, Minus} => f.n = 0 /\ IsLine(f.bytes)
      /\ f.marker \in {Colon, Star, Underscore} \/ f.n = -1 => f.bytes = <<>>
      /\ f.marker = Underscore => f.n = -1
      /\ HasPayload(f) => f.n = Len(f.bytes)
  BY DEF Frames
<1>8. f.marker \in Nat
  BY <1>2, <1>5
<1>9. f.bytes \in Seq(Nat)
  BY <1>4, <1>5
<1> QED
  BY <1>5, <1>6, <1>7, <1>8, <1>9

LEMMA DigitsAre ==
  ASSUME NEW n \in Nat \cup {-1}
  PROVE  /\ Digits(n) \in Seq(Nat) /\ IsNumber(Digits(n)) /\ IntOf(Digits(n)) = n
         /\ IsLine(Digits(n))
         /\ \A i \in 1 .. Len(Digits(n)) : Digits(n)[i] # CR
<1>1. CASE n = -1
  <2>1. Digits(n) = <<45, 257>>
    BY <1>1 DEF Digits, Minus, Zero
  <2>2. /\ <<45, 257>> \in Seq(Nat) /\ Len(<<45, 257>>) = 2
        /\ <<45, 257>>[1] = 45 /\ <<45, 257>>[2] = 257
    OBVIOUS
  <2>3. Digits(-1) = <<45, 257>>
    BY <2>1, <1>1
  <2>4. \A i \in 1 .. 2 : i = 1 \/ i = 2
    OBVIOUS
  <2>5. \A i \in 1 .. 2 : <<45, 257>>[i] # 13
    BY <2>2, <2>4
  <2>6. IsNumber(Digits(n)) /\ IntOf(Digits(n)) = n
    BY <1>1, <2>1, <2>3 DEF IsNumber, IntOf
  <2>7. IsLine(Digits(n))
    BY <2>1, <2>2, <2>5 DEF IsLine, CR
  <2> QED
    BY <2>1, <2>2, <2>5, <2>6, <2>7 DEF CR
<1>2. CASE n # -1
  <2>1. n \in Nat /\ Digits(n) = <<256 + n>>
    BY <1>2 DEF Digits, Zero
  <2>2. /\ <<256 + n>> \in Seq(Nat) /\ Len(<<256 + n>>) = 1 /\ <<256 + n>>[1] = 256 + n
    BY <2>1
  <2>3. Digits(-1) = <<45, 257>> /\ Len(<<45, 257>>) = 2
    BY DEF Digits, Minus, Zero
  <2>4. Digits(n) # Digits(-1)
    BY <2>1, <2>2, <2>3
  <2>5. IsNumber(Digits(n))
    BY <2>1, <2>2 DEF IsNumber, Zero
  <2>6. IntOf(Digits(n)) = n
    BY <2>1, <2>2, <2>4 DEF IntOf, Zero
  <2>7. \A i \in 1 .. Len(Digits(n)) : Digits(n)[i] # CR
    BY <2>1, <2>2 DEF CR
  <2>8. IsLine(Digits(n))
    BY <2>1, <2>2, <2>7 DEF IsLine, CR
  <2> QED
    BY <2>1, <2>2, <2>5, <2>6, <2>7, <2>8
<1> QED
  BY <1>1, <1>2

\* The line of a frame, and the frame that the decoder makes of it.
LEMMA LineFacts ==
  ASSUME NEW f \in Frames
  PROVE  /\ LineOf(f) \in Seq(Nat) /\ Len(LineOf(f)) \in Nat /\ IsLine(LineOf(f))
         /\ f.marker \in {Colon, Dollar, Star} => IsNumber(LineOf(f))
         /\ HasPayload(f) => Headed(f.marker, LineOf(f)) = Frame(f.marker, f.n, <<>>)
         /\ ~HasPayload(f) /\ f.marker # Underscore => Headed(f.marker, LineOf(f)) = f
         /\ f.marker = Underscore => Headed(f.marker, LineOf(f)) = None /\ f = None
<1>1. /\ f.marker \in Markers /\ f.n \in Nat \cup {-1} /\ f.bytes \in Seq(Nat)
      /\ f.marker \in {Plus, Minus} => f.n = 0 /\ IsLine(f.bytes)
      /\ f.marker \in {Colon, Star, Underscore} \/ f.n = -1 => f.bytes = <<>>
      /\ f.marker = Underscore => f.n = -1
      /\ f = [marker |-> f.marker, n |-> f.n, bytes |-> f.bytes]
  BY FrameFields
<1>2. CASE f.marker \in {Plus, Minus}
  <2>1. LineOf(f) = f.bytes /\ Headed(f.marker, LineOf(f)) = Frame(f.marker, 0, f.bytes)
    <3>1. LineOf(f) = f.bytes
      BY <1>2 DEF LineOf, Plus, Minus, Underscore
    <3>2. Headed(f.marker, f.bytes) = Frame(f.marker, 0, f.bytes)
      BY <1>2 DEF Headed, Plus, Minus, Underscore
    <3> QED
      BY <3>1, <3>2
  <2>2. ~HasPayload(f) /\ f.marker \notin {Colon, Dollar, Star} /\ f.marker # Underscore
    BY <1>2 DEF HasPayload, Plus, Minus, Colon, Dollar, Star, Underscore
  <2>3. f = Frame(f.marker, 0, f.bytes)
    BY <1>1, <1>2 DEF Frame
  <2>4. f.bytes \in Seq(Nat) /\ Len(f.bytes) \in Nat /\ IsLine(f.bytes)
    BY <1>1, <1>2
  <2> QED
    BY <2>1, <2>2, <2>3, <2>4
<1>3. CASE f.marker = Underscore
  <2>1. f.marker \notin {Plus, Minus} /\ f.marker \notin {Colon, Dollar, Star} /\ ~HasPayload(f)
    BY <1>3 DEF HasPayload, Plus, Minus, Colon, Dollar, Star, Underscore
  <2>2. LineOf(f) = <<>> /\ Headed(f.marker, LineOf(f)) = None
    BY <1>3, <2>1 DEF LineOf, Headed
  <2>3. f = None
    BY <1>1, <1>3 DEF None, Null, Frame
  <2>4. <<>> \in Seq(Nat) /\ Len(<<>>) = 0 /\ IsLine(<<>>)
    BY DEF IsLine
  <2> QED
    BY <1>3, <2>1, <2>2, <2>3, <2>4
<1>4. CASE f.marker \in {Colon, Dollar, Star}
  <2>1. f.marker \notin {Plus, Minus} /\ f.marker # Underscore
    BY <1>4 DEF Plus, Minus, Colon, Dollar, Star, Underscore
  <2>2. LineOf(f) = Digits(f.n) /\ Headed(f.marker, LineOf(f)) = Frame(f.marker, IntOf(Digits(f.n)), <<>>)
    BY <2>1 DEF LineOf, Headed
  <2>3. /\ Digits(f.n) \in Seq(Nat) /\ IsNumber(Digits(f.n)) /\ IntOf(Digits(f.n)) = f.n
        /\ IsLine(Digits(f.n))
    BY <1>1, DigitsAre
  <2>4. ~HasPayload(f) => f.bytes = <<>>
    BY <1>1, <1>4 DEF HasPayload
  <2>5. ~HasPayload(f) => f = Frame(f.marker, f.n, <<>>)
    BY <1>1, <2>4 DEF Frame
  <2>6. Len(Digits(f.n)) \in Nat
    BY <2>3
  <2> QED
    BY <2>1, <2>2, <2>3, <2>5, <2>6
<1>5. f.marker \in {Plus, Minus} \/ f.marker = Underscore \/ f.marker \in {Colon, Dollar, Star}
  BY <1>1 DEF Markers
<1> QED
  BY <1>2, <1>3, <1>4, <1>5

\* Where the parts of a frame lie, and that a line ends at its own CRLF.
LEMMA FrameBytesAre ==
  ASSUME NEW f \in Frames
  PROVE  /\ FrameBytes(f) \in Seq(Nat) /\ FrameBytes(f) # <<>>
         /\ Header(f) \in Nat /\ Header(f) >= 3
         /\ Len(FrameBytes(f)) = IF HasPayload(f) THEN Header(f) + f.n + 2 ELSE Header(f)
         /\ FrameBytes(f)[1] = f.marker
         /\ \A y \in 1 .. Len(LineOf(f)) : FrameBytes(f)[1 + y] = LineOf(f)[y]
         /\ FrameBytes(f)[Len(LineOf(f)) + 2] = CR
         /\ FrameBytes(f)[Len(LineOf(f)) + 3] = LF
         /\ \A y \in 1 .. Len(LineOf(f)) :
              ~(FrameBytes(f)[1 + y] = CR /\ FrameBytes(f)[2 + y] = LF)
         /\ HasPayload(f) => /\ f.n \in Nat
                             /\ \A y \in 1 .. f.n : FrameBytes(f)[Header(f) + y] = f.bytes[y]
<1> DEFINE L == LineOf(f)
           h == Len(L)
           M == <<f.marker>> \o L
           A == M \o Eol
           P == IF HasPayload(f) THEN f.bytes \o Eol ELSE <<>>
           B == A \o P
<1>1. /\ f.marker \in Nat /\ f.bytes \in Seq(Nat) /\ (HasPayload(f) => f.n = Len(f.bytes))
      /\ L \in Seq(Nat) /\ h \in Nat /\ IsLine(L)
  BY FrameFields, LineFacts
<1>2. FrameBytes(f) = B
  BY DEF FrameBytes
<1>3. Eol \in Seq(Nat) /\ Len(Eol) = 2 /\ Eol[1] = CR /\ Eol[2] = LF
  BY DEF Eol, CR, LF
<1> HIDE DEF L
<1>4. /\ M \in Seq(Nat) /\ Len(M) = h + 1 /\ M[1] = f.marker
      /\ \A y \in 1 .. h : M[1 + y] = L[y]
  <2>1. <<f.marker>> \in Seq(Nat) /\ Len(<<f.marker>>) = 1 /\ <<f.marker>>[1] = f.marker
    BY <1>1
  <2> QED
    BY <1>1, <2>1
<1> HIDE DEF M
<1>5. /\ A \in Seq(Nat) /\ Len(A) = h + 3
      /\ \A i \in 1 .. h + 1 : A[i] = M[i]
      /\ A[h + 2] = CR /\ A[h + 3] = LF
  <2>1. /\ A \in Seq(Nat) /\ Len(A) = Len(M) + Len(Eol)
        /\ \A i \in 1 .. Len(M) + Len(Eol) : A[i] = IF i <= Len(M) THEN M[i] ELSE Eol[i - Len(M)]
    BY <1>3, <1>4, ConcatProperties
  <2> HIDE DEF A
  <2>2. \A i \in 1 .. h + 3 : A[i] = IF i <= h + 1 THEN M[i] ELSE Eol[i - (h + 1)]
    BY <1>1, <1>3, <1>4, <2>1
  <2>3. \A i \in 1 .. h + 1 : A[i] = M[i]
    BY <1>1, <2>2
  <2>4. (h + 2) - (h + 1) = 1 /\ (h + 3) - (h + 1) = 2 /\ h + 2 \in 1 .. h + 3 /\ h + 3 \in 1 .. h + 3
    BY <1>1
  <2>5. A[h + 2] = Eol[1] /\ A[h + 3] = Eol[2]
    BY <1>1, <2>2, <2>4
  <2>6. Len(A) = h + 3
    BY <1>1, <1>3, <1>4, <2>1
  <2> QED
    BY <1>3, <2>1, <2>3, <2>5, <2>6
<1>6. P \in Seq(Nat) /\ Len(P) = IF HasPayload(f) THEN f.n + 2 ELSE 0
  <2>1. CASE HasPayload(f)
    <3>1. f.bytes \o Eol \in Seq(Nat) /\ Len(f.bytes \o Eol) = Len(f.bytes) + Len(Eol)
      BY <1>1, <1>3, ConcatProperties
    <3>2. Len(f.bytes \o Eol) = f.n + 2
      BY <1>1, <1>3, <2>1, <3>1
    <3> QED
      BY <2>1, <3>1, <3>2
  <2>2. CASE ~HasPayload(f)
    BY <2>2
  <2> QED
    BY <2>1, <2>2
<1>7. HasPayload(f) => f.n \in Nat /\ \A y \in 1 .. f.n : P[y] = f.bytes[y]
  <2> SUFFICES ASSUME HasPayload(f) PROVE f.n \in Nat /\ \A y \in 1 .. f.n : P[y] = f.bytes[y]
    OBVIOUS
  <2>1. f.n = Len(f.bytes) /\ f.n \in Nat /\ P = f.bytes \o Eol
    <3>1. f.bytes \in Seq(Nat) /\ f.n = Len(f.bytes)
      BY <1>1
    <3> QED
      BY <3>1
  <2>2. \A i \in 1 .. Len(f.bytes) + Len(Eol) :
          (f.bytes \o Eol)[i] = IF i <= Len(f.bytes) THEN f.bytes[i] ELSE Eol[i - Len(f.bytes)]
    <3>1. f.bytes \in Seq(Nat) /\ Eol \in Seq(Nat)
      BY <1>1, <1>3
    <3> QED
      BY <3>1, ConcatProperties
  <2>3. ASSUME NEW y \in 1 .. f.n PROVE (f.bytes \o Eol)[y] = f.bytes[y]
    <3>1. y \in 1 .. Len(f.bytes) + Len(Eol) /\ y <= Len(f.bytes)
      BY <1>3, <2>1
    <3> QED
      BY <2>2, <3>1
  <2> QED
    BY <2>1, <2>3
<1> HIDE DEF A, P
<1>8. Header(f) = h + 3
  BY DEF Header, L
<1>9. /\ B \in Seq(Nat) /\ Len(B) = IF HasPayload(f) THEN h + 3 + f.n + 2 ELSE h + 3
      /\ \A i \in 1 .. h + 3 : B[i] = A[i]
      /\ \A i \in 1 .. Len(P) : B[h + 3 + i] = P[i]
  <2>1. Len(P) \in Nat
    BY <1>6
  <2>2. /\ B \in Seq(Nat) /\ Len(B) = Len(A) + Len(P)
        /\ \A i \in 1 .. Len(A) + Len(P) : B[i] = IF i <= Len(A) THEN A[i] ELSE P[i - Len(A)]
    BY <1>5, <1>6, ConcatProperties
  <2> HIDE DEF B
  <2>3. ASSUME NEW i \in 1 .. h + 3 PROVE B[i] = A[i]
    <3>1. i \in 1 .. Len(A) + Len(P) /\ i <= Len(A)
      BY <1>1, <1>5, <2>1
    <3> QED
      BY <2>2, <3>1
  <2>6. ASSUME NEW i \in 1 .. Len(P) PROVE B[h + 3 + i] = P[i]
    <3>1. /\ h + 3 + i \in 1 .. Len(A) + Len(P) /\ ~(h + 3 + i <= Len(A))
          /\ (h + 3 + i) - Len(A) = i
      BY <1>1, <1>5, <2>1
    <3> QED
      BY <2>2, <3>1
  <2>7. B \in Seq(Nat) /\ Len(B) = h + 3 + Len(P)
    BY <1>1, <1>5, <2>2
  <2>4. CASE HasPayload(f)
    BY <1>1, <1>6, <1>7, <2>3, <2>4, <2>6, <2>7
  <2>5. CASE ~HasPayload(f)
    BY <1>1, <1>6, <2>3, <2>5, <2>6, <2>7
  <2> QED
    BY <2>4, <2>5
<1> HIDE DEF B
<1>10. B[1] = f.marker /\ B[h + 2] = CR /\ B[h + 3] = LF
  <2>1. 1 \in 1 .. h + 1 /\ 1 \in 1 .. h + 3 /\ h + 2 \in 1 .. h + 3 /\ h + 3 \in 1 .. h + 3
    BY <1>1
  <2> QED
    BY <1>4, <1>5, <1>9, <2>1
<1>11. ASSUME NEW y \in 1 .. h PROVE B[1 + y] = L[y]
  <2>1. 1 + y \in 1 .. h + 1 /\ 1 + y \in 1 .. h + 3
    BY <1>1
  <2> QED
    BY <1>4, <1>5, <1>9, <2>1
<1>12. ASSUME NEW y \in 1 .. h PROVE ~(B[1 + y] = CR /\ B[2 + y] = LF)
  <2>1. CASE y = h
    <3>1. 2 + y = h + 2 /\ B[2 + y] = CR
      BY <1>1, <1>10, <2>1
    <3> QED
      BY <3>1 DEF CR, LF
  <2>2. CASE y # h
    <3>1. y \in 1 .. h - 1 /\ y + 1 \in 1 .. h /\ 1 + (y + 1) = 2 + y
      BY <1>1, <2>2
    <3>2. B[1 + y] = L[y] /\ B[2 + y] = L[y + 1]
      BY <1>11, <3>1
    <3>3. ~(L[y] = CR /\ L[y + 1] = LF)
      BY <1>1, <3>1 DEF IsLine
    <3> QED
      BY <3>2, <3>3
  <2> QED
    BY <2>1, <2>2
<1>13. ASSUME HasPayload(f), NEW y \in 1 .. f.n PROVE B[h + 3 + y] = f.bytes[y]
  <2>1. f.n \in Nat /\ y \in 1 .. Len(P) /\ P[y] = f.bytes[y]
    BY <1>6, <1>7, <1>13
  <2> QED
    BY <1>9, <2>1
<1>14. B # <<>>
  <2>1. Len(B) # 0
    BY <1>1, <1>7, <1>9
  <2> QED
    BY <2>1
<1>15. h + 3 \in Nat /\ h + 3 >= 3
  BY <1>1
<1>16. HasPayload(f) => f.n \in Nat /\ \A y \in 1 .. f.n : B[h + 3 + y] = f.bytes[y]
  BY <1>7, <1>13
<1>17. \A y \in 1 .. h : B[1 + y] = L[y] /\ ~(B[1 + y] = CR /\ B[2 + y] = LF)
  BY <1>11, <1>12
<1>18. B \in Seq(Nat) /\ Len(B) = IF HasPayload(f) THEN h + 3 + f.n + 2 ELSE h + 3
  BY <1>9
<1> QED
  BY <1>2, <1>8, <1>10, <1>14, <1>15, <1>16, <1>17, <1>18 DEF L

-----------------------------------------------------------------------------
(* The decoder: where the frames of a stream lie *)

Cells(A) == [k \in DOMAIN A |-> FrameBytes(A[k])]

\* The bytes before the frame behind the first k.
Off(A, k) == Len(Bytes(SubSeq(A, 1, k)))

LEMMA CellsAre ==
  ASSUME NEW A \in Seq(Frames)
  PROVE  /\ Cells(A) \in Seq(Seq(Nat)) /\ Len(Cells(A)) = Len(A) /\ Len(A) \in Nat
         /\ \A k \in 1 .. Len(A) : Cells(A)[k] = FrameBytes(A[k]) /\ A[k] \in Frames
         /\ \A k \in 1 .. Len(Cells(A)) : Cells(A)[k] # <<>>
         /\ \A k \in 0 .. Len(A) : Off(A, k) = Len(First(Cells(A), k))
         /\ Bytes(A) = FlattenSeq(Cells(A))
<1>1. Len(A) \in Nat /\ DOMAIN A = 1 .. Len(A) /\ \A k \in 1 .. Len(A) : A[k] \in Frames
  OBVIOUS
<1>2. \A k \in 1 .. Len(A) : FrameBytes(A[k]) \in Seq(Nat) /\ FrameBytes(A[k]) # <<>>
  BY <1>1, FrameBytesAre
<1>3. /\ Cells(A) \in [1 .. Len(A) -> Seq(Nat)]
      /\ \A k \in 1 .. Len(A) : Cells(A)[k] = FrameBytes(A[k])
  BY <1>1, <1>2 DEF Cells
<1>4. Cells(A) \in Seq(Seq(Nat)) /\ Len(Cells(A)) = Len(A)
  BY <1>1, <1>3, SeqDef
<1>5. Bytes(A) = FlattenSeq(Cells(A))
  BY DEF Bytes, Cells
<1>6. ASSUME NEW k \in 0 .. Len(A)
      PROVE  Off(A, k) = Len(First(Cells(A), k))
  <2> DEFINE H == SubSeq(A, 1, k)
  <2>1. /\ DOMAIN H = 1 .. k /\ k \in Nat
        /\ \A j \in 1 .. k : H[j] = A[j] /\ j \in 1 .. Len(A)
    BY <1>1
  <2>2. /\ DOMAIN SubSeq(Cells(A), 1, k) = 1 .. k
        /\ SubSeq(Cells(A), 1, k) = [j \in 1 .. k |-> Cells(A)[j]]
    BY <1>1, <1>4
  <2> HIDE DEF H
  <2>3. Cells(H) = [j \in 1 .. k |-> FrameBytes(H[j])]
    BY <2>1 DEF Cells
  <2>4. \A j \in 1 .. k : FrameBytes(H[j]) = Cells(A)[j]
    BY <1>3, <2>1
  <2>5. Cells(H) = SubSeq(Cells(A), 1, k)
    BY <2>2, <2>3, <2>4
  <2>6. Bytes(H) = FlattenSeq(Cells(H))
    BY DEF Bytes, Cells
  <2> QED
    BY <2>5, <2>6 DEF First, Off, H
<1> QED
  BY <1>1, <1>2, <1>3, <1>4, <1>5, <1>6

\* The next frame's bytes follow, within the stream.
LEMMA FramePlaces ==
  ASSUME NEW A \in Seq(Frames), NEW k \in 0 .. Len(A) - 1
  PROVE  /\ Off(A, k) \in Nat /\ Off(A, k + 1) \in Nat
         /\ Off(A, k + 1) = Off(A, k) + Len(FrameBytes(A[k + 1]))
         /\ Off(A, k + 1) <= Len(Bytes(A))
         /\ \A y \in 1 .. Len(FrameBytes(A[k + 1])) :
              Bytes(A)[Off(A, k) + y] = FrameBytes(A[k + 1])[y]
<1> DEFINE C == Cells(A)
<1>1. /\ C \in Seq(Seq(Nat)) /\ Len(C) = Len(A) /\ Len(A) \in Nat
      /\ \A j \in 1 .. Len(A) : C[j] = FrameBytes(A[j]) /\ A[j] \in Frames
      /\ \A j \in 1 .. Len(C) : C[j] # <<>>
      /\ \A j \in 0 .. Len(A) : Off(A, j) = Len(First(C, j))
      /\ Bytes(A) = FlattenSeq(C)
  BY CellsAre
<1> HIDE DEF C
<1>2. k \in 0 .. Len(C) - 1 /\ k \in 0 .. Len(A) /\ k + 1 \in 0 .. Len(A) /\ k + 1 \in 1 .. Len(A)
  BY <1>1
<1>3. /\ Len(First(C, k)) \in Nat
      /\ Len(First(C, k + 1)) = Len(First(C, k)) + Len(C[k + 1])
      /\ Len(First(C, k + 1)) <= Len(FlattenSeq(C))
      /\ \A j \in 1 .. Len(C[k + 1]) : FlattenSeq(C)[Len(First(C, k)) + j] = C[k + 1][j]
  BY <1>1, <1>2, FirstPlaces
<1>4. C[k + 1] = FrameBytes(A[k + 1]) /\ Len(C[k + 1]) \in Nat
  BY <1>1, <1>2
<1>5. Off(A, k) = Len(First(C, k)) /\ Off(A, k + 1) = Len(First(C, k + 1))
  BY <1>1, <1>2
<1>6. \A y \in 1 .. Len(FrameBytes(A[k + 1])) : Bytes(A)[Off(A, k) + y] = FrameBytes(A[k + 1])[y]
  BY <1>1, <1>3, <1>4, <1>5
<1>7. Off(A, k) \in Nat /\ Off(A, k + 1) = Off(A, k) + Len(FrameBytes(A[k + 1]))
  BY <1>3, <1>4, <1>5
<1>8. Off(A, k + 1) \in Nat
  <2>1. Off(A, k + 1) = Off(A, k) + Len(C[k + 1]) /\ Off(A, k) \in Nat
    BY <1>3, <1>5
  <2> QED
    BY <1>4, <2>1
<1>9. Bytes(A) = FlattenSeq(C)
  BY <1>1
<1>10. Off(A, k + 1) <= Len(Bytes(A))
  BY <1>3, <1>5, <1>9
<1> QED
  BY <1>6, <1>7, <1>8, <1>10

LEMMA OffsAre ==
  ASSUME NEW A \in Seq(Frames)
  PROVE  /\ Bytes(A) \in Seq(Nat) /\ Off(A, 0) = 0 /\ Off(A, Len(A)) = Len(Bytes(A))
         /\ \A k \in 0 .. Len(A) : Off(A, k) \in Nat
         /\ \A k \in 0 .. Len(A) : \A m \in k .. Len(A) : Off(A, k) <= Off(A, m)
<1> DEFINE C == Cells(A)
<1>1. /\ C \in Seq(Seq(Nat)) /\ Len(C) = Len(A) /\ Len(A) \in Nat
      /\ \A j \in 1 .. Len(C) : C[j] # <<>>
      /\ \A j \in 0 .. Len(A) : Off(A, j) = Len(First(C, j))
      /\ Bytes(A) = FlattenSeq(C)
  BY CellsAre
<1> HIDE DEF C
<1>2. First(C, 0) = <<>>
  <2>1. SubSeq(C, 1, 0) = <<>> /\ Len(<<>>) = 0
    BY <1>1
  <2> QED
    BY <2>1 DEF First, FlattenSeq
<1>3. First(C, Len(C)) = FlattenSeq(C) /\ First(C, Len(A)) = FlattenSeq(C)
  BY <1>1, FirstAll
<1>4. 0 \in 0 .. Len(A) /\ Len(A) \in 0 .. Len(A)
  BY <1>1
<1>5. \A k \in 0 .. Len(A) : First(C, k) \in Seq(Nat)
  BY <1>1, FirstIn
<1>6. \A k \in 0 .. Len(A) : \A m \in k .. Len(A) : Len(First(C, k)) <= Len(First(C, m))
  BY <1>1, FirstGrows
<1>7. Bytes(A) \in Seq(Nat)
  BY <1>1, <1>3, <1>4, <1>5
<1>8. Off(A, 0) = 0
  BY <1>1, <1>2, <1>4
<1>9. Off(A, Len(A)) = Len(Bytes(A))
  BY <1>1, <1>3, <1>4
<1>10. \A k \in 0 .. Len(A) : Off(A, k) \in Nat
  BY <1>1, <1>5
<1>11. \A k \in 0 .. Len(A) : \A m \in k .. Len(A) : Off(A, k) <= Off(A, m)
  <2> SUFFICES ASSUME NEW k \in 0 .. Len(A), NEW m \in k .. Len(A) PROVE Off(A, k) <= Off(A, m)
    OBVIOUS
  <2>1. m \in 0 .. Len(A)
    BY <1>1
  <2> QED
    BY <1>1, <1>6, <2>1
<1> QED
  BY <1>7, <1>8, <1>9, <1>10, <1>11

\* How many values are due, frame by frame.
LEMMA OpensAre ==
  ASSUME NEW r \in Seq(Frames)
  PROVE  /\ Opens(r)[0] = 1 /\ Len(r) \in Nat
         /\ \A k \in 1 .. Len(r) : Opens(r)[k] = Opens(r)[k - 1] - 1 + Elements(r[k])
         /\ \A k \in 1 .. Len(r) : Elements(r[k]) \in Nat
         /\ \A k \in 0 .. Len(r) : Opens(r)[k] \in Int
<1> DEFINE N == Len(r)
           Is(f, n) == f = [k \in 0 .. n |-> IF k = 0 THEN 1 ELSE f[k - 1] - 1 + Elements(r[k])]
           P == {n \in 0 .. N : \E f : Is(f, n)}
<1>1. N \in Nat /\ \A k \in 1 .. N : r[k] \in Frames
  OBVIOUS
<1>2. 0 \in P
  <2> DEFINE g == [k \in 0 .. 0 |-> 1]
  <2>1. Is(g, 0) /\ 0 \in 0 .. N
    BY <1>1
  <2> HIDE DEF Is, g
  <2> QED
    BY <2>1
<1>3. ASSUME NEW n \in 0 .. N - 1, n \in P
      PROVE  n + 1 \in P
  <2>1. PICK f : Is(f, n)
    BY <1>3
  <2> DEFINE m == n + 1
             g == [k \in 0 .. m |-> IF k = m THEN f[m - 1] - 1 + Elements(r[m]) ELSE f[k]]
  <2>2. n \in Nat /\ m - 1 = n /\ m \in Nat /\ m # 0
    BY <1>1
  <2>3. ASSUME NEW k \in 0 .. m
        PROVE  g[k] = IF k = 0 THEN 1 ELSE g[k - 1] - 1 + Elements(r[k])
    <3>1. CASE k = m
      <4>1. k \in 0 .. m /\ k - 1 \in 0 .. m /\ k - 1 # m /\ k # 0
        BY <2>2, <3>1
      <4>2. g[k] = f[m - 1] - 1 + Elements(r[m]) /\ g[k - 1] = f[k - 1]
        BY <3>1, <4>1
      <4> QED
        BY <3>1, <4>1, <4>2
    <3>2. CASE k = 0
      <4>1. 0 \in 0 .. n /\ 0 # m
        BY <2>2
      <4>2. g[0] = f[0] /\ f[0] = 1
        BY <2>1, <3>2, <4>1
      <4> QED
        BY <3>2, <4>2
    <3>3. CASE k # 0 /\ k # m
      <4>1. k \in 0 .. n /\ k - 1 \in 0 .. m /\ k - 1 # m
        BY <2>2, <3>3
      <4>2. g[k] = f[k] /\ g[k - 1] = f[k - 1]
        BY <3>3, <4>1
      <4>3. f[k] = f[k - 1] - 1 + Elements(r[k])
        BY <2>1, <3>3, <4>1
      <4> QED
        BY <3>3, <4>2, <4>3
    <3> QED
      BY <3>1, <3>2, <3>3
  <2>4. Is(g, m)
    <3>1. g = [k \in 0 .. m |-> g[k]]
      OBVIOUS
    <3> HIDE DEF g
    <3> QED
      BY <2>3, <3>1
  <2>5. m \in 0 .. N
    BY <1>1
  <2> HIDE DEF Is, g
  <2> QED
    BY <2>4, <2>5
<1>4. N \in P
  <2> HIDE DEF P
  <2>1. 0 .. N \subseteq P
    BY <1>1, <1>2, <1>3, UpTo
  <2> QED
    BY <1>1, <2>1
<1>5. \E f : Is(f, N)
  BY <1>4
<1> DEFINE h == CHOOSE f : Is(f, N)
<1>6. Is(h, N)
  BY <1>5
<1>7. Opens(r) = h
  BY DEF Opens
<1> HIDE DEF h
<1>8. h[0] = 1 /\ \A k \in 1 .. N : h[k] = h[k - 1] - 1 + Elements(r[k])
  <2>1. h[0] = 1
    BY <1>1, <1>6
  <2>2. ASSUME NEW k \in 1 .. N PROVE h[k] = h[k - 1] - 1 + Elements(r[k])
    <3>1. k \in 0 .. N /\ k # 0
      BY <1>1
    <3> QED
      BY <1>6, <3>1
  <2> QED
    BY <2>1, <2>2
<1>9. ASSUME NEW k \in 1 .. N PROVE Elements(r[k]) \in Nat
  <2>1. r[k].n \in Nat \cup {-1}
    BY <1>1, FrameFields
  <2> QED
    BY <2>1 DEF Elements
<1>10. \A k \in 0 .. N : h[k] \in Int
  <2> DEFINE Q == {k \in 0 .. N : h[k] \in Int}
  <2>1. 0 \in Q
    BY <1>1, <1>8
  <2>2. ASSUME NEW k \in 0 .. N - 1, k \in Q PROVE k + 1 \in Q
    <3>1. k + 1 \in 1 .. N /\ k + 1 \in 0 .. N /\ (k + 1) - 1 = k
      BY <1>1
    <3>2. h[k + 1] = h[k] - 1 + Elements(r[k + 1]) /\ Elements(r[k + 1]) \in Nat /\ h[k] \in Int
      BY <1>8, <1>9, <2>2, <3>1
    <3> QED
      BY <3>1, <3>2
  <2>3. 0 .. N \subseteq Q
    <3> HIDE DEF Q
    <3> QED
      BY <1>1, <2>1, <2>2, UpTo
  <2> QED
    BY <2>3
<1> QED
  BY <1>1, <1>7, <1>8, <1>9, <1>10

\* The frames of the first i replies.
Base(q, i) == Len(FlattenSeq(SubSeq(q, 1, i)))

LEMMA RepliesAre ==
  ASSUME NEW q \in Seq(Replies)
  PROVE  /\ q \in Seq(Seq(Frames)) /\ \A i \in 1 .. Len(q) : q[i] # <<>> /\ IsReply(q[i])
         /\ FlattenSeq(q) \in Seq(Frames)
         /\ Base(q, 0) = 0 /\ Base(q, Len(q)) = Len(FlattenSeq(q))
<1>1. Len(q) \in Nat /\ q \in [1 .. Len(q) -> Replies] /\ \A i \in 1 .. Len(q) : q[i] \in Replies
  OBVIOUS
<1>2. \A i \in 1 .. Len(q) : IsReply(q[i]) /\ q[i] \in Seq(Frames)
  BY <1>1, ReaderAssumption DEF IsReply
<1>3. ASSUME NEW i \in 1 .. Len(q) PROVE q[i] # <<>>
  <2>1. Opens(<<>>)[0] = 1
    <3>1. <<>> \in Seq(Frames)
      OBVIOUS
    <3> QED
      BY <3>1, OpensAre
  <2>2. q[i] = <<>> => Opens(<<>>)[0] = 0
    BY <1>2 DEF IsReply
  <2> QED
    BY <2>1, <2>2
<1>4. q \in Seq(Seq(Frames))
  <2>1. q \in [1 .. Len(q) -> Seq(Frames)]
    BY <1>1, <1>2
  <2> QED
    BY <1>1, <2>1, SeqDef
<1>5. First(q, 0) = <<>>
  <2>1. SubSeq(q, 1, 0) = <<>> /\ Len(<<>>) = 0
    BY <1>1
  <2> QED
    BY <2>1 DEF First, FlattenSeq
<1>6. First(q, Len(q)) = FlattenSeq(q)
  BY <1>4, FirstAll
<1>7. First(q, Len(q)) \in Seq(Frames)
  BY <1>1, <1>4, FirstIn
<1> QED
  BY <1>2, <1>3, <1>4, <1>5, <1>6, <1>7 DEF Base, First

LEMMA ReplyPlaces ==
  ASSUME NEW q \in Seq(Replies), NEW i \in 0 .. Len(q) - 1
  PROVE  /\ Base(q, i) \in Nat
         /\ Base(q, i + 1) = Base(q, i) + Len(q[i + 1])
         /\ Base(q, i + 1) <= Len(FlattenSeq(q))
         /\ \A j \in 1 .. Len(q[i + 1]) : FlattenSeq(q)[Base(q, i) + j] = q[i + 1][j]
<1>1. q \in Seq(Seq(Frames)) /\ \A j \in 1 .. Len(q) : q[j] # <<>>
  BY RepliesAre
<1>2. /\ Len(First(q, i)) \in Nat
      /\ Len(First(q, i + 1)) = Len(First(q, i)) + Len(q[i + 1])
      /\ Len(First(q, i + 1)) <= Len(FlattenSeq(q))
      /\ \A j \in 1 .. Len(q[i + 1]) : FlattenSeq(q)[Len(First(q, i)) + j] = q[i + 1][j]
  BY <1>1, FirstPlaces
<1> QED
  BY <1>2 DEF Base, First

\* The first replies' bytes are those of their frames.
LEMMA StartIs ==
  ASSUME NEW q \in Seq(Replies), NEW i \in 0 .. Len(q)
  PROVE  /\ Base(q, i) \in 0 .. Len(FlattenSeq(q))
         /\ Len(Bytes(FlattenSeq(SubSeq(q, 1, i)))) = Off(FlattenSeq(q), Base(q, i))
<1> DEFINE A == FlattenSeq(q)
           F == First(q, i)
<1>1. q \in Seq(Seq(Frames)) /\ (\A j \in 1 .. Len(q) : q[j] # <<>>) /\ A \in Seq(Frames)
  BY RepliesAre
<1>2. Len(q) \in i .. Len(q) /\ Len(q) \in Nat
  OBVIOUS
<1>3. F \in Seq(Frames) /\ IsPrefix(F, First(q, Len(q)))
  BY <1>1, <1>2, FirstIn, FirstWithin
<1>4. First(q, Len(q)) = A
  BY FirstAll
<1> HIDE DEF A, F
<1>5. Len(F) <= Len(A) /\ (\A j \in 1 .. Len(F) : F[j] = A[j]) /\ Len(F) \in Nat /\ Len(A) \in Nat
  <2>1. Len(F) <= Len(A) /\ \A j \in 1 .. Len(F) : F[j] = A[j]
    BY <1>1, <1>3, <1>4, PrefixIs
  <2> QED
    BY <1>1, <1>3, <2>1
<1>6. F = SubSeq(A, 1, Len(F))
  <2>1. SubSeq(A, 1, Len(F)) \in Seq(Frames) /\ Len(SubSeq(A, 1, Len(F))) = Len(F)
    BY <1>1, <1>5
  <2>2. \A j \in 1 .. Len(F) : SubSeq(A, 1, Len(F))[j] = F[j]
    BY <1>1, <1>5
  <2> QED
    BY <1>3, <2>1, <2>2, SeqEqual
<1>7. Base(q, i) = Len(F) /\ FlattenSeq(SubSeq(q, 1, i)) = F
  BY DEF Base, First, F
<1>8. Len(Bytes(F)) = Off(A, Len(F))
  BY <1>6 DEF Off
<1>9. Base(q, i) \in 0 .. Len(A)
  BY <1>5, <1>7
<1> QED
  BY <1>7, <1>8, <1>9 DEF A

-----------------------------------------------------------------------------
(* The decoder: what it knows *)

All == FlattenSeq(sent)

Steps == {"idle", "marker", "line", "payload", "eol", "return"}

\* Whatever was broken off.
Typed ==
  /\ sent \in Seq(Replies) /\ stream = Bytes(All)
  /\ arrived \in 0 .. Len(stream)
  /\ Len(buf) <= arrived /\ buf = SubSeq(stream, arrived - Len(buf) + 1, arrived)
  /\ buf \in Seq(Nat)
  /\ pos \in 0 .. Len(buf)
  /\ step \in Steps
  /\ frame \in FrameType
  /\ step \in {"payload", "eol"} => frame.n \in Nat
  /\ arrays \in Seq(Nat \ {0})
  /\ items \in Seq(FrameType)
  /\ given \in Seq(Seq(FrameType))
  /\ step = "idle" => arrays = <<>> /\ items = <<>>
  /\ broken \in {"no", "error", "cut"}

\* The reader has c bytes behind it, the first k frames and its part of the next.
At(k, s, f, c) ==
  /\ k \in 0 .. Len(All)
  /\ s = "idle" \/ s = "marker" \/ s = "return" => c = Off(All, k)
  /\ s = "line" \/ s = "payload" \/ s = "eol" => k < Len(All)
  /\ s = "line" => f.marker = All[k + 1].marker /\ c = Off(All, k) + 1
  /\ s = "payload" \/ s = "eol" =>
       HasPayload(All[k + 1]) /\ f.marker = Dollar /\ f.n = All[k + 1].n
  /\ s = "payload" => c = Off(All, k) + Header(All[k + 1])
  /\ s = "eol" => f.bytes = All[k + 1].bytes /\ c = Off(All, k + 1) - 2

Here(k) == At(k, step, frame, Consumed)

\* What arrays lack beyond the element that is being read.
Lacks(d, left) ==
  \E S \in [Nat -> Int] :
    /\ S[0] = 0 /\ d = S[Len(left)]
    /\ \A i \in 1 .. Len(left) : S[i] = S[i - 1] + left[i] - 1

\* The call has read the first values of the reply r, and its arrays are those
\* that are not complete.
Reading(r, its, left, s) ==
  /\ Len(its) <= Len(r) /\ \A m \in 1 .. Len(its) : its[m] = Value(r[m])
  /\ s = "return" => Lacks(Opens(r)[Len(its)], left)
  /\ s = "marker" \/ s = "line" \/ s = "payload" \/ s = "eol" =>
       Lacks(Opens(r)[Len(its)] - 1, left) /\ (left = <<>> => its = <<>>)

\* Nothing was broken off: n replies are given, the call is about the next.
InOrder(n, g, its, left, s) ==
  /\ n \in 0 .. Len(sent) /\ Len(g) = n /\ \A i \in 1 .. n : g[i] = Values(sent[i])
  /\ s = "idle" => its = <<>> /\ left = <<>>
  /\ IF n < Len(sent) THEN Reading(sent[n + 1], its, left, s)
     ELSE its = <<>> /\ left = <<>> /\ (s = "idle" \/ s = "marker")

InStep == broken = "no" =>
  /\ InOrder(Len(given), given, items, arrays, step)
  /\ Here(Base(sent, Len(given)) + Len(items))

\* An error has left the rest of an array unread.
InFrames == broken = "error" => \E k \in 0 .. Len(All) : Here(k)

ReaderInv == Typed /\ InStep /\ InFrames

-----------------------------------------------------------------------------
(* The decoder: the buffer *)

\* A piece of a sequence.
LEMMA PieceIs ==
  ASSUME NEW S, NEW s \in Seq(S), NEW a \in Nat, NEW b \in Nat, a <= b, b <= Len(s)
  PROVE  /\ SubSeq(s, a + 1, b) \in Seq(S) /\ Len(SubSeq(s, a + 1, b)) = b - a
         /\ \A i \in 1 .. b - a : SubSeq(s, a + 1, b)[i] = s[a + i]
<1>1. Len(s) \in Nat
  OBVIOUS
<1>2. SubSeq(s, a + 1, b) \in Seq(S) /\ Len(SubSeq(s, a + 1, b)) = b - a
  BY <1>1
<1>3. \A i \in 1 .. b - a : SubSeq(s, a + 1, b)[i] = s[a + i]
  BY <1>1
<1> QED
  BY <1>2, <1>3

LEMMA StreamIs ==
  ASSUME Typed
  PROVE  /\ All \in Seq(Frames) /\ stream \in Seq(Nat) /\ Len(stream) \in Nat
         /\ Len(stream) = Off(All, Len(All)) /\ Len(All) \in Nat
<1>1. All \in Seq(Frames)
  BY RepliesAre DEF Typed, All
<1>2. Bytes(All) \in Seq(Nat) /\ Off(All, Len(All)) = Len(Bytes(All)) /\ stream = Bytes(All)
  BY <1>1, OffsAre DEF Typed
<1> QED
  BY <1>1, <1>2

LEMMA BufferIs ==
  ASSUME Typed
  PROVE  /\ Len(buf) \in Nat /\ pos \in Nat /\ arrived \in Nat /\ Available \in Nat
         /\ Consumed \in Nat /\ Consumed + Available = arrived
         /\ \A y \in 1 .. Available : buf[pos + y] = stream[Consumed + y]
<1>1. stream \in Seq(Nat) /\ Len(stream) \in Nat
  BY StreamIs
<1>2. /\ buf \in Seq(Nat) /\ arrived \in 0 .. Len(stream) /\ Len(buf) <= arrived
      /\ buf = SubSeq(stream, arrived - Len(buf) + 1, arrived) /\ pos \in 0 .. Len(buf)
  BY DEF Typed
<1>3. Len(buf) \in Nat
  BY <1>2
<1> DEFINE d == arrived - Len(buf)
<1>4. d \in Nat /\ arrived \in Nat /\ d + Len(buf) = arrived /\ pos \in Nat
  BY <1>1, <1>2, <1>3
<1>5. \A i \in 1 .. Len(buf) : SubSeq(stream, d + 1, arrived)[i] = stream[d + i]
  BY <1>1, <1>2, <1>3, <1>4
<1>6. \A i \in 1 .. Len(buf) : buf[i] = stream[d + i]
  BY <1>2, <1>5
<1>7. Available = Len(buf) - pos /\ Consumed = d + pos
  BY <1>4 DEF Available, Consumed
<1> HIDE DEF d
<1>8. ASSUME NEW y \in 1 .. Available PROVE buf[pos + y] = stream[Consumed + y]
  <2>1. pos + y \in 1 .. Len(buf) /\ d + (pos + y) = Consumed + y
    BY <1>2, <1>3, <1>4, <1>7
  <2> QED
    BY <1>6, <2>1
<1>9. Available \in Nat
  BY <1>2, <1>3, <1>4, <1>7
<1>10. Consumed \in Nat
  BY <1>4, <1>7
<1>11. Consumed + Available = arrived
  <2>1. (d + pos) + (Len(buf) - pos) = d + Len(buf)
    BY <1>3, <1>4
  <2> QED
    BY <1>4, <1>7, <2>1
<1> QED
  BY <1>3, <1>4, <1>8, <1>9, <1>10, <1>11

\* The cursor moves by n, whether the buffer is compacted or not.
LEMMA ConsumeKeeps ==
  ASSUME Typed, NEW n \in Nat, n <= Available, Consume(n), UNCHANGED input
  PROVE  /\ Len(buf') <= arrived /\ buf' = SubSeq(stream, arrived - Len(buf') + 1, arrived)
         /\ buf' \in Seq(Nat) /\ pos' \in 0 .. Len(buf')
         /\ Consumed' = Consumed + n
<1>1. stream \in Seq(Nat) /\ Len(stream) \in Nat /\ arrived' = arrived
  BY StreamIs DEF input
<1>2. /\ Len(buf) \in Nat /\ pos \in Nat /\ arrived \in Nat
      /\ Available \in Nat /\ Available = Len(buf) - pos /\ Consumed = arrived - Len(buf) + pos
  BY BufferIs DEF Available, Consumed
<1>3. /\ buf \in Seq(Nat) /\ arrived \in 0 .. Len(stream) /\ Len(buf) <= arrived
      /\ buf = SubSeq(stream, arrived - Len(buf) + 1, arrived) /\ pos \in 0 .. Len(buf)
  BY DEF Typed
<1>4. CASE pos + n > CompactAt
  <2>1. buf' = SubSeq(buf, pos + n + 1, Len(buf)) /\ pos' = 0
    BY <1>4 DEF Consume
  <2> DEFINE m == Len(buf) - (pos + n)
  <2>2. m \in Nat /\ m + (pos + n) = Len(buf) /\ pos + n \in Nat
    BY <1>2
  <2>3. /\ buf' \in Seq(Nat) /\ Len(buf') = m
        /\ \A i \in 1 .. m : buf'[i] = buf[pos + n + i]
    <3>1. pos + n <= Len(buf) /\ buf \in Seq(Nat) /\ Len(buf) <= Len(buf)
      BY <1>2, <1>3, <2>2
    <3>2. /\ SubSeq(buf, (pos + n) + 1, Len(buf)) \in Seq(Nat)
          /\ Len(SubSeq(buf, (pos + n) + 1, Len(buf))) = m
          /\ \A i \in 1 .. m : SubSeq(buf, (pos + n) + 1, Len(buf))[i] = buf[(pos + n) + i]
      BY <1>2, <2>2, <3>1, PieceIs
    <3> QED
      BY <2>1, <3>2
  <2>4. \A i \in 1 .. Len(buf) : buf[i] = stream[arrived - Len(buf) + i]
    <3> DEFINE d == arrived - Len(buf)
    <3>1. d \in Nat /\ d <= arrived /\ arrived <= Len(stream) /\ arrived - d = Len(buf)
      BY <1>1, <1>2, <1>3
    <3>2. \A i \in 1 .. arrived - d : SubSeq(stream, d + 1, arrived)[i] = stream[d + i]
      <4> HIDE DEF d
      <4> QED
        BY <1>1, <1>2, <3>1, PieceIs
    <3> QED
      BY <1>3, <3>1, <3>2
  <2>5. ASSUME NEW i \in 1 .. m PROVE buf'[i] = stream[arrived - m + i]
    <3>1. pos + n + i \in 1 .. Len(buf) /\ arrived - Len(buf) + (pos + n + i) = arrived - m + i
      BY <1>2, <2>2
    <3> QED
      BY <2>3, <2>4, <3>1
  <2> HIDE DEF m
  <2>6. m <= arrived
    BY <1>2, <1>3, <2>2
  <2>7. /\ SubSeq(stream, arrived - m + 1, arrived) \in Seq(Nat)
        /\ Len(SubSeq(stream, arrived - m + 1, arrived)) = m
        /\ \A i \in 1 .. m : SubSeq(stream, arrived - m + 1, arrived)[i] = stream[arrived - m + i]
    <3> DEFINE e == arrived - m
    <3>1. e \in Nat /\ arrived \in Nat /\ e <= arrived /\ arrived <= Len(stream) /\ arrived - e = m
      BY <1>1, <1>2, <1>3, <2>2, <2>6
    <3>2. stream \in Seq(Nat)
      BY <1>1
    <3> HIDE DEF e
    <3>3. /\ SubSeq(stream, e + 1, arrived) \in Seq(Nat)
          /\ Len(SubSeq(stream, e + 1, arrived)) = arrived - e
          /\ \A i \in 1 .. arrived - e : SubSeq(stream, e + 1, arrived)[i] = stream[e + i]
      BY <3>1, <3>2, PieceIs
    <3> QED
      BY <3>1, <3>3 DEF e
  <2>8. buf' = SubSeq(stream, arrived - m + 1, arrived)
    BY <2>3, <2>5, <2>7, SeqEqual
  <2>9. Consumed' = arrived - m + 0
    BY <1>1, <2>1, <2>3 DEF Consumed
  <2>10. Consumed' = Consumed + n
    BY <1>2, <2>2, <2>9
  <2>11. pos' \in 0 .. Len(buf')
    BY <2>1, <2>2, <2>3
  <2> QED
    BY <2>3, <2>6, <2>8, <2>10, <2>11
<1>5. CASE ~(pos + n > CompactAt)
  <2>1. pos' = pos + n /\ buf' = buf
    BY <1>5 DEF Consume
  <2>2. Consumed' = arrived - Len(buf) + (pos + n)
    BY <1>1, <2>1 DEF Consumed
  <2>3. Consumed' = Consumed + n
    BY <1>2, <2>2
  <2>4. pos' \in 0 .. Len(buf')
    BY <1>2, <2>1
  <2> QED
    BY <1>3, <2>1, <2>3, <2>4
<1> QED
  BY <1>4, <1>5

\* The line that is read ends before the first CRLF.
LEMMA NextLineIs ==
  ASSUME Typed, NEW e \in LineEnds, \A j \in LineEnds : e <= j
  PROVE  /\ e \in pos + 1 .. Len(buf) - 1 /\ e \in Nat
         /\ NextLine \in Seq(Nat) /\ Len(NextLine) = e - 1 - pos
         /\ Len(NextLine) + 2 \in Nat /\ Len(NextLine) + 2 <= Available
         /\ \A i \in 1 .. Len(NextLine) : NextLine[i] = buf[pos + i]
<1>1. Len(buf) \in Nat /\ pos \in Nat /\ Available = Len(buf) - pos /\ buf \in Seq(Nat)
  BY BufferIs DEF Available, Typed
<1>2. e \in pos + 1 .. Len(buf) - 1
  BY DEF LineEnds
<1>3. \A i \in LineEnds : i \in Int
  BY <1>1 DEF LineEnds
<1> DEFINE end == CHOOSE i \in LineEnds : \A j \in LineEnds : i <= j
<1>4. end = e
  <2>1. end \in LineEnds /\ \A j \in LineEnds : end <= j
    OBVIOUS
  <2> HIDE DEF end
  <2> QED
    BY <1>3, <2>1
<1>5. NextLine = SubSeq(buf, pos + 1, e - 1)
  BY <1>4 DEF NextLine
<1>6. e \in Nat /\ e - 1 - pos \in Nat /\ e - 1 <= Len(buf)
  BY <1>1, <1>2
<1>7. /\ NextLine \in Seq(Nat) /\ Len(NextLine) = e - 1 - pos
      /\ \A i \in 1 .. e - 1 - pos : NextLine[i] = buf[pos + i]
  <2>1. e - 1 \in Nat /\ pos <= e - 1
    BY <1>1, <1>2
  <2> QED
    BY <1>1, <1>5, <1>6, <2>1, PieceIs
<1>8. Len(NextLine) + 2 <= Available
  BY <1>1, <1>2, <1>7
<1> QED
  BY <1>2, <1>6, <1>7, <1>8

LEMMA FirstLineEnd ==
  ASSUME Typed, LineEnds # {}
  PROVE  \E e \in LineEnds : \A j \in LineEnds : e <= j
<1>1. Len(buf) \in Nat /\ pos \in Nat
  BY BufferIs
<1>2. LineEnds \in SUBSET Nat
  BY <1>1 DEF LineEnds
<1> QED
  BY <1>2, LeastOf

-----------------------------------------------------------------------------
(* The decoder: each step keeps the types *)

LEMMA FrameIs ==
  ASSUME NEW m \in Markers, NEW n \in Nat \cup {-1}, NEW b \in Seq(Nat)
  PROVE  /\ Frame(m, n, b) \in FrameType
         /\ Frame(m, n, b).marker = m /\ Frame(m, n, b).n = n /\ Frame(m, n, b).bytes = b
BY DEF Frame, FrameType

LEMMA NoneIs == None \in FrameType /\ None.marker = Underscore /\ None.n = -1 /\ None.bytes = <<>>
<1>1. Underscore \in Markers /\ -1 \in Nat \cup {-1} /\ <<>> \in Seq(Nat)
  BY DEF Markers
<1>2. None = Frame(Underscore, -1, <<>>)
  BY DEF None, Null
<1>3. None = [marker |-> Underscore, n |-> -1, bytes |-> <<>>]
  BY <1>2 DEF Frame
<1> QED
  BY <1>1, <1>3 DEF FrameType

LEMMA ValueIs ==
  ASSUME NEW f \in FrameType
  PROVE  Value(f) \in FrameType
BY NoneIs DEF Value

\* What is known of a frame behind a line that its marker allows.
LEMMA HeadedIs ==
  ASSUME NEW m \in Markers, NEW line \in Seq(Nat),
         m \in {Colon, Dollar, Star} => IsNumber(line)
  PROVE  /\ Headed(m, line) \in FrameType
         /\ HasPayload(Headed(m, line)) => Headed(m, line).n \in Nat
         /\ Elements(Headed(m, line)) > 0 => Headed(m, line).n \in Nat \ {0}
<1>1. CASE m \in {Plus, Minus}
  <2>1. Headed(m, line) = Frame(m, 0, line) /\ 0 \in Nat \cup {-1}
    BY <1>1 DEF Headed, Plus, Minus, Underscore
  <2>2. Headed(m, line) \in FrameType /\ Headed(m, line).n = 0
    BY <2>1, FrameIs
  <2>3. Elements(Headed(m, line)) = 0
    BY <2>2 DEF Elements
  <2> QED
    BY <2>2, <2>3
<1>2. CASE m = Underscore
  <2>1. Headed(m, line) = None
    BY <1>2 DEF Headed, Plus, Minus, Underscore
  <2>2. Headed(m, line) \in FrameType /\ Headed(m, line).marker = Underscore /\ Headed(m, line).n = -1
    BY <2>1, NoneIs
  <2>3. ~HasPayload(Headed(m, line)) /\ Elements(Headed(m, line)) = 0
    BY <2>2 DEF Elements, HasPayload
  <2> QED
    BY <2>2, <2>3
<1>3. CASE m \in {Colon, Dollar, Star}
  <2>1. Headed(m, line) = Frame(m, IntOf(line), <<>>) /\ <<>> \in Seq(Nat)
    BY <1>3 DEF Headed, Plus, Minus, Underscore, Colon, Dollar, Star
  <2>2. IntOf(line) \in Nat \cup {-1}
    <3>1. CASE line = Digits(-1)
      BY <3>1 DEF IntOf
    <3>2. CASE line # Digits(-1)
      <4>1. Len(line) = 1 /\ line[1] >= Zero /\ IntOf(line) = line[1] - Zero
        BY <1>3, <3>2 DEF IsNumber, IntOf
      <4>2. line[1] \in Nat
        <5>1. 1 \in 1 .. Len(line)
          BY <4>1
        <5> QED
          BY <5>1
      <4>3. Zero \in Nat
        BY DEF Zero
      <4> QED
        BY <4>1, <4>2, <4>3
    <3> QED
      BY <3>1, <3>2
  <2>3. Headed(m, line) \in FrameType /\ Headed(m, line).n \in Nat \cup {-1}
    <3>1. /\ Frame(m, IntOf(line), <<>>) \in FrameType
          /\ Frame(m, IntOf(line), <<>>).n = IntOf(line)
      <4> DEFINE n == IntOf(line)
      <4>1. n \in Nat \cup {-1} /\ <<>> \in Seq(Nat)
        BY <2>2
      <4> HIDE DEF n
      <4>2. Frame(m, n, <<>>) \in FrameType /\ Frame(m, n, <<>>).n = n
        BY <4>1 DEF Frame, FrameType
      <4> QED
        BY <4>2 DEF n
    <3> QED
      BY <2>1, <2>2, <3>1
  <2>4. HasPayload(Headed(m, line)) => Headed(m, line).n \in Nat
    BY <2>3 DEF HasPayload
  <2>5. Elements(Headed(m, line)) > 0 => Headed(m, line).n \in Nat \ {0}
    BY <2>3 DEF Elements
  <2> QED
    BY <2>3, <2>4, <2>5
<1> QED
  BY <1>1, <1>2, <1>3 DEF Markers

\* Bytes that are read or not read, and what a step makes of them.
LEMMA TypedBy ==
  ASSUME Typed, UNCHANGED input,
         Len(buf') <= arrived, buf' = SubSeq(stream, arrived - Len(buf') + 1, arrived),
         buf' \in Seq(Nat), pos' \in 0 .. Len(buf'),
         step' \in Steps, frame' \in FrameType,
         step' \in {"payload", "eol"} => frame'.n \in Nat,
         arrays' \in Seq(Nat \ {0}), items' \in Seq(FrameType), given' \in Seq(Seq(FrameType)),
         step' = "idle" => arrays' = <<>> /\ items' = <<>>,
         broken' \in {"no", "error", "cut"}
  PROVE  Typed'
<1>1. sent' = sent /\ stream' = stream /\ arrived' = arrived
  BY DEF input
<1>2. All' = All
  BY <1>1 DEF All
<1>3. sent \in Seq(Replies) /\ stream = Bytes(All) /\ arrived \in 0 .. Len(stream)
  BY DEF Typed
<1> QED
  BY <1>1, <1>2, <1>3 DEF Typed

LEMMA TypedParts ==
  ASSUME Typed
  PROVE  /\ Len(buf) <= arrived /\ buf = SubSeq(stream, arrived - Len(buf) + 1, arrived)
         /\ buf \in Seq(Nat) /\ pos \in 0 .. Len(buf)
         /\ step \in Steps /\ frame \in FrameType
         /\ step \in {"payload", "eol"} => frame.n \in Nat
         /\ arrays \in Seq(Nat \ {0}) /\ items \in Seq(FrameType)
         /\ given \in Seq(Seq(FrameType)) /\ broken \in {"no", "error", "cut"}
         /\ step = "idle" => arrays = <<>> /\ items = <<>>
BY DEF Typed

LEMMA LeaveIs ==
  ASSUME Leave
  PROVE  /\ step' \in Steps /\ step' \notin {"payload", "eol"} /\ frame' \in FrameType
         /\ arrays' = <<>> /\ items' = <<>> /\ step' = "idle" /\ frame' = None
         /\ arrays' \in Seq(Nat \ {0}) /\ items' \in Seq(FrameType)
BY NoneIs DEF Leave, Steps

LEMMA FetchTyped == Typed /\ Fetch => Typed'
<1> SUFFICES ASSUME Typed, Fetch PROVE Typed'
  OBVIOUS
<1>1. /\ Len(buf) <= arrived /\ buf = SubSeq(stream, arrived - Len(buf) + 1, arrived)
      /\ buf \in Seq(Nat) /\ pos \in 0 .. Len(buf)
  BY TypedParts
<1>2. stream \in Seq(Nat) /\ Len(stream) \in Nat /\ arrived \in Nat /\ Len(buf) \in Nat
  BY StreamIs, BufferIs
<1>3. PICK n \in 1 .. ChunkSize :
        arrived + n <= Len(stream) /\ arrived' = arrived + n
        /\ buf' = buf \o SubSeq(stream, arrived + 1, arrived + n)
  BY DEF Fetch
<1>4. ChunkSize \in Nat
  BY ReaderAssumption
<1>5. n \in Nat /\ arrived + n \in Nat /\ arrived <= arrived + n /\ (arrived + n) - arrived = n
  BY <1>2, <1>3, <1>4
<1> DEFINE T == SubSeq(stream, arrived + 1, arrived + n)
<1>6. T \in Seq(Nat) /\ Len(T) = n /\ \A i \in 1 .. n : T[i] = stream[arrived + i]
  <2> DEFINE e == arrived + n
  <2>1. arrived \in Nat /\ e \in Nat /\ arrived <= e /\ e <= Len(stream) /\ e - arrived = n
    BY <1>2, <1>3, <1>5
  <2>2. stream \in Seq(Nat)
    BY <1>2
  <2> HIDE DEF e
  <2>3. /\ SubSeq(stream, arrived + 1, e) \in Seq(Nat)
        /\ Len(SubSeq(stream, arrived + 1, e)) = e - arrived
        /\ \A i \in 1 .. e - arrived : SubSeq(stream, arrived + 1, e)[i] = stream[arrived + i]
    BY <2>1, <2>2, PieceIs
  <2> QED
    BY <2>1, <2>3 DEF e
<1> HIDE DEF T
<1>7. buf' = buf \o T
  BY <1>3 DEF T
<1>8. /\ buf' \in Seq(Nat) /\ Len(buf') = Len(buf) + n
      /\ \A i \in 1 .. Len(buf) + n : buf'[i] = IF i <= Len(buf) THEN buf[i] ELSE T[i - Len(buf)]
  BY <1>1, <1>6, <1>7, ConcatProperties
<1> DEFINE d == arrived - Len(buf)
<1>9. d \in Nat /\ d <= arrived /\ arrived - d = Len(buf) /\ arrived <= Len(stream)
  BY <1>1, <1>2, <1>3, <1>5
<1>10. \A i \in 1 .. Len(buf) : buf[i] = stream[d + i]
  <2>1. \A i \in 1 .. arrived - d : SubSeq(stream, d + 1, arrived)[i] = stream[d + i]
    <3> HIDE DEF d
    <3> QED
      BY <1>2, <1>9, PieceIs
  <2> QED
    BY <1>1, <1>9, <2>1
<1>11. ASSUME NEW i \in 1 .. Len(buf) + n PROVE buf'[i] = stream[d + i]
  <2>1. CASE i <= Len(buf)
    <3>1. i \in 1 .. Len(buf)
      BY <1>2, <2>1
    <3> QED
      BY <1>8, <1>10, <2>1, <3>1
  <2>2. CASE ~(i <= Len(buf))
    <3>1. i - Len(buf) \in 1 .. n /\ arrived + (i - Len(buf)) = d + i
      BY <1>2, <1>5, <2>2
    <3> QED
      BY <1>6, <1>8, <2>2, <3>1
  <2> QED
    BY <2>1, <2>2
<1>12. (arrived + n) - Len(buf') = d /\ (arrived + n) - d = Len(buf) + n /\ d <= arrived + n
  BY <1>2, <1>5, <1>8, <1>9
<1>13. /\ SubSeq(stream, d + 1, arrived + n) \in Seq(Nat)
       /\ Len(SubSeq(stream, d + 1, arrived + n)) = Len(buf) + n
       /\ \A i \in 1 .. Len(buf) + n : SubSeq(stream, d + 1, arrived + n)[i] = stream[d + i]
  <2> HIDE DEF d
  <2>1. /\ SubSeq(stream, d + 1, arrived + n) \in Seq(Nat)
        /\ Len(SubSeq(stream, d + 1, arrived + n)) = (arrived + n) - d
        /\ \A i \in 1 .. (arrived + n) - d : SubSeq(stream, d + 1, arrived + n)[i] = stream[d + i]
    <3>1. d \in Nat /\ arrived + n \in Nat /\ d <= arrived + n /\ arrived + n <= Len(stream)
      BY <1>3, <1>5, <1>9, <1>12
    <3> QED
      BY <1>2, <3>1, PieceIs
  <2> QED
    BY <1>12, <2>1
<1>14. buf' = SubSeq(stream, d + 1, arrived + n)
  <2> HIDE DEF d
  <2> QED
    BY <1>8, <1>11, <1>13, SeqEqual
<1>15. buf' = SubSeq(stream', arrived' - Len(buf') + 1, arrived')
  <2>1. stream' = stream /\ arrived' = arrived + n
    BY <1>3 DEF Fetch, server
  <2> QED
    BY <1>12, <1>14, <2>1
<1>16. Len(buf') <= arrived' /\ arrived' \in 0 .. Len(stream) /\ pos \in 0 .. Len(buf')
  BY <1>1, <1>2, <1>3, <1>5, <1>8
<1>17. /\ sent' = sent /\ stream' = stream /\ pos' = pos /\ step' = step /\ frame' = frame
       /\ arrays' = arrays /\ items' = items /\ given' = given /\ broken' = broken
  BY DEF Fetch, server, history
<1>18. All' = All
  BY <1>17 DEF All
<1> QED
  BY <1>8, <1>15, <1>16, <1>17, <1>18 DEF Typed

LEMMA RaisesTyped == Typed /\ Raises => Typed'
<1> SUFFICES ASSUME Typed, Raises PROVE Typed'
  OBVIOUS
<1>1. UNCHANGED input /\ buf' = buf /\ pos' = pos /\ given' = given /\ broken' \in {"no", "error", "cut"} /\ Leave
  BY DEF Raises
<1> QED
  BY <1>1, TypedParts, LeaveIs, TypedBy

LEMMA ReadTyped == Typed /\ Read => Typed'
<1> SUFFICES ASSUME Typed, Read PROVE Typed'
  OBVIOUS
<1>1. /\ UNCHANGED input /\ buf' = buf /\ pos' = pos /\ frame' = frame /\ arrays' = arrays
      /\ items' = items /\ given' = given /\ broken' = broken /\ step' = "marker"
  BY DEF Read, history
<1>2. step' \in Steps /\ step' \notin {"payload", "eol"} /\ step' # "idle"
  BY <1>1 DEF Steps
<1> QED
  BY <1>1, <1>2, TypedParts, TypedBy

LEMMA MarkerTyped == Typed /\ Marker => Typed'
<1> SUFFICES ASSUME Typed, Marker PROVE Typed'
  OBVIOUS
<1> DEFINE m == buf[pos + 1]
<1>1. /\ UNCHANGED input /\ buf' = buf /\ pos' = pos + 1 /\ broken' = broken /\ ~Short
      /\ step = "marker"
      /\ \/ /\ m \in Markers /\ step' = "line" /\ frame' = Frame(m, 0, <<>>)
            /\ arrays' = arrays /\ items' = items /\ given' = given
         \/ Leave /\ given' = Append(given, <<>>)
  BY DEF Marker
<1>2. pos' \in 0 .. Len(buf)
  <2>1. Len(buf) \in Nat /\ pos \in Nat /\ Len(buf) - pos >= 1
    BY <1>1, BufferIs DEF Short, Available
  <2> QED
    BY <1>1, <2>1
<1>3. CASE step' = "line"
  <2>1. m \in Markers /\ frame' = Frame(m, 0, <<>>) /\ arrays' = arrays /\ items' = items /\ given' = given
    BY <1>1, <1>3 DEF Leave
  <2>2. frame' \in FrameType
    <3>1. 0 \in Nat \cup {-1} /\ <<>> \in Seq(Nat)
      OBVIOUS
    <3> HIDE DEF m
    <3> QED
      BY <2>1, <3>1, FrameIs
  <2>3. step' \in Steps /\ step' \notin {"payload", "eol"} /\ step' # "idle"
    BY <1>3 DEF Steps
  <2> HIDE DEF m
  <2> QED
    BY <1>1, <1>2, <2>1, <2>2, <2>3, TypedParts, TypedBy
<1>4. CASE step' # "line"
  <2>1. Leave /\ given' = Append(given, <<>>)
    BY <1>1, <1>4
  <2>2. given' \in Seq(Seq(FrameType))
    <3>1. given \in Seq(Seq(FrameType)) /\ <<>> \in Seq(FrameType)
      BY TypedParts
    <3> QED
      BY <2>1, <3>1, AppendProperties
  <2> HIDE DEF m
  <2> QED
    BY <1>1, <1>2, <2>1, <2>2, LeaveIs, TypedParts, TypedBy
<1> QED
  BY <1>3, <1>4

\* What every action that reads a line does to the buffer.
LEMMA LineKeeps ==
  ASSUME Typed, AtLine
  PROVE  /\ UNCHANGED input
         /\ Len(buf') <= arrived /\ buf' = SubSeq(stream, arrived - Len(buf') + 1, arrived)
         /\ buf' \in Seq(Nat) /\ pos' \in 0 .. Len(buf')
         /\ Consumed' = Consumed + (Len(NextLine) + 2)
         /\ NextLine \in Seq(Nat) /\ step = "line" /\ LineEnds # {}
<1>1. step = "line" /\ LineEnds # {} /\ Consume(Len(NextLine) + 2) /\ UNCHANGED input
  BY DEF AtLine, Short
<1>2. PICK e \in LineEnds : \A j \in LineEnds : e <= j
  BY <1>1, FirstLineEnd
<1>3. NextLine \in Seq(Nat) /\ Len(NextLine) + 2 \in Nat /\ Len(NextLine) + 2 <= Available
  BY <1>2, NextLineIs
<1> QED
  BY <1>1, <1>3, ConsumeKeeps

LEMMA ReadLineTyped == Typed /\ ReadLine => Typed'
<1> SUFFICES ASSUME Typed, ReadLine PROVE Typed'
  OBVIOUS
<1> DEFINE f == Headed(frame.marker, NextLine)
<1>1. /\ AtLine /\ (NumberDue => IsNumber(NextLine))
      /\ step' = IF HasPayload(f) THEN "payload"
                 ELSE IF Elements(f) > 0 THEN "marker" ELSE "return"
      /\ frame' = IF HasPayload(f) THEN f ELSE None
      /\ items' = IF HasPayload(f) THEN items ELSE Append(items, Value(f))
      /\ arrays' = IF Elements(f) > 0 THEN Append(arrays, f.n) ELSE arrays
      /\ given' = given /\ broken' = broken
  BY DEF ReadLine, history
<1>2. NextLine \in Seq(Nat) /\ frame.marker \in Markers
  BY <1>1, LineKeeps, TypedParts DEF FrameType
<1>3. /\ f \in FrameType /\ (HasPayload(f) => f.n \in Nat)
      /\ Elements(f) > 0 => f.n \in Nat \ {0}
  BY <1>1, <1>2, HeadedIs DEF NumberDue
<1> HIDE DEF f
<1>4. step' \in Steps /\ step' # "idle" /\ step' # "eol" /\ (step' = "payload" => HasPayload(f))
  BY <1>1 DEF Steps
<1>5. frame' \in FrameType /\ (HasPayload(f) => frame' = f)
  BY <1>1, <1>3, NoneIs
<1>6. arrays' \in Seq(Nat \ {0})
  BY <1>1, <1>3, TypedParts, AppendProperties
<1>7. items' \in Seq(FrameType)
  <2>1. Value(f) \in FrameType
    BY <1>3, ValueIs
  <2> QED
    BY <1>1, <2>1, TypedParts, AppendProperties
<1>8. step' \in {"payload", "eol"} => frame'.n \in Nat
  BY <1>3, <1>4, <1>5
<1>9. given' \in Seq(Seq(FrameType)) /\ broken' \in {"no", "error", "cut"}
  BY <1>1, TypedParts
<1>10. /\ UNCHANGED input
       /\ Len(buf') <= arrived /\ buf' = SubSeq(stream, arrived - Len(buf') + 1, arrived)
       /\ buf' \in Seq(Nat) /\ pos' \in 0 .. Len(buf')
  BY <1>1, LineKeeps
<1> QED
  BY <1>4, <1>5, <1>6, <1>7, <1>8, <1>9, <1>10, TypedBy

LEMMA GivesTyped ==
  ASSUME Typed, NEW v \in Seq(FrameType), AtLine, Leave, given' = Append(given, v),
         broken' \in {"no", "error", "cut"}
  PROVE  Typed'
<1>1. given' \in Seq(Seq(FrameType))
  BY TypedParts, AppendProperties
<1>2. /\ UNCHANGED input
      /\ Len(buf') <= arrived /\ buf' = SubSeq(stream, arrived - Len(buf') + 1, arrived)
      /\ buf' \in Seq(Nat) /\ pos' \in 0 .. Len(buf')
  BY LineKeeps
<1> QED
  BY <1>1, <1>2, LeaveIs, TypedBy

LEMMA ErrorIs ==
  ASSUME NEW b \in Seq(Nat)
  PROVE  <<Error(b)>> \in Seq(FrameType)
<1>1. Minus \in Markers /\ 0 \in Nat \cup {-1}
  BY DEF Markers
<1>2. Frame(Minus, 0, b) \in FrameType
  BY <1>1, FrameIs
<1> QED
  BY <1>2 DEF Error

LEMMA LineErrorTyped == Typed /\ (BadNumber \/ RaiseError) => Typed'
<1> SUFFICES ASSUME Typed, BadNumber \/ RaiseError PROVE Typed'
  OBVIOUS
<1>1. broken \in {"no", "error", "cut"}
  BY TypedParts
<1>2. CASE BadNumber
  <2>1. AtLine /\ Leave /\ given' = Append(given, <<>>) /\ broken' = broken
    BY <1>2 DEF BadNumber
  <2>2. <<>> \in Seq(FrameType)
    OBVIOUS
  <2> QED
    BY <1>1, <2>1, <2>2, GivesTyped
<1>3. CASE RaiseError
  <2>1. AtLine /\ Leave /\ given' = Append(given, <<Error(NextLine)>>)
    BY <1>3 DEF RaiseError
  <2>2. broken' \in {"no", "error", "cut"}
    BY <1>1, <1>3 DEF RaiseError
  <2>3. <<Error(NextLine)>> \in Seq(FrameType)
    BY <2>1, LineKeeps, ErrorIs
  <2> QED
    BY <2>1, <2>2, <2>3, GivesTyped
<1> QED
  BY <1>2, <1>3

LEMMA PayloadKeeps ==
  ASSUME Typed, ReadPayload
  PROVE  /\ UNCHANGED input
         /\ Len(buf') <= arrived /\ buf' = SubSeq(stream, arrived - Len(buf') + 1, arrived)
         /\ buf' \in Seq(Nat) /\ pos' \in 0 .. Len(buf')
         /\ Consumed' = Consumed + frame.n /\ frame.n \in Nat /\ frame.n <= Available
         /\ frame' = Frame(frame.marker, frame.n, SubSeq(buf, pos + 1, pos + frame.n))
         /\ SubSeq(buf, pos + 1, pos + frame.n) \in Seq(Nat)
         /\ Len(SubSeq(buf, pos + 1, pos + frame.n)) = frame.n
         /\ \A y \in 1 .. frame.n : SubSeq(buf, pos + 1, pos + frame.n)[y] = buf[pos + y]
<1>1. /\ step = "payload" /\ ~(Available < frame.n) /\ Consume(frame.n) /\ UNCHANGED input
      /\ frame' = [frame EXCEPT !.bytes = SubSeq(buf, pos + 1, pos + frame.n)]
  BY DEF ReadPayload, Short
<1>2. frame.n \in Nat /\ frame \in FrameType /\ buf \in Seq(Nat)
  BY <1>1, TypedParts
<1>3. Available \in Nat /\ Len(buf) \in Nat /\ pos \in Nat /\ Available = Len(buf) - pos
  BY BufferIs DEF Available
<1>4. frame.n <= Available
  BY <1>1, <1>2, <1>3
<1>5. frame' = Frame(frame.marker, frame.n, SubSeq(buf, pos + 1, pos + frame.n))
  BY <1>1, <1>2 DEF Frame, FrameType
<1>6. /\ pos + frame.n \in Nat /\ pos <= pos + frame.n /\ pos + frame.n <= Len(buf)
      /\ (pos + frame.n) - pos = frame.n
  BY <1>2, <1>3, <1>4
<1>7. /\ SubSeq(buf, pos + 1, pos + frame.n) \in Seq(Nat)
      /\ Len(SubSeq(buf, pos + 1, pos + frame.n)) = (pos + frame.n) - pos
      /\ \A y \in 1 .. (pos + frame.n) - pos : SubSeq(buf, pos + 1, pos + frame.n)[y] = buf[pos + y]
  <2> DEFINE b == pos + frame.n
  <2>1. b \in Nat /\ pos <= b /\ b <= Len(buf)
    BY <1>6
  <2> HIDE DEF b
  <2>2. /\ SubSeq(buf, pos + 1, b) \in Seq(Nat) /\ Len(SubSeq(buf, pos + 1, b)) = b - pos
        /\ \A y \in 1 .. b - pos : SubSeq(buf, pos + 1, b)[y] = buf[pos + y]
    BY <1>2, <1>3, <2>1, PieceIs
  <2> QED
    BY <2>2 DEF b
<1>8. /\ Len(SubSeq(buf, pos + 1, pos + frame.n)) = frame.n
      /\ \A y \in 1 .. frame.n : SubSeq(buf, pos + 1, pos + frame.n)[y] = buf[pos + y]
  BY <1>6, <1>7
<1> QED
  BY <1>1, <1>2, <1>4, <1>5, <1>7, <1>8, ConsumeKeeps

LEMMA ReadPayloadTyped == Typed /\ ReadPayload => Typed'
<1> SUFFICES ASSUME Typed, ReadPayload PROVE Typed'
  OBVIOUS
<1>1. /\ step' = "eol" /\ arrays' = arrays /\ items' = items /\ given' = given /\ broken' = broken
  BY DEF ReadPayload, history
<1>2. frame.marker \in Markers /\ frame.n \in Nat \cup {-1}
  BY TypedParts DEF FrameType
<1>3. frame' \in FrameType /\ frame'.n = frame.n
  <2> DEFINE b == SubSeq(buf, pos + 1, pos + frame.n)
  <2>1. frame' = Frame(frame.marker, frame.n, b) /\ b \in Seq(Nat)
    BY PayloadKeeps
  <2> HIDE DEF b
  <2> QED
    BY <1>2, <2>1, FrameIs
<1>4. step' \in Steps /\ step' # "idle" /\ (step' \in {"payload", "eol"} => frame'.n \in Nat)
  BY <1>1, <1>3, PayloadKeeps DEF Steps
<1> QED
  BY <1>1, <1>3, <1>4, TypedParts, PayloadKeeps, TypedBy

LEMMA EolKeeps ==
  ASSUME Typed, ReadEol
  PROVE  /\ UNCHANGED input
         /\ Len(buf') <= arrived /\ buf' = SubSeq(stream, arrived - Len(buf') + 1, arrived)
         /\ buf' \in Seq(Nat) /\ pos' \in 0 .. Len(buf')
         /\ Consumed' = Consumed + 2
<1>1. step = "eol" /\ ~(Available < 2) /\ Consume(2) /\ UNCHANGED input
  BY DEF ReadEol, Short
<1>2. 2 \in Nat /\ 2 <= Available
  BY <1>1, BufferIs
<1> QED
  BY <1>1, <1>2, ConsumeKeeps

LEMMA ReadEolTyped == Typed /\ ReadEol => Typed'
<1> SUFFICES ASSUME Typed, ReadEol PROVE Typed'
  OBVIOUS
<1>1. /\ step' = "return" /\ arrays' = arrays /\ given' = given /\ broken' = broken
      /\ frame' = None /\ items' = Append(items, frame)
  BY DEF ReadEol, history
<1>2. frame' \in FrameType /\ items' \in Seq(FrameType)
  BY <1>1, NoneIs, TypedParts, AppendProperties
<1>3. step' \in Steps /\ step' # "idle" /\ step' \notin {"payload", "eol"}
  BY <1>1 DEF Steps
<1> QED
  BY <1>1, <1>2, <1>3, TypedParts, EolKeeps, TypedBy

\* The innermost array is complete, or lacks one less.
LEMMA ElementIs ==
  ASSUME Typed, ReturnElement
  PROVE  /\ arrays # <<>> /\ Len(arrays) \in Nat \ {0} /\ arrays' \in Seq(Nat \ {0})
         /\ \/ /\ arrays[Len(arrays)] = 1 /\ step' = "return"
               /\ Len(arrays') = Len(arrays) - 1
               /\ \A i \in 1 .. Len(arrays) - 1 : arrays'[i] = arrays[i]
            \/ /\ arrays[Len(arrays)] > 1 /\ step' = "marker"
               /\ Len(arrays') = Len(arrays)
               /\ \A i \in 1 .. Len(arrays) - 1 : arrays'[i] = arrays[i]
               /\ arrays'[Len(arrays)] = arrays[Len(arrays)] - 1
<1> DEFINE n == Len(arrays)
<1>1. arrays \in Seq(Nat \ {0}) /\ arrays # <<>> /\ step = "return"
  BY TypedParts DEF ReturnElement
<1>2. n \in Nat \ {0} /\ n \in 1 .. n
  BY <1>1
<1>3. arrays[n] \in Nat \ {0}
  BY <1>1, <1>2
<1>4. CASE arrays[n] = 1
  <2>1. arrays' = SubSeq(arrays, 1, n - 1) /\ step' = step
    BY <1>4 DEF ReturnElement, Last, Front
  <2>2. /\ SubSeq(arrays, 1, n - 1) \in Seq(Nat \ {0}) /\ Len(SubSeq(arrays, 1, n - 1)) = n - 1
        /\ \A i \in 1 .. n - 1 : SubSeq(arrays, 1, n - 1)[i] = arrays[i]
    <3>1. 0 \in Nat /\ n - 1 \in Nat /\ 0 <= n - 1 /\ n - 1 <= n /\ (n - 1) - 0 = n - 1
      BY <1>2
    <3>2. /\ SubSeq(arrays, 0 + 1, n - 1) \in Seq(Nat \ {0})
          /\ Len(SubSeq(arrays, 0 + 1, n - 1)) = (n - 1) - 0
          /\ \A i \in 1 .. (n - 1) - 0 : SubSeq(arrays, 0 + 1, n - 1)[i] = arrays[0 + i]
      BY <1>1, <3>1, PieceIs
    <3> QED
      BY <3>1, <3>2
  <2> QED
    BY <1>1, <1>2, <1>4, <2>1, <2>2
<1>5. CASE arrays[n] # 1
  <2>1. arrays' = [arrays EXCEPT ![n] = @ - 1] /\ step' = "marker"
    BY <1>5 DEF ReturnElement, Last
  <2>2. arrays[n] - 1 \in Nat \ {0} /\ arrays[n] > 1
    BY <1>3, <1>5
  <2>3. arrays \in [1 .. n -> Nat \ {0}]
    BY <1>1
  <2>4. arrays' \in [1 .. n -> Nat \ {0}] /\ arrays'[n] = arrays[n] - 1
    BY <1>2, <2>1, <2>2, <2>3
  <2>5. ASSUME NEW i \in 1 .. n - 1 PROVE arrays'[i] = arrays[i]
    <3>1. i \in 1 .. n /\ i # n
      BY <1>2
    <3> QED
      BY <2>1, <2>3, <3>1
  <2>6. arrays' \in Seq(Nat \ {0}) /\ Len(arrays') = n
    BY <1>2, <2>4, SeqDef
  <2> QED
    BY <1>1, <1>2, <2>1, <2>2, <2>4, <2>5, <2>6
<1> QED
  BY <1>4, <1>5

LEMMA ReturnsTyped == Typed /\ (ReturnElement \/ Return) => Typed'
<1> SUFFICES ASSUME Typed, ReturnElement \/ Return PROVE Typed'
  OBVIOUS
<1>1. CASE ReturnElement
  <2>1. /\ UNCHANGED input /\ buf' = buf /\ pos' = pos /\ frame' = frame /\ items' = items
        /\ given' = given /\ broken' = broken
    BY <1>1 DEF ReturnElement, history
  <2>2. arrays' \in Seq(Nat \ {0}) /\ (step' = "return" \/ step' = "marker")
    BY <1>1, ElementIs
  <2>3. step' \in Steps /\ step' # "idle" /\ step' \notin {"payload", "eol"}
    BY <2>2 DEF Steps
  <2> QED
    BY <2>1, <2>2, <2>3, TypedParts, TypedBy
<1>2. CASE Return
  <2>1. /\ UNCHANGED input /\ buf' = buf /\ pos' = pos /\ frame' = frame /\ arrays' = arrays
        /\ broken' = broken /\ items' = <<>> /\ step' = "idle" /\ arrays = <<>>
        /\ given' = Append(given, items)
    BY <1>2 DEF Return
  <2>2. given' \in Seq(Seq(FrameType)) /\ items' \in Seq(FrameType)
    BY <2>1, TypedParts, AppendProperties
  <2>3. step' \in Steps /\ step' \notin {"payload", "eol"}
    BY <2>1 DEF Steps
  <2> QED
    BY <2>1, <2>2, <2>3, TypedParts, TypedBy
<1> QED
  BY <1>1, <1>2

LEMMA TypedInit == ReaderInit => Typed
<1> SUFFICES ASSUME ReaderInit PROVE Typed
  OBVIOUS
<1>1. PICK n \in 1 .. MaxReplies : sent \in [1 .. n -> Replies]
  BY DEF ReaderInit
<1>2. n \in Nat /\ sent \in Seq(Replies)
  BY <1>1, ReaderAssumption, SeqDef
<1>3. All \in Seq(Frames) /\ stream = Bytes(All)
  BY <1>2, RepliesAre DEF All, ReaderInit
<1>4. stream \in Seq(Nat) /\ Len(stream) \in Nat
  BY <1>3, OffsAre
<1>5. buf = <<>> /\ pos = 0 /\ arrived = 0 /\ Len(<<>>) = 0 /\ <<>> \in Seq(Nat)
  BY DEF ReaderInit
<1>6. SubSeq(stream, 0 - 0 + 1, 0) = <<>>
  BY <1>4
<1>7. arrived \in 0 .. Len(stream) /\ Len(buf) <= arrived /\ pos \in 0 .. Len(buf) /\ buf \in Seq(Nat)
  BY <1>4, <1>5
<1>8. buf = SubSeq(stream, arrived - Len(buf) + 1, arrived)
  BY <1>5, <1>6
<1>9. /\ step = "idle" /\ frame = None /\ arrays = <<>> /\ items = <<>> /\ given = <<>> /\ broken = "no"
  BY DEF ReaderInit
<1>10. step \in Steps /\ step \notin {"payload", "eol"} /\ broken \in {"no", "error", "cut"}
  BY <1>9 DEF Steps
<1>11. frame \in FrameType
  BY <1>9, NoneIs
<1>12. arrays \in Seq(Nat \ {0}) /\ items \in Seq(FrameType) /\ given \in Seq(Seq(FrameType))
  BY <1>9
<1> QED
  BY <1>2, <1>3, <1>7, <1>8, <1>9, <1>10, <1>11, <1>12 DEF Typed

LEMMA TypedStep == Typed /\ [ReaderNext]_readerVars => Typed'
<1> SUFFICES ASSUME Typed, [ReaderNext]_readerVars PROVE Typed'
  OBVIOUS
<1>1. CASE UNCHANGED readerVars
  BY <1>1 DEF readerVars, Typed, All
<1>2. CASE ReaderNext
  BY <1>2, FetchTyped, RaisesTyped, ReadTyped, MarkerTyped, ReadLineTyped, LineErrorTyped,
     ReadPayloadTyped, ReadEolTyped, ReturnsTyped DEF ReaderNext
<1> QED
  BY <1>1, <1>2

-----------------------------------------------------------------------------
(* The decoder: each step keeps to the frames *)

LEMMA FrameHere ==
  ASSUME Typed, NEW k \in 0 .. Len(All), k < Len(All)
  PROVE  /\ k \in 0 .. Len(All) - 1 /\ k + 1 \in 0 .. Len(All) /\ All[k + 1] \in Frames
         /\ Off(All, k) \in Nat /\ Off(All, k + 1) \in Nat /\ Off(All, k + 1) <= Len(stream)
         /\ Header(All[k + 1]) \in Nat /\ Header(All[k + 1]) >= 3
         /\ Header(All[k + 1]) = Len(LineOf(All[k + 1])) + 3 /\ Len(LineOf(All[k + 1])) \in Nat
         /\ HasPayload(All[k + 1]) => /\ All[k + 1].n \in Nat
                                      /\ Off(All, k + 1) = Off(All, k) + Header(All[k + 1]) + All[k + 1].n + 2
         /\ ~HasPayload(All[k + 1]) => Off(All, k + 1) = Off(All, k) + Header(All[k + 1])
<1> DEFINE f == All[k + 1]
<1>1. All \in Seq(Frames) /\ Len(All) \in Nat /\ stream = Bytes(All)
  BY StreamIs DEF Typed
<1>2. k \in 0 .. Len(All) - 1 /\ k + 1 \in 0 .. Len(All) /\ k + 1 \in 1 .. Len(All)
  BY <1>1
<1>3. f \in Frames
  BY <1>1, <1>2
<1>4. /\ Off(All, k) \in Nat /\ Off(All, k + 1) \in Nat
      /\ Off(All, k + 1) = Off(All, k) + Len(FrameBytes(f)) /\ Off(All, k + 1) <= Len(stream)
  BY <1>1, <1>2, FramePlaces
<1> HIDE DEF f
<1>5. /\ Header(f) \in Nat /\ Header(f) >= 3 /\ (HasPayload(f) => f.n \in Nat)
      /\ Len(FrameBytes(f)) = IF HasPayload(f) THEN Header(f) + f.n + 2 ELSE Header(f)
  BY <1>3, FrameBytesAre
<1>6. Len(LineOf(f)) \in Nat /\ Header(f) = Len(LineOf(f)) + 3
  BY <1>3, LineFacts DEF Header
<1>7. ASSUME HasPayload(f)
      PROVE  Off(All, k + 1) = Off(All, k) + Header(f) + f.n + 2
  <2>1. /\ Off(All, k + 1) = Off(All, k) + (Header(f) + f.n + 2)
        /\ Off(All, k) \in Nat /\ Header(f) \in Nat /\ f.n \in Nat
    BY <1>4, <1>5, <1>7
  <2>2. \A x, y, z \in Nat : x + (y + z + 2) = x + y + z + 2
    OBVIOUS
  <2> QED
    BY <2>1, <2>2
<1>8. ~HasPayload(f) => Off(All, k + 1) = Off(All, k) + Header(f)
  BY <1>4, <1>5
<1>9. Off(All, k) \in Nat /\ Off(All, k + 1) \in Nat /\ Off(All, k + 1) <= Len(stream)
  BY <1>4
<1> QED
  BY <1>2, <1>3, <1>5, <1>6, <1>7, <1>8, <1>9 DEF f

\* What of a frame has arrived is in the buffer.
LEMMA FrameInBuffer ==
  ASSUME Typed, NEW k \in 0 .. Len(All), k < Len(All), NEW x \in Nat,
         Consumed = Off(All, k) + x, NEW y \in Nat, y >= 1, y <= Available,
         x + y <= Off(All, k + 1) - Off(All, k)
  PROVE  buf[pos + y] = FrameBytes(All[k + 1])[x + y]
<1>1. k \in 0 .. Len(All) - 1 /\ Off(All, k) \in Nat
  BY FrameHere
<1>2. All \in Seq(Frames) /\ stream = Bytes(All)
  BY StreamIs DEF Typed
<1>3. /\ Off(All, k + 1) = Off(All, k) + Len(FrameBytes(All[k + 1])) /\ Off(All, k + 1) \in Nat
      /\ \A z \in 1 .. Len(FrameBytes(All[k + 1])) :
           stream[Off(All, k) + z] = FrameBytes(All[k + 1])[z]
  BY <1>1, <1>2, FramePlaces
<1>4. Len(FrameBytes(All[k + 1])) \in Nat
  <2>1. All[k + 1] \in Frames
    BY FrameHere
  <2>2. FrameBytes(All[k + 1]) \in Seq(Nat)
    BY <2>1, FrameBytesAre
  <2> QED
    BY <2>2
<1>5. x + y \in 1 .. Len(FrameBytes(All[k + 1]))
  BY <1>1, <1>3, <1>4
<1>6. Available \in Nat /\ \A z \in 1 .. Available : buf[pos + z] = stream[Consumed + z]
  BY BufferIs
<1>7. y \in 1 .. Available /\ Consumed + y = Off(All, k) + (x + y)
  BY <1>1, <1>6
<1> QED
  BY <1>3, <1>5, <1>6, <1>7

\* A marker that is read is the next frame's.
LEMMA MarkerHere ==
  ASSUME Typed, NEW k, At(k, "marker", frame, Consumed), Available >= 1
  PROVE  /\ k \in 0 .. Len(All) /\ k < Len(All)
         /\ buf[pos + 1] = All[k + 1].marker /\ buf[pos + 1] \in Markers
<1>1. k \in 0 .. Len(All) /\ Consumed = Off(All, k)
  BY DEF At
<1>2. Len(All) \in Nat /\ Len(stream) = Off(All, Len(All)) /\ arrived <= Len(stream) /\ Len(stream) \in Nat
  BY StreamIs DEF Typed
<1>3. Consumed \in Nat /\ Available \in Nat /\ Consumed + Available = arrived
  BY BufferIs
<1>4. k < Len(All)
  <2>1. k = Len(All) => Consumed = Len(stream)
    BY <1>1, <1>2
  <2>2. k # Len(All)
    BY <1>2, <1>3, <2>1
  <2> QED
    BY <1>1, <1>2, <2>2
<1>5. 0 \in Nat /\ 1 \in Nat /\ Off(All, k) \in Nat /\ 0 + 1 <= Off(All, k + 1) - Off(All, k)
  <2>1. /\ Off(All, k) \in Nat /\ Off(All, k + 1) \in Nat
        /\ Header(All[k + 1]) \in Nat /\ Header(All[k + 1]) >= 3
        /\ HasPayload(All[k + 1]) => /\ All[k + 1].n \in Nat
                                     /\ Off(All, k + 1) = Off(All, k) + Header(All[k + 1]) + All[k + 1].n + 2
        /\ ~HasPayload(All[k + 1]) => Off(All, k + 1) = Off(All, k) + Header(All[k + 1])
    BY <1>1, <1>4, FrameHere
  <2> QED
    BY <2>1
<1>6. Consumed = Off(All, k) + 0
  BY <1>1, <1>5
<1>7. buf[pos + 1] = FrameBytes(All[k + 1])[0 + 1]
  <2> DEFINE x == 0
             y == 1
  <2>1. /\ x \in Nat /\ y \in Nat /\ y >= 1 /\ y <= Available /\ Consumed = Off(All, k) + x
        /\ x + y <= Off(All, k + 1) - Off(All, k)
    BY <1>5, <1>6
  <2> HIDE DEF x, y
  <2>2. buf[pos + y] = FrameBytes(All[k + 1])[x + y]
    BY <1>1, <1>4, <2>1, FrameInBuffer
  <2> QED
    BY <2>2 DEF x, y
<1>8. All[k + 1] \in Frames
  BY <1>1, <1>4, FrameHere
<1>9. FrameBytes(All[k + 1])[0 + 1] = All[k + 1].marker
  BY <1>8, FrameBytesAre
<1>10. All[k + 1].marker \in Markers
  BY <1>8, FrameFields
<1> QED
  BY <1>1, <1>4, <1>7, <1>9, <1>10

\* A line that is read is the frame's.
LEMMA LineHere ==
  ASSUME Typed, NEW k, At(k, "line", frame, Consumed), LineEnds # {}
  PROVE  /\ k \in 0 .. Len(All) /\ k < Len(All) /\ All[k + 1] \in Frames
         /\ NextLine = LineOf(All[k + 1]) /\ frame.marker = All[k + 1].marker
         /\ Consumed + (Len(NextLine) + 2) = Off(All, k) + Header(All[k + 1])
         /\ Consumed + Len(LineOf(All[k + 1])) + 2 <= arrived
<1> DEFINE f == All[k + 1]
           L == LineOf(f)
           h == Len(L)
           B == FrameBytes(f)
<1>1. k \in 0 .. Len(All) /\ k < Len(All) /\ frame.marker = f.marker /\ Consumed = Off(All, k) + 1
  BY DEF At
<1>2. /\ f \in Frames /\ Off(All, k) \in Nat /\ Off(All, k + 1) \in Nat
      /\ Header(f) = h + 3 /\ h \in Nat
      /\ HasPayload(f) => f.n \in Nat /\ Off(All, k + 1) = Off(All, k) + Header(f) + f.n + 2
      /\ ~HasPayload(f) => Off(All, k + 1) = Off(All, k) + Header(f)
  BY <1>1, FrameHere
<1>3. L \in Seq(Nat)
  BY <1>2, LineFacts
<1>4. /\ \A y \in 1 .. h : B[1 + y] = L[y] /\ ~(B[1 + y] = CR /\ B[2 + y] = LF)
      /\ B[h + 2] = CR /\ B[h + 3] = LF
  BY <1>2, FrameBytesAre
<1>5. /\ Len(buf) \in Nat /\ pos \in Nat /\ Available \in Nat /\ Available = Len(buf) - pos
      /\ Consumed + Available = arrived /\ Consumed \in Nat
  BY BufferIs DEF Available
<1>6. h + 3 <= Off(All, k + 1) - Off(All, k)
  BY <1>2
<1>7. ASSUME NEW y \in 1 .. h + 2, y <= Available
      PROVE  buf[pos + y] = B[1 + y]
  <2>1. y \in Nat /\ y >= 1 /\ 1 \in Nat /\ 1 + y <= Off(All, k + 1) - Off(All, k)
    BY <1>2, <1>6
  <2> QED
    BY <1>1, <1>7, <2>1, FrameInBuffer
<1>8. PICK e \in LineEnds : \A j \in LineEnds : e <= j
  BY FirstLineEnd
<1>9. /\ e \in pos + 1 .. Len(buf) - 1 /\ e \in Nat
      /\ NextLine \in Seq(Nat) /\ Len(NextLine) = e - 1 - pos
      /\ \A i \in 1 .. Len(NextLine) : NextLine[i] = buf[pos + i]
  BY <1>8, NextLineIs
<1>10. buf[e] = CR /\ buf[e + 1] = LF
  BY <1>8 DEF LineEnds
<1>20. h \in Nat /\ e \in Nat /\ pos + 1 <= e /\ e + 1 <= Len(buf) /\ Len(NextLine) = e - 1 - pos
  BY <1>2, <1>5, <1>9
<1>21. Len(buf) \in Nat /\ pos \in Nat /\ Available \in Nat /\ Available = Len(buf) - pos
  BY <1>5
<1> HIDE DEF B, L, h
<1>11. e - pos >= h + 1
  <2> SUFFICES ASSUME e - pos <= h PROVE FALSE
    BY <1>20, <1>21
  <2> DEFINE y == e - pos
  <2>1. y \in 1 .. h /\ y \in 1 .. h + 2 /\ y + 1 \in 1 .. h + 2 /\ y <= Available /\ y + 1 <= Available
    BY <1>20, <1>21
  <2>2. pos + y = e /\ pos + (y + 1) = e + 1 /\ 1 + (y + 1) = 2 + y
    BY <1>20, <1>21
  <2> HIDE DEF y
  <2>3. buf[pos + y] = B[1 + y] /\ buf[pos + (y + 1)] = B[1 + (y + 1)]
    BY <1>7, <2>1
  <2>4. B[1 + y] = CR /\ B[2 + y] = LF
    BY <1>10, <2>2, <2>3
  <2> QED
    BY <1>4, <2>1, <2>4
<1>12. h + 2 <= Available
  BY <1>11, <1>20, <1>21
<1>13. pos + h + 1 \in LineEnds
  <2>1. /\ h + 1 \in 1 .. h + 2 /\ h + 2 \in 1 .. h + 2 /\ h + 1 <= Available
        /\ 1 + (h + 1) = h + 2 /\ 1 + (h + 2) = h + 3
        /\ pos + (h + 1) = pos + h + 1 /\ pos + (h + 2) = (pos + h + 1) + 1
    BY <1>12, <1>20, <1>21
  <2>2. buf[pos + (h + 1)] = B[1 + (h + 1)] /\ buf[pos + (h + 2)] = B[1 + (h + 2)]
    BY <1>7, <1>12, <2>1
  <2>3. buf[pos + h + 1] = CR /\ buf[(pos + h + 1) + 1] = LF
    BY <1>4, <2>1, <2>2
  <2>4. pos + h + 1 \in pos + 1 .. Len(buf) - 1
    BY <1>12, <1>20, <1>21
  <2> QED
    BY <2>3, <2>4 DEF LineEnds
<1>14. e <= pos + h + 1
  BY <1>8, <1>13
<1>15. Len(NextLine) = h
  BY <1>11, <1>14, <1>20, <1>21
<1>16. \A i \in 1 .. h : NextLine[i] = L[i]
  <2> SUFFICES ASSUME NEW i \in 1 .. h PROVE NextLine[i] = L[i]
    OBVIOUS
  <2>1. i \in 1 .. Len(NextLine) /\ i \in 1 .. h + 2 /\ i <= Available
    BY <1>12, <1>15, <1>20, <1>21
  <2> QED
    BY <1>4, <1>7, <1>9, <2>1
<1>17. NextLine = L
  BY <1>3, <1>9, <1>15, <1>16, SeqEqual DEF h
<1>18. Consumed + (Len(NextLine) + 2) = Off(All, k) + Header(f)
  BY <1>1, <1>2, <1>15, <1>20
<1>19. Consumed + h + 2 <= arrived
  BY <1>2, <1>5, <1>12, <1>20
<1> QED
  BY <1>1, <1>2, <1>17, <1>18, <1>19 DEF L, h

\* A payload that is read is the frame's.
LEMMA PayloadHere ==
  ASSUME Typed, NEW k, At(k, "payload", frame, Consumed), frame.n \in Nat, frame.n <= Available,
         Len(SubSeq(buf, pos + 1, pos + frame.n)) = frame.n,
         SubSeq(buf, pos + 1, pos + frame.n) \in Seq(Nat),
         \A y \in 1 .. frame.n : SubSeq(buf, pos + 1, pos + frame.n)[y] = buf[pos + y]
  PROVE  /\ k \in 0 .. Len(All) /\ k < Len(All)
         /\ SubSeq(buf, pos + 1, pos + frame.n) = All[k + 1].bytes
         /\ Consumed + frame.n = Off(All, k + 1) - 2
<1> DEFINE f == All[k + 1]
           T == SubSeq(buf, pos + 1, pos + frame.n)
           x == Header(f)
           n == frame.n
<1>1. /\ k \in 0 .. Len(All) /\ k < Len(All) /\ HasPayload(f) /\ n = f.n
      /\ Consumed = Off(All, k) + x
  BY DEF At
<1>2. /\ f \in Frames /\ Off(All, k) \in Nat /\ Off(All, k + 1) \in Nat /\ x \in Nat
      /\ HasPayload(f) => f.n \in Nat /\ Off(All, k + 1) = Off(All, k) + x + f.n + 2
  BY <1>1, FrameHere
<1>3. /\ f.bytes \in Seq(Nat) /\ Len(f.bytes) = n
      /\ \A y \in 1 .. n : FrameBytes(f)[x + y] = f.bytes[y]
  BY <1>1, <1>2, FrameFields, FrameBytesAre
<1>4. T \in Seq(Nat) /\ Len(T) = n /\ (\A y \in 1 .. n : T[y] = buf[pos + y]) /\ n \in Nat /\ n <= Available
  OBVIOUS
<1> HIDE DEF T, x, n
<1>5. x \in Nat /\ n \in Nat /\ Off(All, k + 1) = Off(All, k) + x + n + 2 /\ Off(All, k) \in Nat
  BY <1>1, <1>2, <1>4
<1>6. Available \in Nat /\ Consumed = Off(All, k) + x
  BY <1>1, BufferIs
<1>7. ASSUME NEW y \in 1 .. n PROVE T[y] = f.bytes[y]
  <2>1. y \in Nat /\ y >= 1 /\ y <= Available /\ x + y <= Off(All, k + 1) - Off(All, k)
    BY <1>4, <1>5, <1>6
  <2>2. buf[pos + y] = FrameBytes(f)[x + y]
    BY <1>1, <1>5, <1>6, <2>1, FrameInBuffer
  <2> QED
    BY <1>3, <1>4, <2>2
<1>8. T = f.bytes
  BY <1>3, <1>4, <1>7, SeqEqual
<1>9. Consumed + n = Off(All, k + 1) - 2
  BY <1>5, <1>6
<1> QED
  BY <1>1, <1>8, <1>9 DEF T, n

LEMMA FetchKeeps ==
  ASSUME Typed, Fetch
  PROVE  Consumed' = Consumed
<1>1. stream \in Seq(Nat) /\ Len(stream) \in Nat /\ arrived \in Nat /\ Len(buf) \in Nat /\ pos \in Nat
  BY StreamIs, BufferIs
<1>2. PICK n \in 1 .. ChunkSize :
        arrived + n <= Len(stream) /\ arrived' = arrived + n /\ pos' = pos
        /\ buf' = buf \o SubSeq(stream, arrived + 1, arrived + n)
  BY DEF Fetch
<1>3. ChunkSize \in Nat
  BY ReaderAssumption
<1>4. n \in Nat /\ arrived + n \in Nat /\ arrived <= arrived + n /\ (arrived + n) - arrived = n
  BY <1>1, <1>2, <1>3
<1> DEFINE T == SubSeq(stream, arrived + 1, arrived + n)
<1>5. T \in Seq(Nat) /\ Len(T) = n
  <2> DEFINE e == arrived + n
  <2>1. arrived \in Nat /\ e \in Nat /\ arrived <= e /\ e <= Len(stream) /\ e - arrived = n
    BY <1>1, <1>2, <1>4
  <2>2. stream \in Seq(Nat)
    BY <1>1
  <2> HIDE DEF e
  <2>3. /\ SubSeq(stream, arrived + 1, e) \in Seq(Nat)
        /\ Len(SubSeq(stream, arrived + 1, e)) = e - arrived
        /\ \A i \in 1 .. e - arrived : SubSeq(stream, arrived + 1, e)[i] = stream[arrived + i]
    BY <2>1, <2>2, PieceIs
  <2> QED
    BY <2>1, <2>3 DEF e
<1>6. buf \in Seq(Nat) /\ buf' = buf \o T
  BY <1>2, TypedParts
<1> HIDE DEF T
<1>7. Len(buf') = Len(buf) + n
  BY <1>5, <1>6, ConcatProperties
<1>8. arrived' = arrived + n /\ pos' = pos
  BY <1>2
<1>9. Consumed' = arrived + n - (Len(buf) + n) + pos
  BY <1>1, <1>4, <1>7, <1>8 DEF Consumed
<1> QED
  BY <1>1, <1>4, <1>9 DEF Consumed

\* Where nothing is consumed and the step stays, so does the place.
LEMMA WaitHere ==
  ASSUME Typed, NEW k, Here(k), Fetch
  PROVE  At(k, step', frame', Consumed') /\ step' = step
<1>1. Consumed' = Consumed /\ step' = step /\ frame' = frame
  BY FetchKeeps DEF Fetch
<1> QED
  BY <1>1 DEF Here, At

LEMMA CursorKept ==
  ASSUME UNCHANGED <<input, buf, pos>>
  PROVE  Consumed' = Consumed
BY DEF input, Consumed

LEMMA ReadHere ==
  ASSUME Typed, NEW k, Here(k), Read
  PROVE  At(k, step', frame', Consumed')
<1>1. Consumed' = Consumed /\ step = "idle" /\ step' = "marker"
  BY CursorKept DEF Read
<1> QED
  BY <1>1 DEF Here, At

LEMMA ReturnsHere ==
  ASSUME Typed, NEW k, Here(k), ReturnElement \/ Return
  PROVE  At(k, step', frame', Consumed')
<1>1. Consumed' = Consumed /\ step = "return"
  BY CursorKept DEF ReturnElement, Return
<1>2. step' \in {"return", "marker", "idle"}
  BY <1>1 DEF ReturnElement, Return
<1> QED
  BY <1>1, <1>2 DEF Here, At

LEMMA MarkerStep ==
  ASSUME Typed, NEW k, Here(k), Marker
  PROVE  /\ k < Len(All) /\ At(k, step', frame', Consumed') /\ step' = "line"
         /\ arrays' = arrays /\ items' = items /\ given' = given
<1>1. /\ step = "marker" /\ ~(Available < 1) /\ pos' = pos + 1 /\ UNCHANGED <<input, buf>>
  BY DEF Marker, Short
<1>2. Available \in Nat /\ Len(buf) \in Nat /\ pos \in Nat /\ arrived \in Nat
  BY BufferIs
<1>3. At(k, "marker", frame, Consumed) /\ Available >= 1
  BY <1>1, <1>2 DEF Here
<1>4. /\ k \in 0 .. Len(All) /\ k < Len(All)
      /\ buf[pos + 1] = All[k + 1].marker /\ buf[pos + 1] \in Markers
  BY <1>3, MarkerHere
<1>5. /\ step' = "line" /\ frame' = Frame(buf[pos + 1], 0, <<>>)
      /\ arrays' = arrays /\ items' = items /\ given' = given
  BY <1>4 DEF Marker
<1>6. frame'.marker = All[k + 1].marker
  BY <1>4, <1>5 DEF Frame
<1>7. Consumed = Off(All, k)
  BY <1>3 DEF At
<1>8. Consumed' = Consumed + 1
  BY <1>1, <1>2 DEF Consumed, input
<1>9. At(k, "line", frame', Consumed')
  BY <1>4, <1>6, <1>7, <1>8 DEF At
<1> QED
  BY <1>4, <1>5, <1>9

LEMMA PayloadStep ==
  ASSUME Typed, NEW k, Here(k), ReadPayload
  PROVE  At(k, step', frame', Consumed') /\ step' = "eol"
<1>1. step = "payload" /\ step' = "eol"
  BY DEF ReadPayload
<1> DEFINE T == SubSeq(buf, pos + 1, pos + frame.n)
<1>2. /\ Consumed' = Consumed + frame.n /\ frame.n \in Nat /\ frame.n <= Available
      /\ frame' = Frame(frame.marker, frame.n, T)
      /\ T \in Seq(Nat) /\ Len(T) = frame.n
      /\ \A y \in 1 .. frame.n : T[y] = buf[pos + y]
  BY PayloadKeeps
<1>3. At(k, "payload", frame, Consumed)
  BY <1>1 DEF Here
<1>4. /\ k \in 0 .. Len(All) /\ k < Len(All) /\ T = All[k + 1].bytes
      /\ Consumed + frame.n = Off(All, k + 1) - 2
  BY <1>2, <1>3, PayloadHere
<1>5. HasPayload(All[k + 1]) /\ frame.marker = Dollar /\ frame.n = All[k + 1].n
  BY <1>3 DEF At
<1> HIDE DEF T
<1>6. frame'.marker = frame.marker /\ frame'.n = frame.n /\ frame'.bytes = T
  BY <1>2 DEF Frame
<1>7. At(k, "eol", frame', Consumed')
  BY <1>2, <1>4, <1>5, <1>6 DEF At
<1> QED
  BY <1>1, <1>7
\* What the reader makes of a frame's line.
LEMMA HeadedHere ==
  ASSUME NEW f \in Frames
  PROVE  /\ HasPayload(f) => Headed(f.marker, LineOf(f)) = Frame(Dollar, f.n, <<>>)
         /\ ~HasPayload(f) => Headed(f.marker, LineOf(f)) = f
         /\ HasPayload(f) => Value(f) = f /\ Elements(f) = 0
         /\ Elements(f) \in Nat /\ (Elements(f) > 0 => f.n = Elements(f) /\ f.n \in Nat \ {0})
<1>1. /\ HasPayload(f) => Headed(f.marker, LineOf(f)) = Frame(f.marker, f.n, <<>>)
      /\ ~HasPayload(f) /\ f.marker # Underscore => Headed(f.marker, LineOf(f)) = f
      /\ f.marker = Underscore => Headed(f.marker, LineOf(f)) = None /\ f = None
  BY LineFacts
<1>2. HasPayload(f) => f.marker = Dollar /\ f.n # -1
  BY DEF HasPayload
<1>3. HasPayload(f) => Value(f) = f /\ Elements(f) = 0
  BY <1>2 DEF Value, Elements, Dollar, Star
<1>4. f.n \in Nat \cup {-1}
  BY FrameFields
<1>5. Elements(f) \in Nat /\ (Elements(f) > 0 => f.n = Elements(f) /\ f.n \in Nat \ {0})
  BY <1>4 DEF Elements
<1> QED
  BY <1>1, <1>2, <1>3, <1>5

LEMMA LineRead ==
  ASSUME Typed, NEW k, Here(k), ReadLine
  PROVE  /\ k \in 0 .. Len(All) /\ k < Len(All) /\ All[k + 1] \in Frames
         /\ HasPayload(All[k + 1]) =>
              /\ At(k, step', frame', Consumed') /\ step' = "payload"
              /\ items' = items /\ arrays' = arrays
         /\ ~HasPayload(All[k + 1]) =>
              /\ At(k + 1, step', frame', Consumed')
              /\ step' = IF Elements(All[k + 1]) > 0 THEN "marker" ELSE "return"
              /\ items' = Append(items, Value(All[k + 1]))
              /\ arrays' = IF Elements(All[k + 1]) > 0 THEN Append(arrays, All[k + 1].n) ELSE arrays
<1> DEFINE f == All[k + 1]
           g == Headed(frame.marker, NextLine)
<1>1. /\ Consumed' = Consumed + (Len(NextLine) + 2) /\ step = "line" /\ LineEnds # {}
  BY LineKeeps DEF ReadLine
<1>2. At(k, "line", frame, Consumed)
  BY <1>1 DEF Here
<1>3. /\ k \in 0 .. Len(All) /\ k < Len(All) /\ f \in Frames
      /\ NextLine = LineOf(f) /\ frame.marker = f.marker
      /\ Consumed + (Len(NextLine) + 2) = Off(All, k) + Header(f)
  BY <1>1, <1>2, LineHere
<1>4. Consumed' = Off(All, k) + Header(f)
  BY <1>1, <1>3
<1>5. /\ step' = IF HasPayload(g) THEN "payload"
                 ELSE IF Elements(g) > 0 THEN "marker" ELSE "return"
      /\ frame' = IF HasPayload(g) THEN g ELSE None
      /\ items' = IF HasPayload(g) THEN items ELSE Append(items, Value(g))
      /\ arrays' = IF Elements(g) > 0 THEN Append(arrays, g.n) ELSE arrays
  BY DEF ReadLine
<1>6. g = Headed(f.marker, LineOf(f))
  BY <1>3
<1>7. /\ Off(All, k) \in Nat /\ Off(All, k + 1) \in Nat /\ k + 1 \in 0 .. Len(All)
      /\ ~HasPayload(f) => Off(All, k + 1) = Off(All, k) + Header(f)
  BY <1>3, FrameHere
<1> HIDE DEF f, g
<1>8. CASE HasPayload(f)
  <2>1. g = Frame(Dollar, f.n, <<>>)
    BY <1>3, <1>6, <1>8, HeadedHere
  <2>2. g.marker = Dollar /\ g.n = f.n /\ f.n # -1
    BY <1>8, <2>1 DEF Frame, HasPayload
  <2>3. HasPayload(g) /\ Elements(g) = 0
    BY <2>2 DEF HasPayload, Elements, Dollar, Star
  <2>4. step' = "payload" /\ frame' = g /\ items' = items /\ arrays' = arrays
    BY <1>5, <2>3
  <2>5. At(k, "payload", frame', Consumed')
    BY <1>3, <1>4, <1>8, <2>2, <2>4 DEF At, f
  <2> QED
    BY <1>3, <1>8, <2>4, <2>5 DEF f
<1>9. CASE ~HasPayload(f)
  <2>1. g = f /\ Elements(f) \in Nat
    BY <1>3, <1>6, <1>9, HeadedHere
  <2>2. /\ step' = IF Elements(f) > 0 THEN "marker" ELSE "return"
        /\ items' = Append(items, Value(f))
        /\ arrays' = IF Elements(f) > 0 THEN Append(arrays, f.n) ELSE arrays
    BY <1>5, <1>9, <2>1
  <2>3. Consumed' = Off(All, k + 1)
    BY <1>4, <1>7, <1>9
  <2>4. step' = "marker" \/ step' = "return"
    BY <2>2
  <2>5. At(k + 1, step', frame', Consumed')
    BY <1>7, <2>3, <2>4 DEF At
  <2> QED
    BY <1>3, <1>9, <2>2, <2>5 DEF f
<1> QED
  BY <1>8, <1>9

\* int never fails.
LEMMA NumberHere ==
  ASSUME Typed, NEW k, Here(k), BadNumber
  PROVE  FALSE
<1>1. step = "line" /\ LineEnds # {} /\ NumberDue /\ ~IsNumber(NextLine)
  BY LineKeeps DEF BadNumber
<1>2. At(k, "line", frame, Consumed)
  BY <1>1 DEF Here
<1>3. All[k + 1] \in Frames /\ NextLine = LineOf(All[k + 1]) /\ frame.marker = All[k + 1].marker
  BY <1>1, <1>2, LineHere
<1>4. IsNumber(NextLine)
  BY <1>1, <1>3, LineFacts DEF NumberDue
<1> QED
  BY <1>1, <1>4

LEMMA ErrorStep ==
  ASSUME Typed, NEW k, Here(k), RaiseError
  PROVE  /\ k \in 0 .. Len(All) /\ k < Len(All) /\ All[k + 1] = Error(NextLine)
         /\ At(k + 1, step', frame', Consumed') /\ Elements(All[k + 1]) = 0
         /\ Value(All[k + 1]) = All[k + 1]
<1> DEFINE f == All[k + 1]
<1>1. /\ Consumed' = Consumed + (Len(NextLine) + 2) /\ step = "line" /\ LineEnds # {}
      /\ frame.marker = Minus /\ step' = "idle"
  BY LineKeeps DEF RaiseError, Leave
<1>2. At(k, "line", frame, Consumed)
  BY <1>1 DEF Here
<1>3. /\ k \in 0 .. Len(All) /\ k < Len(All) /\ f \in Frames
      /\ NextLine = LineOf(f) /\ frame.marker = f.marker
      /\ Consumed + (Len(NextLine) + 2) = Off(All, k) + Header(f)
  BY <1>1, <1>2, LineHere
<1>4. f.marker = Minus
  BY <1>1, <1>3
<1>5. ~HasPayload(f) /\ Elements(f) = 0 /\ f.marker # Underscore
  BY <1>4 DEF HasPayload, Elements, Minus, Dollar, Star, Underscore
<1>6. f.n = 0 /\ f = [marker |-> f.marker, n |-> f.n, bytes |-> f.bytes]
  BY <1>3, <1>4, FrameFields
<1>7. f.n # -1
  BY <1>6
<1>8. Value(f) = f
  BY <1>7 DEF Value
<1>9. LineOf(f) = f.bytes
  BY <1>4 DEF LineOf, Underscore, Minus
<1>10. f = Error(NextLine)
  <2>1. f = [marker |-> Minus, n |-> 0, bytes |-> NextLine]
    BY <1>3, <1>4, <1>6, <1>9
  <2> QED
    BY <2>1 DEF Error, Frame
<1>11. /\ Off(All, k) \in Nat /\ Off(All, k + 1) \in Nat /\ k + 1 \in 0 .. Len(All)
       /\ ~HasPayload(f) => Off(All, k + 1) = Off(All, k) + Header(f)
  BY <1>3, FrameHere
<1>12. Consumed' = Off(All, k + 1)
  BY <1>1, <1>3, <1>5, <1>11
<1>13. At(k + 1, step', frame', Consumed')
  BY <1>1, <1>11, <1>12 DEF At
<1> QED
  BY <1>3, <1>5, <1>8, <1>10, <1>13

LEMMA EolStep ==
  ASSUME Typed, NEW k, Here(k), ReadEol
  PROVE  /\ k \in 0 .. Len(All) /\ k < Len(All) /\ step' = "return"
         /\ At(k + 1, step', frame', Consumed') /\ Elements(All[k + 1]) = 0
         /\ items' = Append(items, Value(All[k + 1])) /\ arrays' = arrays
<1> DEFINE f == All[k + 1]
<1>1. step = "eol" /\ step' = "return" /\ items' = Append(items, frame) /\ arrays' = arrays
  BY DEF ReadEol
<1>2. At(k, "eol", frame, Consumed)
  BY <1>1 DEF Here
<1>3. /\ k \in 0 .. Len(All) /\ k < Len(All) /\ HasPayload(f)
      /\ frame.marker = Dollar /\ frame.n = f.n /\ frame.bytes = f.bytes
      /\ Consumed = Off(All, k + 1) - 2
  BY <1>2 DEF At
<1>4. f \in Frames /\ Off(All, k + 1) \in Nat /\ k + 1 \in 0 .. Len(All)
  BY <1>3, FrameHere
<1>5. Value(f) = f /\ Elements(f) = 0
  BY <1>3, <1>4, HeadedHere
<1>6. frame = f
  <2>1. f = [marker |-> f.marker, n |-> f.n, bytes |-> f.bytes]
    BY <1>4, FrameFields
  <2>2. frame = [marker |-> frame.marker, n |-> frame.n, bytes |-> frame.bytes]
    BY TypedParts DEF FrameType
  <2>3. f.marker = Dollar
    BY <1>3 DEF HasPayload
  <2> QED
    BY <1>3, <2>1, <2>2, <2>3
<1>7. Consumed' = Consumed + 2
  BY EolKeeps
<1>8. Consumed' = Off(All, k + 1)
  BY <1>3, <1>4, <1>7
<1>9. At(k + 1, step', frame', Consumed')
  BY <1>1, <1>4, <1>8 DEF At
<1>10. items' = Append(items, Value(f))
  BY <1>1, <1>5, <1>6
<1> QED
  BY <1>1, <1>3, <1>5, <1>9, <1>10
-----------------------------------------------------------------------------
(* The decoder: the arrays that are being read *)

LEMMA LacksNone == Lacks(0, <<>>)
<1> DEFINE S == [i \in Nat |-> 0]
<1>1. S \in [Nat -> Int] /\ S[0] = 0 /\ Len(<<>>) = 0
  OBVIOUS
<1>2. \A i \in 1 .. Len(<<>>) : FALSE
  OBVIOUS
<1> HIDE DEF S
<1> QED
  BY <1>1, <1>2 DEF Lacks

LEMMA LacksEmpty ==
  ASSUME NEW d, Lacks(d, <<>>)
  PROVE  d = 0
<1>1. Len(<<>>) = 0
  OBVIOUS
<1> QED
  BY <1>1 DEF Lacks

LEMMA LacksFew ==
  ASSUME NEW left \in Seq(Nat \ {0}), NEW d, Lacks(d, left)
  PROVE  d \in Nat
<1>1. PICK S \in [Nat -> Int] :
        /\ S[0] = 0 /\ d = S[Len(left)]
        /\ \A i \in 1 .. Len(left) : S[i] = S[i - 1] + left[i] - 1
  BY DEF Lacks
<1>2. Len(left) \in Nat /\ \A i \in 1 .. Len(left) : left[i] \in Nat \ {0}
  OBVIOUS
<1> DEFINE P == {i \in 0 .. Len(left) : S[i] \in Nat}
<1>3. 0 \in P
  BY <1>1, <1>2
<1>4. ASSUME NEW i \in 0 .. Len(left) - 1, i \in P PROVE i + 1 \in P
  <2>1. i + 1 \in 1 .. Len(left) /\ i + 1 \in 0 .. Len(left) /\ (i + 1) - 1 = i /\ S[i] \in Nat
    BY <1>2, <1>4
  <2>2. S[i + 1] = S[i] + left[i + 1] - 1 /\ left[i + 1] \in Nat \ {0}
    BY <1>1, <1>2, <2>1
  <2>3. S[i + 1] \in Nat
    <3>1. \A x \in Nat, y \in Nat \ {0} : x + y - 1 \in Nat
      OBVIOUS
    <3> QED
      BY <2>1, <2>2, <3>1
  <2> QED
    BY <2>1, <2>3
<1>5. 0 .. Len(left) \subseteq P
  <2> HIDE DEF P
  <2> QED
    BY <1>2, <1>3, <1>4, UpTo
<1>6. Len(left) \in P
  BY <1>2, <1>5
<1> QED
  BY <1>1, <1>6

\* An array that begins is the element of the one around it.
LEMMA LacksOpen ==
  ASSUME NEW left \in Seq(Nat \ {0}), NEW d \in Int, Lacks(d, left), NEW n \in Nat \ {0}
  PROVE  Lacks(d + n - 1, Append(left, n))
<1>1. PICK S \in [Nat -> Int] :
        /\ S[0] = 0 /\ d = S[Len(left)]
        /\ \A i \in 1 .. Len(left) : S[i] = S[i - 1] + left[i] - 1
  BY DEF Lacks
<1> DEFINE m == Len(left) + 1
           T == [S EXCEPT ![m] = d + n - 1]
           right == Append(left, n)
<1>2. Len(left) \in Nat /\ m \in Nat /\ m # 0 /\ m - 1 = Len(left) /\ m # Len(left)
  OBVIOUS
<1>3. /\ T \in [Nat -> Int] /\ T[m] = d + n - 1
      /\ \A i \in Nat : i # m => T[i] = S[i]
  <2> DEFINE e == d + n - 1
  <2>1. e \in Int /\ T = [S EXCEPT ![m] = e]
    OBVIOUS
  <2> HIDE DEF e, T
  <2>2. T \in [Nat -> Int] /\ T[m] = e /\ \A i \in Nat : i # m => T[i] = S[i]
    BY <1>2, <2>1
  <2> QED
    BY <2>2 DEF e
<1>4. Len(right) = m /\ right[m] = n /\ \A i \in 1 .. Len(left) : right[i] = left[i]
  OBVIOUS
<1> HIDE DEF T, m, right
<1>5. T[0] = 0
  BY <1>1, <1>2, <1>3
<1>6. ASSUME NEW i \in 1 .. m PROVE T[i] = T[i - 1] + right[i] - 1
  <2>1. CASE i = m
    <3>1. T[i - 1] = d
      BY <1>1, <1>2, <1>3, <2>1
    <3> QED
      BY <1>3, <1>4, <2>1, <3>1
  <2>2. CASE i # m
    <3>1. i \in 1 .. Len(left) /\ i \in Nat /\ i - 1 \in Nat /\ i - 1 # m
      BY <1>2, <2>2
    <3>2. T[i] = S[i] /\ T[i - 1] = S[i - 1] /\ right[i] = left[i]
      BY <1>3, <1>4, <2>2, <3>1
    <3> QED
      BY <1>1, <3>1, <3>2
  <2> QED
    BY <2>1, <2>2
<1>7. Lacks(d + n - 1, right)
  BY <1>3, <1>4, <1>5, <1>6 DEF Lacks
<1> QED
  BY <1>7 DEF right

\* With its last element an array is complete, and is an element itself.
LEMMA LacksClose ==
  ASSUME NEW left \in Seq(Nat \ {0}), NEW right \in Seq(Nat \ {0}), NEW d, Lacks(d, left),
         Len(left) \in Nat \ {0}, left[Len(left)] = 1, Len(right) = Len(left) - 1,
         \A i \in 1 .. Len(left) - 1 : right[i] = left[i]
  PROVE  Lacks(d, right)
<1>1. PICK S \in [Nat -> Int] :
        /\ S[0] = 0 /\ d = S[Len(left)]
        /\ \A i \in 1 .. Len(left) : S[i] = S[i - 1] + left[i] - 1
  BY DEF Lacks
<1> DEFINE m == Len(left)
<1>2. m \in 1 .. m /\ m - 1 \in Nat /\ Len(right) = m - 1
  OBVIOUS
<1>3. S[m] = S[m - 1] + left[m] - 1 /\ left[m] = 1
  BY <1>1, <1>2
<1>4. S[m - 1] \in Int
  BY <1>2
<1>5. d = S[Len(right)]
  <2> DEFINE e == S[m - 1]
  <2>1. S[m] = e + 1 - 1 /\ e \in Int
    BY <1>3, <1>4
  <2> HIDE DEF e
  <2>2. S[m] = e
    BY <2>1
  <2> QED
    BY <1>1, <1>2, <2>2 DEF e
<1>6. ASSUME NEW i \in 1 .. Len(right) PROVE S[i] = S[i - 1] + right[i] - 1
  <2>1. m \in Nat /\ Len(right) = m - 1
    BY <1>2
  <2>2. i \in 1 .. m - 1 /\ i \in 1 .. m
    <3> HIDE DEF m
    <3> QED
      BY <2>1
  <2>3. right[i] = left[i]
    BY <2>2
  <2> QED
    BY <1>1, <2>2, <2>3
<1> QED
  BY <1>1, <1>5, <1>6 DEF Lacks

\* Before that it goes on to the next.
LEMMA LacksLess ==
  ASSUME NEW left \in Seq(Nat \ {0}), NEW right \in Seq(Nat \ {0}), NEW d \in Int, Lacks(d, left),
         Len(left) \in Nat \ {0}, Len(right) = Len(left),
         \A i \in 1 .. Len(left) - 1 : right[i] = left[i],
         right[Len(left)] = left[Len(left)] - 1
  PROVE  Lacks(d - 1, right)
<1>1. PICK S \in [Nat -> Int] :
        /\ S[0] = 0 /\ d = S[Len(left)]
        /\ \A i \in 1 .. Len(left) : S[i] = S[i - 1] + left[i] - 1
  BY DEF Lacks
<1> DEFINE m == Len(left)
           T == [S EXCEPT ![m] = d - 1]
<1>2. m \in 1 .. m /\ m \in Nat /\ m # 0 /\ m - 1 \in Nat /\ m - 1 # m /\ Len(right) = m
      /\ left[m] \in Nat
  <2>1. m \in Nat /\ m # 0 /\ Len(right) = m
    OBVIOUS
  <2>2. m \in 1 .. m /\ m - 1 \in Nat /\ m - 1 # m
    BY <2>1
  <2>3. left[m] \in Nat
    BY <2>1
  <2> QED
    BY <2>1, <2>2, <2>3
<1>3. /\ T \in [Nat -> Int] /\ T[m] = d - 1
      /\ \A i \in Nat : i # m => T[i] = S[i]
  BY <1>2
<1> HIDE DEF T
<1>4. T[0] = 0
  BY <1>1, <1>2, <1>3
<1>5. ASSUME NEW i \in 1 .. m PROVE T[i] = T[i - 1] + right[i] - 1
  <2>1. CASE i = m
    <3>1. d = S[m - 1] + left[m] - 1 /\ S[m - 1] \in Int
      BY <1>1, <1>2
    <3>2. T[i] = d - 1 /\ T[i - 1] = S[m - 1] /\ right[i] = left[m] - 1
      BY <1>2, <1>3, <2>1
    <3>3. d - 1 = S[m - 1] + (left[m] - 1) - 1
      <4> DEFINE e == S[m - 1]
                 l == left[m]
      <4>1. d = e + l - 1 /\ e \in Int /\ l \in Nat
        BY <1>2, <3>1
      <4> HIDE DEF e, l
      <4>2. d - 1 = e + (l - 1) - 1
        BY <4>1
      <4> QED
        BY <4>2 DEF e, l
    <3> QED
      BY <3>2, <3>3
  <2>2. CASE i # m
    <3>1. m \in Nat
      BY <1>2
    <3>2. i \in 1 .. m - 1 /\ i \in Nat /\ i - 1 \in Nat /\ i - 1 # m
      <4> HIDE DEF m
      <4> QED
        BY <2>2, <3>1
    <3>3. T[i] = S[i] /\ T[i - 1] = S[i - 1]
      BY <1>3, <2>2, <3>2
    <3>4. right[i] = left[i]
      BY <3>2
    <3> QED
      BY <1>1, <3>3, <3>4
  <2> QED
    BY <2>1, <2>2
<1> QED
  BY <1>2, <1>3, <1>4, <1>5 DEF Lacks
-----------------------------------------------------------------------------
(* The decoder: the values of a reply *)

Inside == {"marker", "line", "payload", "eol"}

LEMMA ReplyIs ==
  ASSUME NEW r, IsReply(r)
  PROVE  /\ r \in Seq(Frames) /\ Len(r) \in Nat /\ Opens(r)[0] = 1 /\ Opens(r)[Len(r)] = 0
         /\ \A j \in 0 .. Len(r) : Opens(r)[j] \in Int
         /\ \A j \in 0 .. Len(r) - 1 : Opens(r)[j] > 0
BY OpensAre DEF IsReply

\* While a frame is being read the reply is not over.
LEMMA ReadingAhead ==
  ASSUME NEW r, IsReply(r), NEW its \in Seq(FrameType), NEW left \in Seq(Nat \ {0}),
         NEW s \in Inside, Reading(r, its, left, s)
  PROVE  /\ Len(its) \in Nat /\ Len(its) < Len(r) /\ Opens(r)[Len(its)] \in Int
         /\ Lacks(Opens(r)[Len(its)] - 1, left) /\ (left = <<>> => its = <<>>)
<1> DEFINE j == Len(its)
           d == Opens(r)[j]
<1>1. j \in Nat /\ j <= Len(r)
  BY DEF Reading
<1>2. Lacks(d - 1, left) /\ (left = <<>> => its = <<>>)
  BY DEF Reading, Inside
<1>3. Len(r) \in Nat /\ Opens(r)[Len(r)] = 0 /\ \A i \in 0 .. Len(r) : Opens(r)[i] \in Int
  BY ReplyIs
<1>4. j \in 0 .. Len(r)
  BY <1>1, <1>3
<1>5. d \in Int
  BY <1>3, <1>4
<1> HIDE DEF d, j
<1>6. d - 1 \in Nat
  <2> DEFINE e == d - 1
  <2> HIDE DEF e
  <2>1. Lacks(e, left)
    BY <1>2 DEF e
  <2>2. e \in Nat
    BY <2>1, LacksFew
  <2> QED
    BY <2>2 DEF e
<1>7. d # 0
  BY <1>5, <1>6
<1>8. j # Len(r)
  BY <1>3, <1>7 DEF d
<1>9. j < Len(r)
  BY <1>1, <1>3, <1>8
<1> QED
  BY <1>1, <1>2, <1>5, <1>9 DEF d, j

\* A value of one frame is complete, an array goes on with its elements.
LEMMA ReadingNext ==
  ASSUME NEW r, IsReply(r), NEW its \in Seq(FrameType), NEW left \in Seq(Nat \ {0}),
         NEW s \in Inside, Reading(r, its, left, s)
  PROVE  Reading(r, Append(its, Value(r[Len(its) + 1])),
                 IF Elements(r[Len(its) + 1]) > 0 THEN Append(left, r[Len(its) + 1].n) ELSE left,
                 IF Elements(r[Len(its) + 1]) > 0 THEN "marker" ELSE "return")
<1> DEFINE j == Len(its)
           f == r[j + 1]
           v == Value(f)
           its2 == Append(its, v)
           d == Opens(r)[j]
           e == Elements(f)
<1>1. /\ j \in Nat /\ j < Len(r) /\ d \in Int /\ Lacks(d - 1, left)
  BY ReadingAhead
<1>2. r \in Seq(Frames) /\ Len(r) \in Nat
  BY ReplyIs
<1>3. j + 1 \in 1 .. Len(r) /\ (j + 1) - 1 = j
  BY <1>1, <1>2
<1>4. f \in Frames
  BY <1>2, <1>3
<1>5. Opens(r)[j + 1] = d - 1 + e /\ e \in Nat
  <2>1. /\ \A k \in 1 .. Len(r) : Opens(r)[k] = Opens(r)[k - 1] - 1 + Elements(r[k])
        /\ \A k \in 1 .. Len(r) : Elements(r[k]) \in Nat
    BY <1>2, OpensAre
  <2> QED
    BY <1>3, <2>1
<1>6. e > 0 => f.n = e /\ f.n \in Nat \ {0}
  BY <1>4, HeadedHere
<1>7. v \in FrameType
  <2>1. f \in FrameType
    BY <1>4, FrameFields DEF FrameType
  <2> QED
    BY <2>1, ValueIs
<1>8. \A m \in 1 .. j : its[m] = Value(r[m])
  BY DEF Reading
<1> HIDE DEF f, v, d, e
<1>9. Len(its2) = j + 1 /\ its2[j + 1] = v /\ \A m \in 1 .. j : its2[m] = its[m]
  BY <1>7, AppendProperties
<1> HIDE DEF its2
<1> DEFINE i == j + 1
<1>10. v = Value(r[i])
  BY DEF v, f
<1>11. Len(its2) <= Len(r)
  BY <1>1, <1>2, <1>9
<1>12. ASSUME NEW m \in 1 .. Len(its2) PROVE its2[m] = Value(r[m])
  <2>1. CASE m = i
    BY <1>9, <1>10, <2>1
  <2>2. CASE m # i
    <3>1. m \in 1 .. j
      <4> HIDE DEF j
      <4> QED
        BY <1>1, <1>9, <2>2
    <3> QED
      BY <1>8, <1>9, <3>1
  <2> QED
    BY <2>1, <2>2
<1>13. Opens(r)[Len(its2)] = d - 1 + e
  BY <1>5, <1>9
<1>14. its2 # <<>>
  <2>1. Len(<<>>) = 0
    OBVIOUS
  <2>2. Len(its2) # 0
    BY <1>1, <1>9
  <2> QED
    BY <2>1, <2>2
<1> DEFINE g == d - 1
<1>15. g \in Int /\ Lacks(g, left)
  BY <1>1
<1> DEFINE o == Opens(r)[Len(its2)]
<1>16. o = g + e /\ g \in Int /\ e \in Nat
  BY <1>5, <1>13, <1>15
<1> HIDE DEF g, o, i
<1>17. CASE e > 0
  <2> DEFINE left2 == Append(left, f.n)
  <2>1. f.n = e /\ f.n \in Nat \ {0}
    BY <1>6, <1>17
  <2>2. Lacks(g + f.n - 1, left2)
    BY <1>15, <2>1, LacksOpen
  <2>3. g + f.n - 1 = o - 1
    BY <1>16, <2>1
  <2>4. left2 # <<>>
    OBVIOUS
  <2> HIDE DEF left2
  <2>5. Lacks(o - 1, left2)
    BY <2>2, <2>3
  <2>6. Reading(r, its2, left2, "marker")
    BY <1>11, <1>12, <2>4, <2>5 DEF Reading, o
  <2> QED
    BY <1>17, <2>6 DEF its2, v, e, f, left2
<1>18. CASE ~(e > 0)
  <2>1. o = g
    BY <1>16, <1>18
  <2>2. Lacks(o, left)
    BY <1>15, <2>1
  <2>3. Reading(r, its2, left, "return")
    BY <1>11, <1>12, <2>2 DEF Reading, o
  <2> QED
    BY <1>18, <2>3 DEF its2, v, e, f
<1> QED
  BY <1>17, <1>18

\* Within a frame nothing is counted.
LEMMA ReadingOn ==
  ASSUME NEW r, NEW its, NEW left, NEW s \in Inside, Reading(r, its, left, s), NEW t \in Inside
  PROVE  Reading(r, its, left, t)
<1>1. /\ Len(its) <= Len(r) /\ \A m \in 1 .. Len(its) : its[m] = Value(r[m])
      /\ Lacks(Opens(r)[Len(its)] - 1, left) /\ (left = <<>> => its = <<>>)
  BY DEF Reading, Inside
<1>2. t # "return"
  BY DEF Inside
<1> QED
  BY <1>1, <1>2 DEF Reading

\* Nothing is read yet.
LEMMA ReadingStart ==
  ASSUME NEW r, IsReply(r)
  PROVE  Reading(r, <<>>, <<>>, "idle") /\ Reading(r, <<>>, <<>>, "marker")
<1>1. Len(r) \in Nat /\ Opens(r)[0] = 1 /\ Len(<<>>) = 0
  BY ReplyIs
<1>2. Len(<<>>) <= Len(r) /\ \A m \in 1 .. Len(<<>>) : FALSE
  BY <1>1
<1>3. Opens(r)[Len(<<>>)] - 1 = 0
  BY <1>1
<1>4. Lacks(Opens(r)[Len(<<>>)] - 1, <<>>)
  BY <1>3, LacksNone
<1> QED
  BY <1>2, <1>4 DEF Reading

\* A value that no array is around is the reply's.
LEMMA ReadingDone ==
  ASSUME NEW r, IsReply(r), NEW its \in Seq(FrameType), Reading(r, its, <<>>, "return")
  PROVE  Len(its) = Len(r) /\ its = Values(r)
<1>1. Len(its) \in Nat /\ Len(its) <= Len(r) /\ \A m \in 1 .. Len(its) : its[m] = Value(r[m])
  BY DEF Reading
<1>2. Opens(r)[Len(its)] = 0
  BY LacksEmpty DEF Reading
<1>3. Len(r) \in Nat /\ r \in Seq(Frames) /\ \A j \in 0 .. Len(r) - 1 : Opens(r)[j] > 0
  BY ReplyIs
<1>4. Len(its) = Len(r)
  <2>1. Len(its) < Len(r) => Len(its) \in 0 .. Len(r) - 1
    BY <1>1, <1>3
  <2>2. ~(Len(its) < Len(r))
    BY <1>2, <1>3, <2>1
  <2> QED
    BY <1>1, <1>3, <2>2
<1>5. DOMAIN its = 1 .. Len(r) /\ DOMAIN r = 1 .. Len(r) /\ its = [m \in DOMAIN its |-> its[m]]
  BY <1>3, <1>4
<1>6. \A m \in DOMAIN r : its[m] = Value(r[m])
  BY <1>1, <1>4, <1>5
<1>7. its = [m \in DOMAIN r |-> Value(r[m])]
  BY <1>5, <1>6
<1> QED
  BY <1>4, <1>7 DEF Values

\* The innermost array is complete or goes on with its next element.
LEMMA ReadingElement ==
  ASSUME NEW r, IsReply(r), NEW its \in Seq(FrameType), NEW left \in Seq(Nat \ {0}),
         NEW right \in Seq(Nat \ {0}), NEW s, Reading(r, its, left, "return"),
         Len(left) \in Nat \ {0}, \A i \in 1 .. Len(left) - 1 : right[i] = left[i],
         \/ left[Len(left)] = 1 /\ s = "return" /\ Len(right) = Len(left) - 1
         \/ /\ left[Len(left)] > 1 /\ s = "marker" /\ Len(right) = Len(left)
            /\ right[Len(left)] = left[Len(left)] - 1
  PROVE  Reading(r, its, right, s)
<1> DEFINE d == Opens(r)[Len(its)]
<1>1. Len(its) \in Nat /\ Len(its) <= Len(r) /\ \A m \in 1 .. Len(its) : its[m] = Value(r[m])
  BY DEF Reading
<1>2. Lacks(d, left)
  BY DEF Reading
<1>3. Len(r) \in Nat /\ \A j \in 0 .. Len(r) : Opens(r)[j] \in Int
  BY ReplyIs
<1>4. Len(its) \in 0 .. Len(r)
  BY <1>1, <1>3
<1>5. d \in Int
  BY <1>3, <1>4
<1> HIDE DEF d
<1>6. CASE left[Len(left)] = 1 /\ s = "return" /\ Len(right) = Len(left) - 1
  <2>1. Lacks(d, right)
    BY <1>2, <1>6, LacksClose
  <2> QED
    BY <1>1, <1>6, <2>1 DEF Reading, d
<1>7. CASE /\ left[Len(left)] > 1 /\ s = "marker" /\ Len(right) = Len(left)
           /\ right[Len(left)] = left[Len(left)] - 1
  <2>1. Lacks(d - 1, right)
    BY <1>2, <1>5, <1>7, LacksLess
  <2>2. right # <<>>
    <3>1. Len(<<>>) = 0 /\ Len(right) # 0
      BY <1>7
    <3> QED
      BY <3>1
  <2>3. s = "marker"
    BY <1>7
  <2> QED
    BY <1>1, <2>1, <2>2, <2>3 DEF Reading, d
<1> QED
  BY <1>6, <1>7
-----------------------------------------------------------------------------
(* The decoder: each step keeps to the replies *)

LEMMA InPlace ==
  ASSUME Typed, InStep, broken = "no"
  PROVE  /\ Len(given) \in Nat /\ Len(sent) \in Nat /\ Len(given) <= Len(sent)
         /\ sent \in Seq(Replies) /\ Len(items) \in Nat
         /\ \A i \in 1 .. Len(given) : given[i] = Values(sent[i])
         /\ Here(Base(sent, Len(given)) + Len(items))
         /\ step = "idle" => items = <<>> /\ arrays = <<>>
         /\ Len(given) < Len(sent) => /\ IsReply(sent[Len(given) + 1])
                                      /\ Reading(sent[Len(given) + 1], items, arrays, step)
         /\ ~(Len(given) < Len(sent)) => /\ Len(given) = Len(sent)
                                         /\ items = <<>> /\ arrays = <<>>
                                         /\ step = "idle" \/ step = "marker"
<1> DEFINE n == Len(given)
<1>1. /\ n \in 0 .. Len(sent) /\ \A i \in 1 .. n : given[i] = Values(sent[i])
      /\ step = "idle" => items = <<>> /\ arrays = <<>>
      /\ IF n < Len(sent) THEN Reading(sent[n + 1], items, arrays, step)
         ELSE items = <<>> /\ arrays = <<>> /\ (step = "idle" \/ step = "marker")
  BY DEF InStep, InOrder
<1>2. Here(Base(sent, n) + Len(items))
  BY DEF InStep
<1>3. sent \in Seq(Replies) /\ items \in Seq(FrameType)
  BY DEF Typed
<1>4. Len(sent) \in Nat /\ Len(items) \in Nat
  BY <1>3
<1>5. n \in Nat /\ n <= Len(sent) /\ (~(n < Len(sent)) => n = Len(sent))
  BY <1>1, <1>4
<1>6. n < Len(sent) => IsReply(sent[n + 1])
  <2>1. n < Len(sent) => n + 1 \in 1 .. Len(sent)
    BY <1>4, <1>5
  <2> QED
    BY <1>3, <2>1, RepliesAre
<1> QED
  BY <1>1, <1>2, <1>3, <1>4, <1>5, <1>6

\* The frame that is being read is the next of its reply.
LEMMA InReply ==
  ASSUME Typed, InStep, broken = "no", step \in Inside,
         Base(sent, Len(given)) + Len(items) < Len(All)
  PROVE  /\ Len(given) < Len(sent) /\ Len(items) < Len(sent[Len(given) + 1])
         /\ All[Base(sent, Len(given)) + Len(items) + 1] = sent[Len(given) + 1][Len(items) + 1]
         /\ Base(sent, Len(given)) \in Nat
<1> DEFINE n == Len(given)
           j == Len(items)
           b == Base(sent, n)
<1>1. /\ n \in Nat /\ Len(sent) \in Nat /\ n <= Len(sent) /\ j \in Nat
      /\ sent \in Seq(Replies)
      /\ n < Len(sent) => IsReply(sent[n + 1]) /\ Reading(sent[n + 1], items, arrays, step)
      /\ ~(n < Len(sent)) => n = Len(sent) /\ items = <<>>
  BY InPlace
<1>2. n < Len(sent)
  <2> SUFFICES ASSUME ~(n < Len(sent)) PROVE FALSE
    OBVIOUS
  <2>1. n = Len(sent) /\ j = 0
    BY <1>1
  <2>2. b = Len(All) /\ Len(All) \in Nat
    BY <1>1, <2>1, RepliesAre, StreamIs DEF All
  <2>3. b + j < Len(All)
    OBVIOUS
  <2> HIDE DEF b, j, n
  <2> QED
    BY <2>1, <2>2, <2>3
<1>3. IsReply(sent[n + 1]) /\ Reading(sent[n + 1], items, arrays, step)
  BY <1>1, <1>2
<1>4. j < Len(sent[n + 1])
  <2>1. items \in Seq(FrameType) /\ arrays \in Seq(Nat \ {0})
    BY TypedParts
  <2> QED
    BY <1>3, <2>1, ReadingAhead
<1>5. n \in 0 .. Len(sent) - 1
  BY <1>1, <1>2
<1>6. b \in Nat /\ \A i \in 1 .. Len(sent[n + 1]) : All[b + i] = sent[n + 1][i]
  BY <1>1, <1>5, ReplyPlaces DEF All
<1>7. j + 1 \in 1 .. Len(sent[n + 1]) /\ b + (j + 1) = b + j + 1
  <2>1. Len(sent[n + 1]) \in Nat
    BY <1>3, ReplyIs
  <2> HIDE DEF b, j
  <2> QED
    BY <1>1, <1>4, <1>6, <2>1
<1> QED
  BY <1>2, <1>4, <1>6, <1>7

\* The next place and the next values.
LEMMA InStepBy ==
  ASSUME Typed, UNCHANGED input, NEW n, n = Len(given'), n \in 0 .. Len(sent),
         \A i \in 1 .. n : given'[i] = Values(sent[i]),
         step' = "idle" => items' = <<>> /\ arrays' = <<>>,
         n < Len(sent) => Reading(sent[n + 1], items', arrays', step'),
         ~(n < Len(sent)) => /\ items' = <<>> /\ arrays' = <<>>
                             /\ step' = "idle" \/ step' = "marker",
         At(Base(sent, n) + Len(items'), step', frame', Consumed')
  PROVE  InStep'
<1>1. sent' = sent
  BY DEF input
<1>2. All' = All
  BY <1>1 DEF All
<1>3. InOrder(Len(given), given, items, arrays, step)'
  BY <1>1 DEF InOrder
<1>4. Here(Base(sent, Len(given)) + Len(items))'
  BY <1>1, <1>2 DEF Here, At
<1> QED
  BY <1>3, <1>4 DEF InStep
LEMMA ReadInStep ==
  ASSUME Typed, InStep, broken = "no", Read
  PROVE  InStep'
<1> DEFINE n == Len(given)
<1>1. /\ UNCHANGED input /\ items' = items /\ arrays' = arrays /\ given' = given
      /\ step = "idle" /\ step' = "marker"
  BY DEF Read, history
<1>2. /\ n \in Nat /\ Len(sent) \in Nat /\ n <= Len(sent)
      /\ \A i \in 1 .. n : given[i] = Values(sent[i])
      /\ Here(Base(sent, n) + Len(items))
      /\ step = "idle" => items = <<>> /\ arrays = <<>>
      /\ n < Len(sent) => IsReply(sent[n + 1])
  BY InPlace
<1>3. items' = <<>> /\ arrays' = <<>>
  BY <1>1, <1>2
<1>4. n < Len(sent) => Reading(sent[n + 1], items', arrays', step')
  BY <1>1, <1>2, <1>3, ReadingStart
<1>5. At(Base(sent, n) + Len(items'), step', frame', Consumed')
  <2>1. At(Base(sent, n) + Len(items), step', frame', Consumed')
    BY <1>2, ReadHere
  <2> QED
    BY <1>1, <2>1
<1>6. n \in 0 .. Len(sent) /\ n = Len(given')
  BY <1>1, <1>2
<1> HIDE DEF n
<1> QED
  BY <1>1, <1>2, <1>3, <1>4, <1>5, <1>6, InStepBy

LEMMA FetchInStep ==
  ASSUME Typed, InStep, broken = "no", Fetch
  PROVE  InStep'
<1>1. /\ sent' = sent /\ given' = given /\ items' = items /\ arrays' = arrays /\ step' = step
      /\ frame' = frame /\ Consumed' = Consumed
  BY FetchKeeps DEF Fetch, server, history
<1>2. All' = All
  BY <1>1 DEF All
<1>3. InOrder(Len(given), given, items, arrays, step) /\ Here(Base(sent, Len(given)) + Len(items))
  BY DEF InStep
<1>4. InOrder(Len(given), given, items, arrays, step)'
  BY <1>1, <1>3 DEF InOrder
<1>5. Here(Base(sent, Len(given)) + Len(items))'
  BY <1>1, <1>2, <1>3 DEF Here, At
<1> QED
  BY <1>4, <1>5 DEF InStep

\* A call that is broken off before its reply has not happened.
LEMMA RaisesInStep ==
  ASSUME Typed, InStep, broken = "no", Raises, broken' = "no"
  PROVE  InStep'
<1> DEFINE n == Len(given)
<1>1. /\ UNCHANGED input /\ UNCHANGED <<buf, pos>> /\ given' = given /\ ~InsideReply
      /\ step' = "idle" /\ items' = <<>> /\ arrays' = <<>>
  BY DEF Raises, Leave
<1>2. /\ n \in Nat /\ Len(sent) \in Nat /\ n <= Len(sent) /\ sent \in Seq(Replies)
      /\ \A i \in 1 .. n : given[i] = Values(sent[i])
      /\ n < Len(sent) => IsReply(sent[n + 1])
  BY InPlace
<1>3. Consumed' = Consumed
  BY <1>1, CursorKept
<1>4. n \in 0 .. Len(sent) /\ n = Len(given')
  BY <1>1, <1>2
<1>5. Consumed = Off(All, Base(sent, n)) /\ Base(sent, n) \in 0 .. Len(All)
  <2>1. Consumed = StartOf(n + 1) /\ (n + 1) - 1 = n
    BY <1>1, <1>2 DEF InsideReply
  <2>2. StartOf(n + 1) = Len(Bytes(FlattenSeq(SubSeq(sent, 1, n))))
    BY <2>1 DEF StartOf
  <2> HIDE DEF n
  <2> QED
    BY <1>2, <1>4, <2>1, <2>2, StartIs DEF All
<1>6. At(Base(sent, n) + Len(items'), step', frame', Consumed')
  <2> DEFINE b == Base(sent, n)
  <2>1. b + Len(<<>>) = b
    BY <1>5
  <2> HIDE DEF b
  <2>2. At(b, "idle", frame', Consumed')
    BY <1>3, <1>5 DEF At, b
  <2> QED
    BY <1>1, <2>1, <2>2 DEF b
<1>7. n < Len(sent) => Reading(sent[n + 1], items', arrays', step')
  BY <1>1, <1>2, ReadingStart
<1> HIDE DEF n
<1> QED
  BY <1>1, <1>2, <1>4, <1>6, <1>7, InStepBy

LEMMA MarkerInStep ==
  ASSUME Typed, InStep, broken = "no", Marker
  PROVE  InStep'
<1> DEFINE n == Len(given)
           b == Base(sent, n)
<1>1. UNCHANGED input /\ step = "marker"
  BY DEF Marker
<1>2. /\ n \in Nat /\ Len(sent) \in Nat /\ n <= Len(sent)
      /\ \A i \in 1 .. n : given[i] = Values(sent[i])
      /\ Here(b + Len(items))
      /\ n < Len(sent) => Reading(sent[n + 1], items, arrays, step)
  BY InPlace
<1>3. /\ b + Len(items) < Len(All) /\ At(b + Len(items), step', frame', Consumed') /\ step' = "line"
      /\ arrays' = arrays /\ items' = items /\ given' = given
  BY <1>2, MarkerStep
<1>4. step \in Inside /\ step' \in Inside /\ step' # "idle"
  BY <1>1, <1>3 DEF Inside
<1>5. n < Len(sent)
  BY <1>3, <1>4, InReply
<1>6. Reading(sent[n + 1], items', arrays', step')
  BY <1>2, <1>3, <1>4, <1>5, ReadingOn
<1>7. n \in 0 .. Len(sent) /\ n = Len(given')
  BY <1>2, <1>3
<1>8. At(b + Len(items'), step', frame', Consumed')
  BY <1>3
<1> HIDE DEF n
<1> QED
  BY <1>1, <1>2, <1>3, <1>4, <1>5, <1>6, <1>7, <1>8, InStepBy

LEMMA PayloadInStep ==
  ASSUME Typed, InStep, broken = "no", ReadPayload
  PROVE  InStep'
<1> DEFINE n == Len(given)
           b == Base(sent, n)
<1>1. /\ UNCHANGED input /\ step = "payload"
      /\ arrays' = arrays /\ items' = items /\ given' = given
  BY DEF ReadPayload, history
<1>2. /\ n \in Nat /\ Len(sent) \in Nat /\ n <= Len(sent)
      /\ \A i \in 1 .. n : given[i] = Values(sent[i])
      /\ Here(b + Len(items))
      /\ n < Len(sent) => Reading(sent[n + 1], items, arrays, step)
      /\ ~(n < Len(sent)) => step = "idle" \/ step = "marker"
  BY InPlace
<1>3. At(b + Len(items), step', frame', Consumed') /\ step' = "eol"
  BY <1>2, PayloadStep
<1>4. step \in Inside /\ step' \in Inside /\ step' # "idle"
  BY <1>1, <1>3 DEF Inside
<1>5. n < Len(sent)
  BY <1>1, <1>2
<1>6. Reading(sent[n + 1], items', arrays', step')
  BY <1>1, <1>2, <1>4, <1>5, ReadingOn
<1>7. n \in 0 .. Len(sent) /\ n = Len(given')
  BY <1>1, <1>2
<1>8. At(b + Len(items'), step', frame', Consumed')
  BY <1>1, <1>3
<1> HIDE DEF n
<1> QED
  BY <1>1, <1>2, <1>4, <1>5, <1>6, <1>7, <1>8, InStepBy
\* A frame is read to its end.
LEMMA ValueInStep ==
  ASSUME Typed, InStep, broken = "no", UNCHANGED input, given' = given, step \in Inside,
         NEW k, k = Base(sent, Len(given)) + Len(items), k < Len(All),
         items' = Append(items, Value(All[k + 1])),
         arrays' = IF Elements(All[k + 1]) > 0 THEN Append(arrays, All[k + 1].n) ELSE arrays,
         step' = IF Elements(All[k + 1]) > 0 THEN "marker" ELSE "return",
         At(k + 1, step', frame', Consumed')
  PROVE  InStep'
<1> DEFINE n == Len(given)
           r == sent[n + 1]
           j == Len(items)
           b == Base(sent, n)
<1>1. /\ n \in Nat /\ Len(sent) \in Nat /\ n <= Len(sent) /\ j \in Nat
      /\ \A i \in 1 .. n : given[i] = Values(sent[i])
      /\ n < Len(sent) => IsReply(r) /\ Reading(r, items, arrays, step)
  BY InPlace
<1>2. n < Len(sent) /\ All[k + 1] = r[j + 1] /\ b \in Nat
  BY InReply
<1>3. items \in Seq(FrameType) /\ arrays \in Seq(Nat \ {0})
  BY TypedParts
<1>4. Reading(r, Append(items, Value(r[j + 1])),
              IF Elements(r[j + 1]) > 0 THEN Append(arrays, r[j + 1].n) ELSE arrays,
              IF Elements(r[j + 1]) > 0 THEN "marker" ELSE "return")
  <2> HIDE DEF r
  <2> QED
    BY <1>1, <1>2, <1>3, ReadingNext
<1>5. Reading(r, items', arrays', step')
  BY <1>2, <1>4
<1>6. Len(items') = j + 1
  <2>1. All[k + 1] \in FrameType
    <3>1. All \in Seq(Frames) /\ Len(All) \in Nat
      BY StreamIs
    <3>2. k + 1 \in 1 .. Len(All)
      <4> HIDE DEF b, j
      <4>1. k = b + j
        BY DEF b, j
      <4> QED
        BY <1>1, <1>2, <3>1, <4>1
    <3>3. All[k + 1] \in Frames
      BY <3>1, <3>2
    <3> QED
      BY <3>3, FrameFields DEF FrameType
  <2>2. Value(All[k + 1]) \in FrameType
    BY <2>1, ValueIs
  <2> QED
    BY <1>3, <2>2, AppendProperties
<1>7. b + Len(items') = k + 1
  <2>1. k = b + j
    OBVIOUS
  <2>2. b \in Nat /\ j \in Nat /\ Len(items') = j + 1
    BY <1>1, <1>2, <1>6
  <2> HIDE DEF b, j
  <2> QED
    BY <2>1, <2>2
<1>8. At(b + Len(items'), step', frame', Consumed')
  BY <1>7
<1>9. n \in 0 .. Len(sent) /\ n = Len(given') /\ \A i \in 1 .. n : given'[i] = Values(sent[i])
  BY <1>1
<1>10. step' # "idle"
  OBVIOUS
<1> HIDE DEF n
<1> QED
  BY <1>2, <1>5, <1>8, <1>9, <1>10, InStepBy DEF r

LEMMA LineInStep ==
  ASSUME Typed, InStep, broken = "no", ReadLine
  PROVE  InStep'
<1> DEFINE n == Len(given)
           b == Base(sent, n)
           k == b + Len(items)
<1>1. UNCHANGED input /\ step = "line" /\ given' = given
  BY DEF ReadLine, AtLine, history
<1>2. /\ n \in Nat /\ Len(sent) \in Nat /\ n <= Len(sent)
      /\ \A i \in 1 .. n : given[i] = Values(sent[i])
      /\ Here(k)
      /\ n < Len(sent) => Reading(sent[n + 1], items, arrays, step)
      /\ ~(n < Len(sent)) => step = "idle" \/ step = "marker"
  BY InPlace
<1>3. n < Len(sent)
  BY <1>1, <1>2
<1>4. step \in Inside
  BY <1>1 DEF Inside
<1>5. /\ k < Len(All)
      /\ HasPayload(All[k + 1]) =>
              /\ At(k, step', frame', Consumed') /\ step' = "payload"
              /\ items' = items /\ arrays' = arrays
      /\ ~HasPayload(All[k + 1]) =>
              /\ At(k + 1, step', frame', Consumed')
              /\ step' = IF Elements(All[k + 1]) > 0 THEN "marker" ELSE "return"
              /\ items' = Append(items, Value(All[k + 1]))
              /\ arrays' = IF Elements(All[k + 1]) > 0 THEN Append(arrays, All[k + 1].n) ELSE arrays
  <2> HIDE DEF k
  <2> QED
    BY <1>2, LineRead
<1>6. CASE HasPayload(All[k + 1])
  <2>1. /\ At(k, step', frame', Consumed') /\ step' = "payload" /\ items' = items /\ arrays' = arrays
    BY <1>5, <1>6
  <2>2. step' \in Inside /\ step' # "idle"
    BY <2>1 DEF Inside
  <2>3. Reading(sent[n + 1], items', arrays', step')
    BY <1>2, <1>3, <1>4, <2>1, <2>2, ReadingOn
  <2>4. n \in 0 .. Len(sent) /\ n = Len(given')
    BY <1>1, <1>2
  <2>5. At(b + Len(items'), step', frame', Consumed')
    BY <2>1
  <2> HIDE DEF n, k
  <2> QED
    BY <1>1, <1>2, <1>3, <2>2, <2>3, <2>4, <2>5, InStepBy
<1>7. CASE ~HasPayload(All[k + 1])
  <2>1. k = Base(sent, Len(given)) + Len(items)
    OBVIOUS
  <2> HIDE DEF k
  <2> QED
    BY <1>1, <1>4, <1>5, <1>7, <2>1, ValueInStep
<1> QED
  BY <1>6, <1>7

LEMMA EolInStep ==
  ASSUME Typed, InStep, broken = "no", ReadEol
  PROVE  InStep'
<1> DEFINE k == Base(sent, Len(given)) + Len(items)
<1>1. UNCHANGED input /\ step = "eol" /\ given' = given
  BY EolKeeps DEF ReadEol, history
<1>2. step \in Inside
  BY <1>1 DEF Inside
<1>3. Here(k) /\ k = Base(sent, Len(given)) + Len(items)
  BY InPlace
<1> HIDE DEF k
<1>4. /\ k < Len(All) /\ step' = "return"
      /\ At(k + 1, step', frame', Consumed') /\ Elements(All[k + 1]) = 0
      /\ items' = Append(items, Value(All[k + 1])) /\ arrays' = arrays
  BY <1>3, EolStep
<1>5. ~(Elements(All[k + 1]) > 0)
  BY <1>4
<1> QED
  BY <1>1, <1>2, <1>3, <1>4, <1>5, ValueInStep

LEMMA ElementInStep ==
  ASSUME Typed, InStep, broken = "no", ReturnElement
  PROVE  InStep'
<1> DEFINE n == Len(given)
           b == Base(sent, n)
<1>1. /\ UNCHANGED input /\ step = "return" /\ items' = items /\ given' = given
  BY DEF ReturnElement, history
<1>2. /\ n \in Nat /\ Len(sent) \in Nat /\ n <= Len(sent)
      /\ \A i \in 1 .. n : given[i] = Values(sent[i])
      /\ Here(b + Len(items))
      /\ n < Len(sent) => IsReply(sent[n + 1]) /\ Reading(sent[n + 1], items, arrays, step)
      /\ ~(n < Len(sent)) => step = "idle" \/ step = "marker"
  BY InPlace
<1>3. n < Len(sent)
  BY <1>1, <1>2
<1>4. At(b + Len(items'), step', frame', Consumed')
  <2> DEFINE k == b + Len(items)
  <2>1. Here(k)
    BY <1>2
  <2> HIDE DEF k
  <2>2. At(k, step', frame', Consumed')
    BY <2>1, ReturnsHere
  <2> QED
    BY <1>1, <2>2 DEF k
<1>5. /\ Len(arrays) \in Nat \ {0} /\ arrays' \in Seq(Nat \ {0})
      /\ \A i \in 1 .. Len(arrays) - 1 : arrays'[i] = arrays[i]
      /\ \/ arrays[Len(arrays)] = 1 /\ step' = "return" /\ Len(arrays') = Len(arrays) - 1
         \/ /\ arrays[Len(arrays)] > 1 /\ step' = "marker" /\ Len(arrays') = Len(arrays)
            /\ arrays'[Len(arrays)] = arrays[Len(arrays)] - 1
  BY ElementIs
<1>6. Reading(sent[n + 1], items', arrays', step')
  <2> DEFINE r == sent[n + 1]
  <2>1. IsReply(r) /\ Reading(r, items, arrays, "return") /\ items \in Seq(FrameType) /\ arrays \in Seq(Nat \ {0})
    BY <1>1, <1>2, <1>3, TypedParts
  <2> HIDE DEF r
  <2>2. Reading(r, items, arrays', step')
    BY <1>5, <2>1, ReadingElement
  <2> QED
    BY <1>1, <2>2 DEF r
<1>7. n \in 0 .. Len(sent) /\ n = Len(given') /\ step' # "idle"
  BY <1>1, <1>2, <1>5
<1> HIDE DEF n
<1> QED
  BY <1>1, <1>2, <1>3, <1>4, <1>6, <1>7, InStepBy
\* What a call returns is the next reply.
LEMMA ReturnGives ==
  ASSUME Typed, InStep, broken = "no", Return
  PROVE  /\ Len(given) < Len(sent) /\ given' = Append(given, Values(sent[Len(given) + 1]))
         /\ At(Base(sent, Len(given) + 1), step', frame', Consumed')
<1> DEFINE n == Len(given)
           r == sent[n + 1]
           b == Base(sent, n)
           k == b + Len(items)
<1>1. step = "return" /\ arrays = <<>> /\ given' = Append(given, items)
  BY DEF Return
<1>2. /\ n \in Nat /\ Len(sent) \in Nat /\ n <= Len(sent) /\ sent \in Seq(Replies)
      /\ Here(k)
      /\ n < Len(sent) => IsReply(r) /\ Reading(r, items, arrays, step)
      /\ ~(n < Len(sent)) => step = "idle" \/ step = "marker"
  BY InPlace
<1>3. n < Len(sent)
  BY <1>1, <1>2
<1>4. Len(items) = Len(r) /\ items = Values(r)
  <2>1. IsReply(r) /\ Reading(r, items, <<>>, "return") /\ items \in Seq(FrameType)
    BY <1>1, <1>2, <1>3, TypedParts
  <2> HIDE DEF r
  <2> QED
    BY <2>1, ReadingDone
<1>5. n \in 0 .. Len(sent) - 1
  BY <1>2, <1>3
<1>6. Base(sent, n + 1) = k
  BY <1>2, <1>4, <1>5, ReplyPlaces
<1>7. At(k, step', frame', Consumed')
  <2> HIDE DEF k
  <2> QED
    BY <1>2, ReturnsHere
<1> QED
  BY <1>1, <1>3, <1>4, <1>6, <1>7

\* So is the error that a call raises for a reply that is one.
LEMMA ErrorGives ==
  ASSUME Typed, InStep, broken = "no", RaiseError, arrays = <<>>
  PROVE  /\ Len(given) < Len(sent) /\ given' = Append(given, Values(sent[Len(given) + 1]))
         /\ At(Base(sent, Len(given) + 1), step', frame', Consumed')
<1> DEFINE n == Len(given)
           r == sent[n + 1]
           b == Base(sent, n)
           k == b + Len(items)
<1>1. step = "line" /\ given' = Append(given, <<Error(NextLine)>>)
  BY DEF RaiseError, AtLine
<1>2. /\ n \in Nat /\ Len(sent) \in Nat /\ n <= Len(sent) /\ sent \in Seq(Replies)
      /\ Here(k)
      /\ n < Len(sent) => IsReply(r) /\ Reading(r, items, arrays, step)
      /\ ~(n < Len(sent)) => step = "idle" \/ step = "marker"
  BY InPlace
<1>3. n < Len(sent)
  BY <1>1, <1>2
<1>4. step \in Inside
  BY <1>1 DEF Inside
<1>5. items = <<>>
  <2>1. IsReply(r) /\ Reading(r, items, arrays, step) /\ items \in Seq(FrameType) /\ arrays \in Seq(Nat \ {0})
    BY <1>2, <1>3, TypedParts
  <2> HIDE DEF r
  <2> QED
    BY <1>4, <2>1, ReadingAhead
<1>6. n \in 0 .. Len(sent) - 1
  BY <1>2, <1>3
<1>7. b \in Nat /\ Base(sent, n + 1) = b + Len(r)
  BY <1>2, <1>6, ReplyPlaces
<1>8. k = b /\ Len(items) = 0
  BY <1>5, <1>7
<1>9. /\ k < Len(All) /\ All[k + 1] = Error(NextLine)
      /\ At(k + 1, step', frame', Consumed') /\ Elements(All[k + 1]) = 0
      /\ Value(All[k + 1]) = All[k + 1]
  <2> HIDE DEF k
  <2> QED
    BY <1>2, ErrorStep
<1>10. All[k + 1] = r[1]
  <2>1. All[k + 1] = r[Len(items) + 1]
    BY <1>4, <1>9, InReply
  <2> QED
    BY <1>8, <2>1
<1>11. IsReply(r)
  BY <1>2, <1>3
<1> HIDE DEF r
<1>12. Len(r) = 1
  <2>1. /\ r \in Seq(Frames) /\ Len(r) \in Nat /\ Opens(r)[0] = 1 /\ Opens(r)[Len(r)] = 0
        /\ \A j \in 0 .. Len(r) - 1 : Opens(r)[j] > 0
    BY <1>11, ReplyIs
  <2>2. \A i \in 1 .. Len(r) : Opens(r)[i] = Opens(r)[i - 1] - 1 + Elements(r[i])
    BY <2>1, OpensAre
  <2>3. Len(r) # 0
    BY <2>1
  <2>4. 1 \in 1 .. Len(r)
    BY <2>1, <2>3
  <2>5. Elements(r[1]) = 0
    BY <1>9, <1>10
  <2>6. Opens(r)[1] = Opens(r)[1 - 1] - 1 + Elements(r[1])
    BY <2>2, <2>4
  <2>7. Opens(r)[1] = 0
    BY <2>1, <2>5, <2>6
  <2>8. ~(1 \in 0 .. Len(r) - 1)
    BY <2>1, <2>7
  <2> DEFINE l == Len(r)
  <2>9. l \in Nat /\ l # 0 /\ ~(1 <= l - 1)
    BY <2>1, <2>3, <2>8
  <2> HIDE DEF l
  <2>10. l = 1
    BY <2>9
  <2> QED
    BY <2>10 DEF l
<1>13. Values(r) = <<Error(NextLine)>>
  <2>1. r \in Seq(Frames)
    BY <1>11, ReplyIs
  <2>2. DOMAIN r = 1 .. 1
    BY <1>12, <2>1
  <2>3. Value(r[1]) = Error(NextLine)
    BY <1>9, <1>10
  <2>4. Values(r) = [j \in 1 .. 1 |-> Error(NextLine)]
    BY <2>2, <2>3 DEF Values
  <2> QED
    BY <2>4
<1>14. Base(sent, n + 1) = k + 1
  BY <1>7, <1>8, <1>12
<1> QED
  BY <1>1, <1>3, <1>9, <1>13, <1>14 DEF r

LEMMA GiveInStep ==
  ASSUME Typed, InStep, broken = "no", UNCHANGED input,
         Len(given) < Len(sent), given' = Append(given, Values(sent[Len(given) + 1])),
         items' = <<>>, arrays' = <<>>, step' = "idle",
         At(Base(sent, Len(given) + 1), step', frame', Consumed')
  PROVE  InStep'
<1> DEFINE n == Len(given)
           m == n + 1
<1>1. /\ n \in Nat /\ Len(sent) \in Nat /\ sent \in Seq(Replies)
      /\ \A i \in 1 .. n : given[i] = Values(sent[i])
  BY InPlace
<1>2. m \in 0 .. Len(sent) /\ m \in Nat
  BY <1>1
<1>3. given \in Seq(Seq(FrameType))
  BY TypedParts
<1>4. /\ Len(given') = m /\ given'[m] = Values(sent[m])
      /\ \A i \in 1 .. n : given'[i] = given[i]
  BY <1>3, AppendProperties
<1>5. ASSUME NEW i \in 1 .. m PROVE given'[i] = Values(sent[i])
  <2>1. CASE i = m
    BY <1>4, <2>1
  <2>2. CASE i # m
    <3>1. i \in 1 .. n
      <4> HIDE DEF n
      <4> QED
        BY <1>1, <2>2
    <3> QED
      BY <1>1, <1>4, <3>1
  <2> QED
    BY <2>1, <2>2
<1>6. m < Len(sent) => Reading(sent[m + 1], items', arrays', step')
  <2> SUFFICES ASSUME m < Len(sent) PROVE Reading(sent[m + 1], <<>>, <<>>, "idle")
    OBVIOUS
  <2>1. m + 1 \in 1 .. Len(sent)
    BY <1>1, <1>2
  <2>2. IsReply(sent[m + 1])
    BY <1>1, <2>1, RepliesAre
  <2> QED
    BY <2>2, ReadingStart
<1>7. At(Base(sent, m) + Len(items'), step', frame', Consumed')
  <2> DEFINE b == Base(sent, m)
  <2>1. b \in 0 .. Len(All) /\ Len(All) \in Nat
    BY <1>1, <1>2, StartIs, StreamIs DEF All
  <2>2. At(b, step', frame', Consumed') /\ Len(items') = 0
    OBVIOUS
  <2> HIDE DEF b
  <2>3. b + Len(items') = b
    BY <2>1, <2>2
  <2> QED
    BY <2>2, <2>3 DEF b
<1> HIDE DEF n, m
<1> QED
  BY <1>2, <1>4, <1>5, <1>6, <1>7, InStepBy

LEMMA InStepStep == Typed /\ InStep /\ [ReaderNext]_readerVars => InStep'
<1> SUFFICES ASSUME Typed, InStep, [ReaderNext]_readerVars, broken' = "no" PROVE InStep'
  BY DEF InStep
<1>1. CASE UNCHANGED readerVars
  <2>1. /\ sent' = sent /\ given' = given /\ items' = items /\ arrays' = arrays /\ step' = step
        /\ frame' = frame /\ UNCHANGED <<input, buf, pos>> /\ broken' = broken
    BY <1>1 DEF readerVars, input
  <2>2. All' = All /\ Consumed' = Consumed
    BY <2>1, CursorKept DEF All
  <2> QED
    BY <2>1, <2>2 DEF InStep, InOrder, Here, At
<1>2. CASE ReaderNext
  <2>1. CASE Read
    <3>1. broken = "no"
      BY <2>1 DEF Read, history
    <3> QED
      BY <2>1, <3>1, ReadInStep
  <2>2. CASE Fetch
    <3>1. broken = "no"
      BY <2>2 DEF Fetch, history
    <3> QED
      BY <2>2, <3>1, FetchInStep
  <2>3. CASE Raises
    <3>1. broken = "no"
      BY <2>3 DEF Raises
    <3> QED
      BY <2>3, <3>1, RaisesInStep
  <2>4. CASE Marker
    <3>1. broken = "no"
      BY <2>4 DEF Marker
    <3> QED
      BY <2>4, <3>1, MarkerInStep
  <2>5. CASE ReadLine
    <3>1. broken = "no"
      BY <2>5 DEF ReadLine, history
    <3> QED
      BY <2>5, <3>1, LineInStep
  <2>6. CASE BadNumber
    <3>1. broken = "no"
      BY <2>6 DEF BadNumber
    <3> QED
      BY <2>6, <3>1, InPlace, NumberHere
  <2>7. CASE RaiseError
    <3>1. broken = "no" /\ arrays = <<>>
      BY <2>7 DEF RaiseError
    <3>2. /\ UNCHANGED input /\ items' = <<>> /\ arrays' = <<>> /\ step' = "idle"
      BY <2>7 DEF RaiseError, AtLine, Leave
    <3> QED
      BY <2>7, <3>1, <3>2, ErrorGives, GiveInStep
  <2>8. CASE ReadPayload
    <3>1. broken = "no"
      BY <2>8 DEF ReadPayload, history
    <3> QED
      BY <2>8, <3>1, PayloadInStep
  <2>9. CASE ReadEol
    <3>1. broken = "no"
      BY <2>9 DEF ReadEol, history
    <3> QED
      BY <2>9, <3>1, EolInStep
  <2>10. CASE ReturnElement
    <3>1. broken = "no"
      BY <2>10 DEF ReturnElement, history
    <3> QED
      BY <2>10, <3>1, ElementInStep
  <2>11. CASE Return
    <3>1. broken = "no"
      BY <2>11 DEF Return
    <3>2. /\ UNCHANGED input /\ items' = <<>> /\ arrays' = <<>> /\ step' = "idle"
      BY <2>11 DEF Return
    <3> QED
      BY <2>11, <3>1, <3>2, ReturnGives, GiveInStep
  <2> QED
    BY <1>2, <2>1, <2>2, <2>3, <2>4, <2>5, <2>6, <2>7, <2>8, <2>9, <2>10, <2>11 DEF ReaderNext
<1> QED
  BY <1>1, <1>2
LEMMA SomewhereNext ==
  ASSUME Typed, NEW k, Here(k), ReaderNext, ~Raises
  PROVE  \E m \in 0 .. Len(All) : At(m, step', frame', Consumed')
<1>1. ASSUME NEW m, At(m, step', frame', Consumed')
      PROVE  \E i \in 0 .. Len(All) : At(i, step', frame', Consumed')
  BY <1>1 DEF At
<1>2. CASE Read
  BY <1>1, <1>2, ReadHere
<1>3. CASE Fetch
  BY <1>1, <1>3, WaitHere
<1>4. CASE Marker
  BY <1>1, <1>4, MarkerStep
<1>5. CASE ReadLine
  <2>1. CASE HasPayload(All[k + 1])
    BY <1>1, <1>5, <2>1, LineRead
  <2>2. CASE ~HasPayload(All[k + 1])
    BY <1>1, <1>5, <2>2, LineRead
  <2> QED
    BY <2>1, <2>2
<1>6. CASE BadNumber
  BY <1>6, NumberHere
<1>7. CASE RaiseError
  BY <1>1, <1>7, ErrorStep
<1>8. CASE ReadPayload
  BY <1>1, <1>8, PayloadStep
<1>9. CASE ReadEol
  BY <1>1, <1>9, EolStep
<1>10. CASE ReturnElement \/ Return
  BY <1>1, <1>10, ReturnsHere
<1> QED
  BY <1>2, <1>3, <1>4, <1>5, <1>6, <1>7, <1>8, <1>9, <1>10 DEF ReaderNext

LEMMA SentKept == [ReaderNext]_readerVars => sent' = sent
BY DEF ReaderNext, readerVars, Read, Fetch, Raises, Marker, ReadLine, BadNumber, RaiseError,
   ReadPayload, ReadEol, ReturnElement, Return, AtLine, input, server

LEMMA InFramesStep == Typed /\ InStep /\ InFrames /\ [ReaderNext]_readerVars => InFrames'
<1> SUFFICES ASSUME Typed, InStep, InFrames, [ReaderNext]_readerVars, broken' = "error"
             PROVE  \E k \in 0 .. Len(All') : Here(k)'
  BY DEF InFrames
<1>1. sent' = sent /\ All' = All
  BY SentKept DEF All
<1>2. CASE UNCHANGED readerVars
  <2>1. /\ step' = step /\ frame' = frame /\ broken' = broken /\ UNCHANGED <<input, buf, pos>>
    BY <1>2 DEF readerVars, input
  <2>2. Consumed' = Consumed
    BY <2>1, CursorKept
  <2>3. PICK k \in 0 .. Len(All) : Here(k)
    BY <2>1 DEF InFrames
  <2>4. Here(k)'
    BY <1>1, <2>1, <2>2, <2>3 DEF Here, At
  <2> QED
    BY <1>1, <2>4
<1>3. CASE ReaderNext
  <2>1. ~Raises
    BY DEF Raises
  <2>2. \E k : Here(k)
    <3>1. CASE broken = "error"
      BY <3>1 DEF InFrames
    <3>2. CASE broken = "no"
      BY <3>2 DEF InStep
    <3>3. CASE broken # "error" /\ broken # "no"
      <4>1. broken' = broken
        BY <1>3, <2>1, <3>3 DEF ReaderNext, Read, Fetch, Marker, ReadLine, BadNumber, RaiseError,
           ReadPayload, ReadEol, ReturnElement, Return, history
      <4> QED
        BY <3>3, <4>1
    <3> QED
      BY <3>1, <3>2, <3>3
  <2>3. PICK k : Here(k)
    BY <2>2
  <2>4. PICK m \in 0 .. Len(All) : At(m, step', frame', Consumed')
    BY <1>3, <2>1, <2>3, SomewhereNext
  <2>5. Here(m)'
    BY <1>1, <2>4 DEF Here, At
  <2> QED
    BY <1>1, <2>4, <2>5
<1> QED
  BY <1>2, <1>3

LEMMA InStepInit == ReaderInit => InStep /\ InFrames
<1> SUFFICES ASSUME ReaderInit PROVE InStep /\ InFrames
  OBVIOUS
<1>1. Typed
  BY TypedInit
<1>2. /\ step = "idle" /\ arrays = <<>> /\ items = <<>> /\ given = <<>> /\ broken = "no"
      /\ arrived = 0 /\ buf = <<>> /\ pos = 0
  BY DEF ReaderInit
<1>3. sent \in Seq(Replies)
  BY <1>1 DEF Typed
<1>4. Len(sent) \in Nat /\ Len(<<>>) = 0
  BY <1>3
<1>5. Base(sent, 0) = 0 /\ All \in Seq(Frames) /\ Off(All, 0) = 0 /\ Len(All) \in Nat
  BY <1>1, <1>3, RepliesAre, StreamIs, OffsAre
<1>6. Consumed = 0
  <2>1. Consumed = 0 - 0 + 0
    BY <1>2, <1>4 DEF Consumed
  <2> QED
    BY <2>1
<1>7. Base(sent, Len(given)) + Len(items) = 0
  BY <1>2, <1>4, <1>5
<1>8. Here(0)
  BY <1>2, <1>5, <1>6 DEF Here, At
<1>9. 0 < Len(sent) => Reading(sent[0 + 1], <<>>, <<>>, "idle")
  <2> SUFFICES ASSUME 0 < Len(sent) PROVE Reading(sent[1], <<>>, <<>>, "idle")
    OBVIOUS
  <2>1. IsReply(sent[1])
    <3>1. 1 \in 1 .. Len(sent)
      BY <1>4
    <3> QED
      BY <1>3, <3>1, RepliesAre
  <2> QED
    BY <2>1, ReadingStart
<1>10. Len(given) = 0 /\ \A i \in 1 .. 0 : given[i] = Values(sent[i])
  BY <1>2, <1>4
<1>11. InOrder(0, given, items, arrays, step)
  BY <1>2, <1>4, <1>9, <1>10 DEF InOrder
<1>12. InStep
  BY <1>7, <1>8, <1>10, <1>11 DEF InStep
<1> QED
  BY <1>2, <1>12 DEF InFrames

\* Whatever the replies, and however they are cut into pieces, the reader is where
\* its values say.
LEMMA ReaderInvariant == ReaderSpec => []ReaderInv
<1>1. ReaderInit => ReaderInv
  BY TypedInit, InStepInit DEF ReaderInv
<1>2. ReaderInv /\ [ReaderNext]_readerVars => ReaderInv'
  BY TypedStep, InStepStep, InFramesStep DEF ReaderInv
<1> QED
  BY <1>1, <1>2, PTL DEF ReaderSpec

-----------------------------------------------------------------------------
(* The decoder: what it promises *)

\* The buffer of a decoder is the end of what has arrived, its cursor lies within
\* it and an array that is read lacks an element, after cancelled and failed
\* calls too: what resp.py's _compact drops is consumed.
THEOREM ReaderTypeCorrect == ReaderSpec => []ReaderTypeOK
<1>1. Typed => ReaderTypeOK
  <2> SUFFICES ASSUME Typed PROVE ReaderTypeOK
    OBVIOUS
  <2>1. /\ arrived \in 0 .. Len(stream)
        /\ Len(buf) <= arrived /\ buf = SubSeq(stream, arrived - Len(buf) + 1, arrived)
        /\ pos \in 0 .. Len(buf)
        /\ step = "idle" => arrays = <<>> /\ items = <<>>
    BY DEF Typed
  <2>2. step \in Steps /\ frame \in FrameType /\ arrays \in Seq(Nat \ {0}) /\ broken \in {"no", "error", "cut"}
    BY DEF Typed
  <2> QED
    BY <2>1, <2>2 DEF ReaderTypeOK, Steps, FrameType
<1> QED
  BY <1>1, ReaderInvariant, PTL DEF ReaderInv
\* Between two calls the decoder has consumed exactly the replies it gave, however
\* recv cut the bytes into pieces; after an error that _parse_frame raised inside
\* an array the next call begins at a frame.
THEOREM RepliesConsumed == ReaderSpec => []BetweenReplies
<1>1. ReaderInv => BetweenReplies
  <2> SUFFICES ASSUME Typed, InStep, InFrames, step = "idle"
               PROVE  /\ broken = "no" => ~InsideReply
                      /\ broken = "error" => Consumed \in FrameStarts
    BY DEF ReaderInv, BetweenReplies
  <2>1. ASSUME broken = "no" PROVE ~InsideReply
    <3> DEFINE n == Len(given)
               b == Base(sent, n)
    <3>1. /\ n \in Nat /\ Len(sent) \in Nat /\ n <= Len(sent) /\ sent \in Seq(Replies)
          /\ Here(b + Len(items)) /\ items = <<>>
      BY <2>1, InPlace
    <3>2. n \in 0 .. Len(sent) /\ (n + 1) - 1 = n /\ Len(items) = 0
      BY <3>1
    <3>3. b \in 0 .. Len(All) /\ Len(Bytes(FlattenSeq(SubSeq(sent, 1, n)))) = Off(All, b)
      <4> HIDE DEF n
      <4> QED
        BY <3>1, <3>2, StartIs DEF All
    <3>4. StartOf(n + 1) = Off(All, b)
      BY <3>2, <3>3 DEF StartOf
    <3>5. b + Len(items) = b
      <4>1. Len(All) \in Nat
        BY StreamIs
      <4> HIDE DEF b
      <4> QED
        BY <3>2, <3>3, <4>1
    <3>6. Consumed = Off(All, b)
      <4> HIDE DEF b
      <4> QED
        BY <3>1, <3>5 DEF Here, At
    <3> QED
      BY <3>4, <3>6 DEF InsideReply
  <2>2. ASSUME broken = "error" PROVE Consumed \in FrameStarts
    <3>1. PICK k \in 0 .. Len(All) : Here(k)
      BY <2>2 DEF InFrames
    <3>2. Consumed = Off(All, k)
      BY <3>1 DEF Here, At
    <3> QED
      BY <3>1, <3>2 DEF FrameStarts, Off, All
  <2> QED
    BY <2>1, <2>2
<1> QED
  BY <1>1, ReaderInvariant, PTL

\* A step that wants more than is there wants bytes of its frame.
LEMMA ShortHere ==
  ASSUME Typed, NEW k, Here(k), k < Len(All), Short
  PROVE  arrived < Off(All, k + 1)
<1> DEFINE f == All[k + 1]
           h == Len(LineOf(f))
<1>1. k \in 0 .. Len(All)
  BY DEF Here, At
<1>2. /\ f \in Frames /\ Off(All, k) \in Nat /\ Off(All, k + 1) \in Nat /\ h \in Nat
      /\ Header(f) = h + 3
      /\ HasPayload(f) => f.n \in Nat /\ Off(All, k + 1) = Off(All, k) + Header(f) + f.n + 2
      /\ ~HasPayload(f) => Off(All, k + 1) = Off(All, k) + Header(f)
  BY <1>1, FrameHere
<1>3. /\ Len(buf) \in Nat /\ pos \in Nat /\ arrived \in Nat /\ Available \in Nat /\ Consumed \in Nat
      /\ Consumed + Available = arrived /\ Available = Len(buf) - pos
  BY BufferIs DEF Available
<1>4. Off(All, k) + h + 3 <= Off(All, k + 1)
  BY <1>2
<1>5. CASE step = "marker" /\ Available < 1
  <2>1. Consumed = Off(All, k)
    BY <1>5 DEF Here, At
  <2>2. \A o, e, v, a \in Nat : o + h + 3 <= e /\ o + v = a /\ v < 1 => a < e
    BY <1>2
  <2> HIDE DEF h
  <2> QED
    BY <1>2, <1>3, <1>4, <1>5, <2>1, <2>2
<1>6. CASE step = "line" /\ LineEnds = {}
  <2> SUFFICES ASSUME ~(arrived < Off(All, k + 1)) PROVE FALSE
    OBVIOUS
  <2>1. Consumed = Off(All, k) + 1
    BY <1>6 DEF Here, At
  <2> DEFINE B == FrameBytes(f)
  <2>2. B[h + 2] = CR /\ B[h + 3] = LF
    BY <1>2, FrameBytesAre
  <2> HIDE DEF B, h
  <2>3. h \in Nat /\ Off(All, k) \in Nat /\ Off(All, k + 1) \in Nat
    BY <1>2
  <2>4. h + 2 <= Available
    <3>1. \A o, e, c, v, a \in Nat :
            o + h + 3 <= e /\ ~(a < e) /\ c + v = a /\ c = o + 1 => h + 2 <= v
      BY <2>3
    <3>2. Consumed \in Nat /\ Available \in Nat /\ arrived \in Nat
      BY <1>3, <2>1, <2>3
    <3> QED
      BY <1>3, <1>4, <2>1, <2>3, <3>1, <3>2
  <2>5. ASSUME NEW y \in 1 .. h + 2 PROVE buf[pos + y] = B[1 + y]
    <3>1. y \in Nat /\ y >= 1 /\ y <= Available /\ 1 \in Nat /\ 1 + y <= Off(All, k + 1) - Off(All, k)
      BY <1>3, <1>4, <2>3, <2>4
    <3> QED
      BY <1>1, <2>1, <3>1, FrameInBuffer DEF B
  <2>6. /\ h + 1 \in 1 .. h + 2 /\ h + 2 \in 1 .. h + 2
        /\ 1 + (h + 1) = h + 2 /\ 1 + (h + 2) = h + 3
        /\ pos + (h + 1) = pos + h + 1 /\ pos + (h + 2) = (pos + h + 1) + 1
    <3>1. \A x, y \in Nat :
            /\ x + 1 \in 1 .. x + 2 /\ x + 2 \in 1 .. x + 2
            /\ 1 + (x + 1) = x + 2 /\ 1 + (x + 2) = x + 3
            /\ y + (x + 1) = y + x + 1 /\ y + (x + 2) = (y + x + 1) + 1
      OBVIOUS
    <3> QED
      BY <1>3, <2>3, <3>1
  <2>7. buf[pos + h + 1] = CR /\ buf[(pos + h + 1) + 1] = LF
    BY <2>2, <2>5, <2>6
  <2>8. pos + h + 1 \in pos + 1 .. Len(buf) - 1
    BY <1>3, <2>3, <2>4
  <2>9. pos + h + 1 \in LineEnds
    BY <2>7, <2>8 DEF LineEnds
  <2> QED
    BY <1>6, <2>9
<1>7. CASE step = "payload" /\ Available < frame.n
  <2>1. HasPayload(f) /\ frame.n = f.n /\ Consumed = Off(All, k) + Header(f)
    BY <1>7 DEF Here, At
  <2> DEFINE n == f.n
  <2>2. n \in Nat /\ Off(All, k + 1) = Off(All, k) + (h + 3) + n + 2 /\ Available < n
    BY <1>2, <1>7, <2>1
  <2>3. Consumed = Off(All, k) + (h + 3)
    BY <1>2, <2>1
  <2> HIDE DEF n, h
  <2>4. arrived = Off(All, k) + (h + 3) + Available
    BY <1>3, <2>3
  <2>5. \A x, v, y \in Nat : v < y => x + v < x + y + 2
    OBVIOUS
  <2>6. Off(All, k) + (h + 3) \in Nat
    BY <1>2
  <2> QED
    BY <1>3, <2>2, <2>4, <2>5, <2>6
<1>8. CASE step = "eol" /\ Available < 2
  <2>1. Consumed = Off(All, k + 1) - 2
    BY <1>8 DEF Here, At
  <2> QED
    BY <1>2, <1>3, <1>8, <2>1
<1> QED
  BY <1>5, <1>6, <1>7, <1>8 DEF Short

\* _ensure_data calls recv only while bytes of its own reply are missing, so a
\* caller whose reply has arrived whole never waits for the server.
THEOREM WaitsForMissing == ReaderSpec => []WaitsOnlyForMissing
<1>1. ReaderInv => WaitsOnlyForMissing
  <2> SUFFICES ASSUME Typed, InStep, Short, broken = "no", Len(given) < Len(sent)
               PROVE  arrived < StartOf(Len(given) + 2)
    BY DEF ReaderInv, WaitsOnlyForMissing
  <2> DEFINE n == Len(given)
             m == n + 1
             r == sent[m]
             b == Base(sent, n)
             k == b + Len(items)
  <2>1. /\ n \in Nat /\ Len(sent) \in Nat /\ sent \in Seq(Replies) /\ Here(k)
        /\ IsReply(r) /\ Reading(r, items, arrays, step) /\ Len(items) \in Nat
    BY InPlace
  <2>2. step \in Inside
    BY DEF Short, Inside
  <2>3. Len(items) < Len(r)
    <3>1. items \in Seq(FrameType) /\ arrays \in Seq(Nat \ {0})
      BY TypedParts
    <3> HIDE DEF r
    <3> QED
      BY <2>1, <2>2, <3>1, ReadingAhead
  <2>4. n \in 0 .. Len(sent) - 1 /\ m \in 0 .. Len(sent)
    BY <2>1
  <2>5. b \in Nat /\ Base(sent, m) = b + Len(r) /\ Base(sent, m) <= Len(All)
    BY <2>1, <2>4, ReplyPlaces DEF All
  <2>6. Len(r) \in Nat /\ Len(All) \in Nat /\ All \in Seq(Frames)
    BY <2>1, ReplyIs, StreamIs
  <2>7. k < Len(All) /\ k + 1 \in 0 .. Len(All) /\ Base(sent, m) \in k + 1 .. Len(All)
    <3> DEFINE j == Len(items)
    <3>1. k = b + j /\ j \in Nat /\ j < Len(r)
      BY <2>1, <2>3
    <3> HIDE DEF j, k, b, r
    <3> QED
      BY <2>5, <2>6, <3>1
  <2>8. arrived < Off(All, k + 1)
    <3> HIDE DEF k
    <3> QED
      BY <2>1, <2>7, ShortHere
  <2>9. Off(All, k + 1) <= Off(All, Base(sent, m))
    <3> HIDE DEF k, m, b
    <3> QED
      BY <2>6, <2>7, OffsAre
  <2>10. StartOf(n + 2) = Off(All, Base(sent, m))
    <3>1. (n + 2) - 1 = m
      BY <2>1
    <3>2. StartOf(n + 2) = Len(Bytes(FlattenSeq(SubSeq(sent, 1, m))))
      BY <3>1 DEF StartOf
    <3> HIDE DEF m
    <3>3. Len(Bytes(FlattenSeq(SubSeq(sent, 1, m)))) = Off(All, Base(sent, m))
      BY <2>1, <2>4, StartIs DEF All
    <3> QED
      BY <3>2, <3>3
  <2>11. /\ Off(All, k + 1) \in Nat /\ Off(All, Base(sent, m)) \in Nat /\ arrived \in Nat
    <3>1. arrived \in Nat
      BY BufferIs
    <3>2. Base(sent, m) \in 0 .. Len(All)
      <4> HIDE DEF k, m, b
      <4> QED
        BY <2>6, <2>7
    <3> HIDE DEF k, m, b
    <3> QED
      BY <2>6, <2>7, <3>1, <3>2, OffsAre
  <2> HIDE DEF k, m, b
  <2>12. arrived < Off(All, Base(sent, m))
    BY <2>8, <2>9, <2>11
  <2> QED
    BY <2>10, <2>12
<1> QED
  BY <1>1, ReaderInvariant, PTL
\* A call that ends gives the next reply, or is broken off inside it.
LEMMA AnswersStep ==
  ASSUME Typed, InStep, [ReaderNext]_readerVars
  PROVE  [Answers!Next]_Answers!vars
<1> DEFINE Sent == [i \in DOMAIN sent |-> Values(sent[i])]
<1>1. sent' = sent
  BY SentKept
<1>2. Sent' = Sent
  BY <1>1
<1>3. ASSUME given' = given, broken' = broken
      PROVE  UNCHANGED Answers!vars
  BY <1>1, <1>3 DEF Answers!vars
<1>4. CASE UNCHANGED readerVars
  BY <1>3, <1>4 DEF readerVars
<1>5. CASE ReaderNext /\ broken # "no"
  <2>1. broken' # "no"
    BY <1>5 DEF ReaderNext, Read, Fetch, Raises, Marker, ReadLine, BadNumber, RaiseError,
       ReadPayload, ReadEol, ReturnElement, Return, history
  <2>2. Answers!Stray
    BY <1>1, <1>5, <2>1 DEF Answers!Stray
  <2> QED
    BY <2>2 DEF Answers!Next
<1>6. CASE ReaderNext /\ broken = "no"
  <2>1. ASSUME broken' # "no", given' = given \/ \E v : given' = Append(given, v)
        PROVE  Answers!Next
    <3>1. SubSeq(given', 1, Len(given)) = given
      <4>1. given \in Seq(Seq(FrameType))
        BY TypedParts
      <4>2. SubSeq(given, 1, Len(given)) = given
        BY <4>1
      <4>3. ASSUME NEW v PROVE SubSeq(Append(given, v), 1, Len(given)) = given
        BY <4>1
      <4> QED
        BY <2>1, <4>2, <4>3
    <3>2. Answers!Break
      BY <1>1, <1>6, <2>1, <3>1 DEF Answers!Break
    <3> QED
      BY <3>2 DEF Answers!Next
  <2>2. ASSUME broken' = "no", Len(given) < Len(sent),
               given' = Append(given, Values(sent[Len(given) + 1]))
        PROVE  Answers!Next
    <3>1. sent \in Seq(Replies) /\ Len(given) \in Nat /\ Len(sent) \in Nat
      BY <1>6, InPlace
    <3>2. Len(given) + 1 \in DOMAIN sent
      BY <2>2, <3>1
    <3>3. Sent[Len(given) + 1] = Values(sent[Len(given) + 1])
      BY <3>2
    <3>4. Len(Sent) = Len(sent)
      BY <3>1
    <3>5. Answers!Give
      BY <1>1, <1>6, <2>2, <3>3, <3>4 DEF Answers!Give
    <3> QED
      BY <3>5 DEF Answers!Next
  <2>3. CASE Raises
    BY <1>3, <1>6, <2>1, <2>3 DEF Raises
  <2>4. CASE RaiseError
    <3>1. CASE arrays = <<>>
      <4>1. broken' = "no"
        BY <1>6, <2>4, <3>1 DEF RaiseError
      <4> QED
        BY <1>6, <2>2, <2>4, <3>1, <4>1, ErrorGives
    <3>2. CASE arrays # <<>>
      <4>1. broken' # "no" /\ \E v : given' = Append(given, v)
        BY <1>6, <2>4, <3>2 DEF RaiseError
      <4> QED
        BY <2>1, <4>1
    <3> QED
      BY <3>1, <3>2
  <2>5. CASE Return
    <3>1. broken' = "no"
      BY <1>6, <2>5 DEF Return
    <3> QED
      BY <1>6, <2>2, <2>5, <3>1, ReturnGives
  <2>6. CASE BadNumber
    BY <1>6, <2>6, InPlace, NumberHere
  <2>7. CASE Marker
    <3>1. given' = given
      BY <1>6, <2>7, InPlace, MarkerStep
    <3>2. broken' = broken
      BY <2>7 DEF Marker
    <3> QED
      BY <1>3, <3>1, <3>2
  <2>8. CASE Read \/ Fetch \/ ReadLine \/ ReadPayload \/ ReadEol \/ ReturnElement
    <3>1. given' = given /\ broken' = broken
      BY <2>8 DEF Read, Fetch, ReadLine, ReadPayload, ReadEol, ReturnElement, history
    <3> QED
      BY <1>3, <3>1
  <2> QED
    BY <1>6, <2>3, <2>4, <2>5, <2>6, <2>7, <2>8 DEF ReaderNext
<1> QED
  BY <1>4, <1>5, <1>6

\* Each read_response gives the next of the server's replies, whole and once, as
\* long as no call was broken off in the middle of one.
THEOREM DecoderImplementsReplyStream == ReaderSpec => ImplementsReplyStream
<1>1. ReaderInit => Answers!Init
  BY DEF ReaderInit, Answers!Init
<1>2. ReaderInv /\ [ReaderNext]_readerVars => [Answers!Next]_Answers!vars
  BY AnswersStep DEF ReaderInv
<1> QED
  BY <1>1, <1>2, ReaderInvariant, PTL DEF ReaderSpec, ImplementsReplyStream, Answers!Spec
=============================================================================
