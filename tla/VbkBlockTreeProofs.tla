-------------------------- MODULE VbkBlockTreeProofs --------------------------
(***************************************************************************)
(* Theorems about VbkBlockTree, for any VBK and BTC blocks, any VTBs and    *)
(* any keystone interval, settlement interval and limits: the VBK tree      *)
(* holds what the applied altchain branches have put there and the BTC tree *)
(* what the active VBK chain refers to, and a failed switch restores both.  *)
(* When no VTB needs another VTB of its own VBK block, no assertion fails,  *)
(* every VBK chain applies and verdicts do not depend on the VBK tip.       *)
(***************************************************************************)
EXTENDS VbkBlockTree, FiniteSetTheorems, SequenceTheorems, WellFoundedInduction, TLAPS

-----------------------------------------------------------------------------
(* Induction over the positions of a sequence.                              *)

\* The good positions start at 0 and each is followed by another.
LEMMA UpTo ==
    ASSUME NEW n \in Nat, NEW G, 0 \in G, \A i \in 1 .. n : i - 1 \in G => i \in G
    PROVE  \A i \in 0 .. n : i \in G
<1> DEFINE bad == {i \in 0 .. n : i \notin G}
<1> SUFFICES ASSUME bad # {} PROVE FALSE
  OBVIOUS
<1>1. bad \in SUBSET Nat
  OBVIOUS
<1>2. PICK k \in bad : \A m \in bad : ~(<<m, k>> \in OpToRel(<, Nat))
  BY <1>1, NatLessThanWellFounded, WFMin
<1>3. \A m \in bad : ~(m < k)
  BY <1>1, <1>2 DEF OpToRel
<1>4. k \in 0 .. n /\ k \notin G
  OBVIOUS
<1>5. k \in 1 .. n /\ k - 1 \in 0 .. n /\ k - 1 < k
  BY <1>4
<1>6. k - 1 \in G
  BY <1>3, <1>5
<1> QED
  BY <1>4, <1>5, <1>6

AreSteps(S, n, step) == step \in [1 .. n -> [S -> S]]

IsRun(f, S, n, x, step) ==
    /\ f \in [0 .. n -> S]
    /\ f[0] = x
    /\ \A i \in 1 .. n : f[i] = step[i][f[i - 1]]

Follows(u, f, n) == u[0] = f[0] /\ \A i \in 1 .. n : u[i - 1] = f[i - 1] => u[i] = f[i]

\* Steps that stay within S can be made one after the other, ...
LEMMA Steps ==
    ASSUME NEW S, NEW n \in Nat, NEW x \in S, NEW step, AreSteps(S, n, step)
    PROVE  \E f : IsRun(f, S, n, x, step)
<1> USE DEF AreSteps
<1> DEFINE Fits(f, k) == f[0] = x /\ \A i \in 1 .. k : f[i] = step[i][f[i - 1]]
           G == {k \in 0 .. n : \E f \in [0 .. k -> S] : Fits(f, k)}
<1>1. 0 \in G
  <2> DEFINE f == [i \in 0 .. 0 |-> x]
  <2>1. f \in [0 .. 0 -> S] /\ Fits(f, 0)
    OBVIOUS
  <2> HIDE DEF f, Fits
  <2> QED
    BY <2>1
<1>2. ASSUME NEW k \in 1 .. n, k - 1 \in G PROVE k \in G
  <2>1. PICK f \in [0 .. k - 1 -> S] : Fits(f, k - 1)
    BY <1>2
  <2> DEFINE g == [i \in 0 .. k |-> IF i = k THEN step[k][f[k - 1]] ELSE f[i]]
  <2>2. k \in Nat /\ k - 1 \in 0 .. k - 1 /\ k - 1 \in Nat
    OBVIOUS
  <2>3. step[k][f[k - 1]] \in S
    BY <2>1, <2>2
  <2>4. g \in [0 .. k -> S]
    BY <2>2, <2>3
  <2>5. g[0] = x
    BY <2>1, <2>2
  <2>6. ASSUME NEW i \in 1 .. k PROVE g[i] = step[i][g[i - 1]]
    <3>1. i - 1 \in 0 .. k /\ i - 1 # k /\ g[i - 1] = f[i - 1] /\ i \in 0 .. k
      BY <2>2
    <3>2. CASE i = k
      BY <3>1, <3>2
    <3>3. CASE i # k
      <4>1. i \in 1 .. k - 1
        BY <3>3, <2>2
      <4> QED
        BY <4>1, <3>1, <3>3, <2>1
    <3> QED
      BY <3>2, <3>3
  <2> HIDE DEF g
  <2>7. Fits(g, k)
    BY <2>5, <2>6
  <2> HIDE DEF Fits
  <2> QED
    BY <2>4, <2>7
<1>3. n \in G
  <2> HIDE DEF G
  <2>1. \A i \in 0 .. n : i \in G
    BY <1>1, <1>2, UpTo
  <2> QED
    BY <2>1
<1>4. PICK f \in [0 .. n -> S] : Fits(f, n)
  BY <1>3
<1> QED
  BY <1>4 DEF IsRun

\* ... in one way.
LEMMA StepsSame ==
    ASSUME NEW n \in Nat, NEW f, NEW u, Follows(u, f, n)
    PROVE  u[n] = f[n]
<1> DEFINE E == {i \in 0 .. n : u[i] = f[i]}
<1>1. 0 \in E /\ \A i \in 1 .. n : i - 1 \in E => i \in E
  BY DEF Follows
<1>2. \A i \in 0 .. n : i \in E
  <2> HIDE DEF E
  <2> QED
    BY <1>1, UpTo
<1> QED
  BY <1>2

-----------------------------------------------------------------------------
(* How often a sequence takes a value in a set.                             *)

HitsOf(q, P) == {i \in DOMAIN q : q[i] \in P}

Hits(q, P) == Cardinality(HitsOf(q, P))

LEMMA HitsType ==
    ASSUME NEW X, NEW q \in Seq(X), NEW P
    PROVE  IsFiniteSet(HitsOf(q, P)) /\ Hits(q, P) \in Nat
<1>1. IsFiniteSet(1 .. Len(q)) /\ HitsOf(q, P) \subseteq 1 .. Len(q)
  BY FS_Interval DEF HitsOf
<1> QED
  BY <1>1, FS_Subset, FS_CardinalityType DEF Hits

LEMMA HitsEmpty ==
    ASSUME NEW P
    PROVE  Hits(<<>>, P) = 0
<1>1. HitsOf(<<>>, P) = {}
  BY DEF HitsOf
<1> QED
  BY <1>1, FS_EmptySet DEF Hits

LEMMA HitsAppend ==
    ASSUME NEW X, NEW q \in Seq(X), NEW y \in X, NEW P
    PROVE  Hits(Append(q, y), P) = Hits(q, P) + (IF y \in P THEN 1 ELSE 0)
<1> DEFINE n == Len(q) + 1
           a == Append(q, y)
<1>1. /\ Len(q) \in Nat /\ DOMAIN q = 1 .. Len(q) /\ DOMAIN a = 1 .. n
      /\ \A i \in 1 .. Len(q) : a[i] = q[i]
      /\ a[n] = y
  OBVIOUS
<1>2. \A i : i \in 1 .. n <=> i \in 1 .. Len(q) \/ i = n
  BY <1>1
<1>3. n \notin 1 .. Len(q)
  BY <1>1
<1> HIDE DEF n, a
<1>4. HitsOf(a, P) = IF y \in P THEN HitsOf(q, P) \cup {n} ELSE HitsOf(q, P)
  BY <1>1, <1>2, <1>3 DEF HitsOf
<1>5. IsFiniteSet(HitsOf(q, P)) /\ n \notin HitsOf(q, P) /\ Hits(q, P) \in Nat
  BY <1>1, <1>3, HitsType DEF HitsOf
<1>6. Cardinality(HitsOf(q, P) \cup {n}) = Hits(q, P) + 1
  BY <1>5, FS_AddElement DEF Hits
<1> QED
  BY <1>4, <1>5, <1>6 DEF Hits, a

LEMMA HitsFront ==
    ASSUME NEW X, NEW q \in Seq(X), q # <<>>, NEW P
    PROVE  /\ Front(q) \in Seq(X) /\ Last(q) \in X
           /\ Hits(q, P) = Hits(Front(q), P) + (IF Last(q) \in P THEN 1 ELSE 0)
<1>1. /\ Len(q) \in Nat /\ Len(q) # 0 /\ Front(q) \in Seq(X) /\ Last(q) \in X
  BY DEF Front, Last
<1>2. q = Append(Front(q), Last(q))
  <2>1. Len(Front(q)) = Len(q) - 1 /\ \A i \in 1 .. Len(q) - 1 : Front(q)[i] = q[i]
    <3>1. Front(q) = [i \in 1 .. Len(q) - 1 |-> q[i]]
      BY <1>1 DEF Front
    <3> QED
      BY <3>1, <1>1
  <2> DEFINE a == Append(Front(q), Last(q))
  <2>2. a \in Seq(X) /\ Len(a) = Len(q) /\ a[Len(q)] = q[Len(q)]
    BY <1>1, <2>1 DEF Last
  <2>3. \A i \in 1 .. Len(q) - 1 : a[i] = q[i]
    BY <1>1, <2>1
  <2>4. \A i \in 1 .. Len(q) : i = Len(q) \/ i \in 1 .. Len(q) - 1
    BY <1>1
  <2> HIDE DEF a
  <2>5. \A i \in 1 .. Len(q) : a[i] = q[i]
    BY <2>2, <2>3, <2>4
  <2>6. q = a
    BY <2>2, <2>5
  <2> QED
    BY <2>6 DEF a
<1>3. Hits(Append(Front(q), Last(q)), P) = Hits(Front(q), P) + (IF Last(q) \in P THEN 1 ELSE 0)
  BY <1>1, HitsAppend
<1> QED
  BY <1>1, <1>2, <1>3

LEMMA SameSize ==
    ASSUME NEW S, IsFiniteSet(S), NEW T, NEW f \in [S -> T],
           \A a, b \in S : f[a] = f[b] => a = b,
           \A t \in T : \E a \in S : f[a] = t
    PROVE  IsFiniteSet(T) /\ Cardinality(T) = Cardinality(S)
<1>1. f \in Bijection(S, T)
  BY DEF Bijection, Injection, Surjection, IsInjective
<1>2. ExistsBijection(S, T)
  BY <1>1 DEF ExistsBijection
<1> QED
  BY <1>2, FS_Bijection

LEMMA ConcatFacts ==
    ASSUME NEW X, NEW q \in Seq(X), NEW r \in Seq(X)
    PROVE  /\ q \o r \in Seq(X) /\ Len(q \o r) = Len(q) + Len(r)
           /\ Len(q) \in Nat /\ Len(r) \in Nat /\ DOMAIN (q \o r) = 1 .. Len(q \o r)
OBVIOUS

LEMMA HitsConcat ==
    ASSUME NEW X, NEW q \in Seq(X), NEW r \in Seq(X), NEW P
    PROVE  Hits(q \o r, P) = Hits(q, P) + Hits(r, P)
<1> DEFINE n == Len(q)
           shifted == {i \in n + 1 .. n + Len(r) : r[i - n] \in P}
           f == [i \in HitsOf(r, P) |-> i + n]
           s == q \o r
<1>1. /\ n \in Nat /\ Len(r) \in Nat /\ DOMAIN q = 1 .. n /\ DOMAIN r = 1 .. Len(r)
      /\ DOMAIN s = 1 .. n + Len(r)
      /\ \A i \in 1 .. n : s[i] = q[i]
      /\ \A i \in n + 1 .. n + Len(r) : s[i] = r[i - n]
  OBVIOUS
<1>2. IsFiniteSet(HitsOf(q, P)) /\ IsFiniteSet(HitsOf(r, P)) /\ Hits(q, P) \in Nat /\ Hits(r, P) \in Nat
  BY HitsType
<1>3. /\ f \in [HitsOf(r, P) -> shifted]
      /\ \A a, b \in HitsOf(r, P) : f[a] = f[b] => a = b
      /\ \A t \in shifted : \E a \in HitsOf(r, P) : f[a] = t
  <2>1. \A i \in HitsOf(r, P) : i \in 1 .. Len(r) /\ i + n \in shifted
    BY <1>1 DEF HitsOf
  <2>2. \A t \in shifted : t - n \in HitsOf(r, P) /\ (t - n) + n = t
    BY <1>1 DEF HitsOf
  <2>3. f \in [HitsOf(r, P) -> shifted]
    BY <2>1
  <2>4. \A a, b \in HitsOf(r, P) : f[a] = f[b] => a = b
    <3>1. \A a, b \in 1 .. Len(r) : a + n = b + n => a = b
      BY <1>1
    <3> QED
      BY <2>1, <3>1
  <2>5. \A t \in shifted : \E a \in HitsOf(r, P) : f[a] = t
    BY <2>2
  <2> QED
    BY <2>3, <2>4, <2>5
<1> HIDE DEF f, shifted
<1>4. IsFiniteSet(shifted) /\ Cardinality(shifted) = Hits(r, P)
  BY <1>2, <1>3, SameSize DEF Hits
<1>5. HitsOf(s, P) = HitsOf(q, P) \cup shifted
  <2>1. \A i : i \in 1 .. n + Len(r) <=> i \in 1 .. n \/ i \in n + 1 .. n + Len(r)
    BY <1>1
  <2> HIDE DEF n, s
  <2> QED
    BY <1>1, <2>1 DEF HitsOf, shifted
<1>6. HitsOf(q, P) \cap shifted = {}
  BY <1>1 DEF HitsOf, shifted
<1> HIDE DEF s
<1>7. Cardinality(HitsOf(q, P) \cup shifted) = Hits(q, P) + Hits(r, P)
  <2>1. /\ IsFiniteSet(HitsOf(q, P))
        /\ Cardinality(HitsOf(q, P) \cup shifted) =
             Cardinality(HitsOf(q, P)) + Cardinality(shifted) - Cardinality(HitsOf(q, P) \cap shifted)
    BY <1>2, <1>4, FS_Union
  <2>2. Cardinality(HitsOf(q, P) \cap shifted) = 0
    BY <1>6, FS_EmptySet
  <2> QED
    BY <1>2, <1>4, <2>1, <2>2 DEF Hits
<1>8. Hits(s, P) = Hits(q, P) + Hits(r, P)
  BY <1>5, <1>7 DEF Hits
<1> QED
  BY <1>8 DEF s

LEMMA ReverseFacts ==
    ASSUME NEW X, NEW q \in Seq(X)
    PROVE  /\ Reverse(q) \in Seq(X) /\ Len(Reverse(q)) = Len(q)
           /\ \A P : Hits(Reverse(q), P) = Hits(q, P)
           /\ \A i \in 1 .. Len(q) : Reverse(q)[i] = q[(Len(q) - i) + 1]
<1> DEFINE n == Len(q)
           r == Reverse(q)
<1>1. n \in Nat /\ DOMAIN q = 1 .. n /\ r = [i \in 1 .. n |-> q[(n - i) + 1]]
  BY DEF Reverse
<1>2. \A i \in 1 .. n : (n - i) + 1 \in 1 .. n /\ (n - ((n - i) + 1)) + 1 = i
  BY <1>1
<1>3. r \in Seq(X) /\ Len(r) = n /\ DOMAIN r = 1 .. n
  BY <1>1, <1>2
<1>4. ASSUME NEW P PROVE Hits(r, P) = Hits(q, P)
  <2> DEFINE f == [i \in HitsOf(q, P) |-> (n - i) + 1]
  <2>1. IsFiniteSet(HitsOf(q, P))
    BY HitsType
  <2> HIDE DEF r, n
  <2>2. \A i \in HitsOf(q, P) : i \in 1 .. n /\ (n - i) + 1 \in HitsOf(r, P)
    <3> SUFFICES ASSUME NEW i \in HitsOf(q, P) PROVE i \in 1 .. n /\ (n - i) + 1 \in HitsOf(r, P)
      OBVIOUS
    <3>1. i \in 1 .. n /\ q[i] \in P
      BY <1>1 DEF HitsOf
    <3>2. (n - i) + 1 \in 1 .. n /\ r[(n - i) + 1] = q[i]
      BY <3>1, <1>1, <1>2
    <3> QED
      BY <3>1, <3>2, <1>3 DEF HitsOf
  <2>3. \A i \in HitsOf(r, P) : i \in 1 .. n /\ (n - i) + 1 \in HitsOf(q, P)
    <3> SUFFICES ASSUME NEW i \in HitsOf(r, P) PROVE i \in 1 .. n /\ (n - i) + 1 \in HitsOf(q, P)
      OBVIOUS
    <3>1. i \in 1 .. n /\ q[(n - i) + 1] \in P
      BY <1>1, <1>3 DEF HitsOf
    <3> QED
      BY <3>1, <1>1, <1>2 DEF HitsOf
  <2>4. f \in [HitsOf(q, P) -> HitsOf(r, P)]
    BY <2>2
  <2>5. \A a, b \in HitsOf(q, P) : f[a] = f[b] => a = b
    <3>1. \A a, b \in 1 .. n : (n - a) + 1 = (n - b) + 1 => a = b
      BY <1>1
    <3> QED
      BY <2>2, <3>1
  <2>6. \A t \in HitsOf(r, P) : \E a \in HitsOf(q, P) : f[a] = t
    BY <2>3, <1>2
  <2> HIDE DEF f
  <2> QED
    BY <2>1, <2>4, <2>5, <2>6, SameSize DEF Hits
<1>5. \A i \in 1 .. n : r[i] = q[(n - i) + 1]
  <2> HIDE DEF r, n
  <2> QED
    BY <1>1
<1> QED
  BY <1>3, <1>4, <1>5

\* removePayloadId takes one occurrence away, if there is one.
LEMMA RemoveFirstFacts ==
    ASSUME NEW X, NEW q \in Seq(X), NEW y \in X, y \in ToSet(q)
    PROVE  /\ RemoveFirst(q, y) \in Seq(X) /\ Len(RemoveFirst(q, y)) = Len(q) - 1
           /\ ToSet(RemoveFirst(q, y)) \subseteq ToSet(q)
           /\ \A P : Hits(q, P) = Hits(RemoveFirst(q, y), P) + (IF y \in P THEN 1 ELSE 0)
<1> DEFINE I == {i \in 1 .. Len(q) : q[i] = y}
           k == Min(I)
           a == SubSeq(q, 1, k - 1)
           b == SubSeq(q, k + 1, Len(q))
<1>1. Len(q) \in Nat /\ DOMAIN q = 1 .. Len(q) /\ I # {} /\ I \in SUBSET Nat
  BY DEF ToSet
<1>2. k \in I
  <2>1. PICK m \in I : \A j \in I : ~(<<j, m>> \in OpToRel(<, Nat))
    BY <1>1, NatLessThanWellFounded, WFMin
  <2>2. ASSUME NEW j \in I PROVE m <= j
    <3>1. j \in Nat /\ m \in Nat
      BY <1>1
    <3>2. ~(j < m)
      BY <2>1, <3>1 DEF OpToRel
    <3> QED
      BY <3>1, <3>2
  <2> HIDE DEF I
  <2> QED
    BY <2>2 DEF Min
<1>3. RemoveFirst(q, y) = a \o b
  <2>1. \E i \in 1 .. Len(q) : q[i] = y
    BY <1>1
  <2>2. SelectInSeq(q, LAMBDA v : v = y) = k
    BY <1>1 DEF SelectInSeq
  <2> QED
    BY <2>1, <2>2 DEF RemoveFirst, RemoveAt
<1> HIDE DEF k
<1>4. k \in 1 .. Len(q) /\ q[k] = y /\ k \in Nat /\ 1 <= k /\ k <= Len(q)
  BY <1>1, <1>2
<1> HIDE DEF I
<1>5. /\ a \in Seq(X) /\ Len(a) = k - 1 /\ \A i \in 1 .. k - 1 : a[i] = q[i]
      /\ b \in Seq(X) /\ Len(b) = Len(q) - k /\ \A i \in 1 .. Len(q) - k : b[i] = q[i + k]
  <2>1. a = [i \in 1 .. k - 1 |-> q[i]]
    BY <1>1, <1>4
  <2>2. a \in Seq(X) /\ Len(a) = k - 1 /\ \A i \in 1 .. k - 1 : a[i] = q[i]
    <3>1. \A i \in 1 .. k - 1 : q[i] \in X
      BY <1>1, <1>4
    <3> HIDE DEF a
    <3> QED
      BY <2>1, <3>1, <1>4
  <2>3. b = [i \in 1 .. Len(q) - k |-> q[i + k]]
    <3>1. b = [i \in 1 .. Len(q) - (k + 1) + 1 |-> q[k + 1 + i - 1]]
      BY <1>1, <1>4
    <3>2. Len(q) - (k + 1) + 1 = Len(q) - k /\ \A i \in 1 .. Len(q) - k : k + 1 + i - 1 = i + k
      BY <1>1, <1>4
    <3> HIDE DEF b
    <3> QED
      BY <3>1, <3>2
  <2>4. b \in Seq(X) /\ Len(b) = Len(q) - k /\ \A i \in 1 .. Len(q) - k : b[i] = q[i + k]
    <3>1. Len(q) - k \in Nat /\ \A i \in 1 .. Len(q) - k : q[i + k] \in X
      BY <1>1, <1>4
    <3> HIDE DEF b
    <3> QED
      BY <2>3, <3>1, <1>4
  <2> QED
    BY <2>2, <2>4
<1> HIDE DEF a, b
<1>6. q = Append(a, y) \o b
  <2> DEFINE s == Append(a, y) \o b
             m == Append(a, y)
  <2>1. m \in Seq(X) /\ Len(m) = k /\ m[k] = y /\ \A i \in 1 .. k - 1 : m[i] = q[i]
    BY <1>4, <1>5
  <2> HIDE DEF m
  <2>2. m \o b \in Seq(X) /\ Len(m \o b) = Len(q)
    <3>1. m \in Seq(X) /\ b \in Seq(X)
      BY <1>5, <2>1
    <3>2. m \o b \in Seq(X) /\ Len(m \o b) = Len(m) + Len(b)
      BY <3>1, ConcatFacts
    <3>3. k + (Len(q) - k) = Len(q)
      BY <1>1, <1>4
    <3> QED
      BY <3>2, <3>3, <1>5, <2>1
  <2> USE DEF m
  <2>3. ASSUME NEW i \in 1 .. Len(q) PROVE s[i] = q[i]
    <3>1. CASE i \in 1 .. k
      <4>1. s[i] = m[i]
        <5> HIDE DEF m
        <5>1. (m \o b)[i] = m[i]
          BY <3>1, <2>1, <1>4, <1>5
        <5> QED
          BY <5>1 DEF m
      <4>2. i = k \/ i \in 1 .. k - 1
        BY <3>1, <1>4
      <4> QED
        BY <4>1, <4>2, <2>1, <1>4
    <3>2. CASE i \notin 1 .. k
      <4>1. i - k \in 1 .. Len(q) - k /\ (i - k) + k = i
        BY <3>2, <1>1, <1>4
      <4>2. s[i] = b[i - k]
        <5> HIDE DEF m
        <5>1. (m \o b)[i] = b[i - k]
          BY <4>1, <3>2, <2>1, <1>1, <1>4, <1>5
        <5> QED
          BY <5>1 DEF m
      <4> QED
        BY <4>1, <4>2, <1>5
    <3> QED
      BY <3>1, <3>2
  <2>4. q = s
    <3>1. s \in Seq(X) /\ Len(s) = Len(q)
      BY <2>2
    <3> HIDE DEF s
    <3> QED
      BY <2>3, <3>1
  <2> QED
    BY <2>4 DEF s
<1>7. ASSUME NEW P PROVE Hits(q, P) = Hits(a \o b, P) + (IF y \in P THEN 1 ELSE 0)
  <2>1. Hits(q, P) = Hits(a, P) + (IF y \in P THEN 1 ELSE 0) + Hits(b, P)
    <3>1. Append(a, y) \in Seq(X)
      BY <1>5
    <3>2. Hits(Append(a, y) \o b, P) = Hits(Append(a, y), P) + Hits(b, P)
      BY <1>5, <3>1, HitsConcat
    <3>3. Hits(Append(a, y), P) = Hits(a, P) + (IF y \in P THEN 1 ELSE 0)
      BY <1>5, HitsAppend
    <3> QED
      BY <3>2, <3>3, <1>6
  <2>2. Hits(a \o b, P) = Hits(a, P) + Hits(b, P) /\ Hits(a, P) \in Nat /\ Hits(b, P) \in Nat
    BY <1>5, HitsConcat, HitsType
  <2> QED
    BY <2>1, <2>2
<1>8. a \o b \in Seq(X) /\ Len(a \o b) = Len(q) - 1 /\ DOMAIN (a \o b) = 1 .. Len(q) - 1
  <2>1. /\ a \o b \in Seq(X) /\ Len(a \o b) = (k - 1) + (Len(q) - k)
        /\ DOMAIN (a \o b) = 1 .. Len(a \o b)
    BY <1>5, ConcatFacts
  <2>2. (k - 1) + (Len(q) - k) = Len(q) - 1
    BY <1>1, <1>4
  <2> QED
    BY <2>1, <2>2
<1>9. ToSet(a \o b) \subseteq ToSet(q)
  <2> SUFFICES ASSUME NEW i \in 1 .. Len(q) - 1 PROVE \E j \in 1 .. Len(q) : (a \o b)[i] = q[j]
    BY <1>1, <1>8 DEF ToSet
  <2>1. CASE i \in 1 .. k - 1
    <3>1. (a \o b)[i] = q[i] /\ i \in 1 .. Len(q)
      BY <2>1, <1>1, <1>4, <1>5
    <3> QED
      BY <3>1
  <2>2. CASE i \notin 1 .. k - 1
    <3>1. (a \o b)[i] = b[i - (k - 1)] /\ i - (k - 1) \in 1 .. Len(q) - k
      BY <2>2, <1>1, <1>4, <1>5
    <3>2. (a \o b)[i] = q[(i - (k - 1)) + k]
      BY <3>1, <1>5
    <3> QED
      BY <3>2, <1>1, <1>4
  <2> QED
    BY <2>1, <2>2
<1> QED
  BY <1>3, <1>7, <1>8, <1>9

-----------------------------------------------------------------------------
(* What applying and unapplying VTBs does to the BTC tree.                  *)

VbkStates ==
    [refs : [VbkBlocks -> Int], ids : [VbkBlocks -> Seq(Vtbs)], tip : VbkBlocks,
     btc : [BtcBlocks -> [Heights -> Int]], ok : BOOLEAN]

\* r differs from s in its BTC references, by d, and in `ok` at most.
BtcMoved(r, s, d) ==
    /\ r \in VbkStates /\ r.refs = s.refs /\ r.ids = s.ids /\ r.tip = s.tip
    /\ d \in [BtcBlocks -> [Heights -> Int]]
    /\ \A c \in BtcBlocks : \A h \in Heights : r.btc[c][h] = s.btc[c][h] + d[c][h]

LEMMA StateFacts ==
    ASSUME NEW s \in VbkStates
    PROVE  /\ s.refs \in [VbkBlocks -> Int] /\ s.ids \in [VbkBlocks -> Seq(Vtbs)] /\ s.tip \in VbkBlocks
           /\ s.btc \in [BtcBlocks -> [Heights -> Int]] /\ s.ok \in BOOLEAN
           /\ s = [refs |-> s.refs, ids |-> s.ids, tip |-> s.tip, btc |-> s.btc, ok |-> s.ok]
BY DEF VbkStates

LEMMA AddBtcEffect ==
    ASSUME NEW s \in VbkStates, NEW c \in BtcBlocks, NEW h \in Heights
    PROVE  BtcMoved(AddBtc(s, c, h), s,
                    [b \in BtcBlocks |-> [k \in Heights |-> IF b = c /\ k = h THEN 1 ELSE 0]])
<1> DEFINE good == InBtc(s, c) \/ InBtc(s, BtcPrev[c])
           B == [s.btc EXCEPT ![c][h] = @ + 1]
           K == s.ok /\ good
<1>1. AddBtc(s, c, h) = [refs |-> s.refs, ids |-> s.ids, tip |-> s.tip, btc |-> B, ok |-> K]
  <2> DEFINE r == [s EXCEPT !.btc[c][h] = @ + 1]
  <2>1. r = [refs |-> s.refs, ids |-> s.ids, tip |-> s.tip, btc |-> B, ok |-> s.ok]
    <3>1. r = [s EXCEPT !.btc = B]
      BY StateFacts
    <3> HIDE DEF B, r
    <3> QED
      BY <3>1, StateFacts
  <2>2. AddBtc(s, c, h) = [r EXCEPT !.ok = K]
    <3>1. r.ok = s.ok
      BY <2>1
    <3> QED
      BY <3>1 DEF AddBtc
  <2> HIDE DEF r, K, B
  <2> QED
    BY <2>1, <2>2
<1>2. B \in [BtcBlocks -> [Heights -> Int]]
  BY StateFacts
<1>3. \A b \in BtcBlocks : \A k \in Heights :
        B[b][k] = s.btc[b][k] + (IF b = c /\ k = h THEN 1 ELSE 0)
  BY StateFacts
<1>4. K \in BOOLEAN
  BY StateFacts
<1> HIDE DEF B, K
<1> QED
  BY <1>1, <1>2, <1>3, <1>4, StateFacts DEF BtcMoved, VbkStates

LEMMA RemoveBtcEffect ==
    ASSUME NEW s \in VbkStates, NEW c \in BtcBlocks, NEW h \in Heights
    PROVE  BtcMoved(RemoveBtc(s, c, h), s,
                    [b \in BtcBlocks |-> [k \in Heights |-> IF b = c /\ k = h THEN -1 ELSE 0]])
<1> DEFINE B == [s.btc EXCEPT ![c][h] = @ - 1]
           r == [s EXCEPT !.btc[c][h] = @ - 1]
           K == /\ s.ok
                /\ s.btc[c][h] > 0
                /\ InBtc(r, c) \/ \A d \in BtcBlocks \ {BtcRoot} : BtcPrev[d] = c => ~InBtc(r, d)
<1>1. RemoveBtc(s, c, h) = [refs |-> s.refs, ids |-> s.ids, tip |-> s.tip, btc |-> B, ok |-> K]
  <2>1. r = [refs |-> s.refs, ids |-> s.ids, tip |-> s.tip, btc |-> B, ok |-> s.ok]
    <3>1. r = [s EXCEPT !.btc = B]
      BY StateFacts
    <3> HIDE DEF B, r
    <3> QED
      BY <3>1, StateFacts
  <2>2. RemoveBtc(s, c, h) = [r EXCEPT !.ok = K]
    <3>1. r.ok = s.ok
      BY <2>1
    <3> QED
      BY <3>1 DEF RemoveBtc
  <2> HIDE DEF r, K, B
  <2> QED
    BY <2>1, <2>2
<1>2. B \in [BtcBlocks -> [Heights -> Int]]
  BY StateFacts
<1>3. \A b \in BtcBlocks : \A k \in Heights :
        B[b][k] = s.btc[b][k] + (IF b = c /\ k = h THEN -1 ELSE 0)
  BY StateFacts
<1>4. K \in BOOLEAN
  BY StateFacts
<1> HIDE DEF B, K
<1> QED
  BY <1>1, <1>2, <1>3, <1>4, StateFacts DEF BtcMoved, VbkStates

\* The references that a VTB adds, and that its rollback takes away.
Added(y) ==
    [c \in BtcBlocks |-> [h \in Heights |->
        IF h = VbkHeight[Containing[y]] /\ c \in ToSet(BtcContext[y]) THEN 1 ELSE 0]]

Taken(y) ==
    [c \in BtcBlocks |-> [h \in Heights |->
        IF h = VbkHeight[Containing[y]] /\ c \in ToSet(BtcContext[y]) THEN -1 ELSE 0]]

LEMMA VtbFacts ==
    ASSUME NEW y \in Vtbs
    PROVE  /\ Containing[y] \in VbkBlocks /\ Containing[y] # VbkRoot /\ VbkHeight[Containing[y]] \in Heights
           /\ BtcContext[y] \in Seq(BtcBlocks) /\ BtcRoot \notin ToSet(BtcContext[y])
           /\ \A i, j \in 1 .. Len(BtcContext[y]) : BtcContext[y][i] = BtcContext[y][j] => i = j
<1>1. Containing[y] \in VbkBlocks /\ Containing[y] # VbkRoot /\ BtcContext[y] \in Seq(BtcBlocks \ {BtcRoot})
  BY VtbAssumption
<1>2. DOMAIN BtcContext[y] = 1 .. Len(BtcContext[y])
  BY <1>1
<1> QED
  BY <1>1, <1>2, VtbAssumption DEF Heights, ToSet

\* The states of the loop of ExecuteVtb.
LEMMA ExecuteVtbRun ==
    ASSUME NEW s \in VbkStates, NEW y \in Vtbs
    PROVE  \E f \in [0 .. Len(BtcContext[y]) -> VbkStates] :
              /\ f[0] = s /\ f[Len(BtcContext[y])] = ExecuteVtb(s, y)
              /\ \A i \in 1 .. Len(BtcContext[y]) : f[i] = AddBtc(f[i - 1], BtcContext[y][i], VbkHeight[Containing[y]])
<1> DEFINE q == BtcContext[y]
           n == Len(q)
           H == VbkHeight[Containing[y]]
           step == [i \in 1 .. n |-> [r \in VbkStates |-> AddBtc(r, q[i], H)]]
           u == CHOOSE g : g = [i \in 0 .. n |-> IF i = 0 THEN s ELSE AddBtc(g[i - 1], q[i], H)]
<1>1. n \in Nat /\ H \in Heights /\ \A i \in 1 .. n : q[i] \in BtcBlocks
  BY VtbFacts
<1>2. ExecuteVtb(s, y) = u[n]
  BY DEF ExecuteVtb
<1> HIDE DEF q, n, H
<1>3. \A r \in VbkStates : \A i \in 1 .. n : AddBtc(r, q[i], H) \in VbkStates
  BY <1>1, AddBtcEffect DEF BtcMoved
<1>4. AreSteps(VbkStates, n, step)
  BY <1>3 DEF AreSteps
<1>5. PICK f \in [0 .. n -> VbkStates] :
        /\ f[0] = s
        /\ \A i \in 1 .. n : f[i] = step[i][f[i - 1]]
  <2> HIDE DEF step
  <2>1. \E f : IsRun(f, VbkStates, n, s, step)
    BY <1>1, <1>4, Steps
  <2> QED
    BY <2>1 DEF IsRun
<1>6. \A i \in 1 .. n : i - 1 \in 0 .. n /\ i \in 0 .. n /\ i # 0
  BY <1>1
<1>7. \A i \in 1 .. n : f[i] = AddBtc(f[i - 1], q[i], H)
  BY <1>5, <1>6
<1>8. u = [i \in 0 .. n |-> IF i = 0 THEN s ELSE AddBtc(u[i - 1], q[i], H)]
  <2>1. f = [i \in 0 .. n |-> f[i]]
    OBVIOUS
  <2>2. \A i \in 0 .. n : f[i] = IF i = 0 THEN s ELSE AddBtc(f[i - 1], q[i], H)
    <3>1. \A i \in 0 .. n : i = 0 \/ i \in 1 .. n
      BY <1>1
    <3> QED
      BY <3>1, <1>5, <1>6, <1>7
  <2>3. f = [i \in 0 .. n |-> IF i = 0 THEN s ELSE AddBtc(f[i - 1], q[i], H)]
    BY <2>1, <2>2
  <2> QED
    BY <2>3
<1> HIDE DEF u, step
<1>9. u[n] = f[n]
  <2>1. u[0] = s /\ \A i \in 1 .. n : u[i] = AddBtc(u[i - 1], q[i], H)
    BY <1>1, <1>6, <1>8
  <2>2. \A i \in 1 .. n : u[i - 1] = f[i - 1] => u[i] = f[i]
    BY <2>1, <1>7
  <2>3. Follows(u, f, n)
    BY <2>1, <2>2, <1>5 DEF Follows
  <2> QED
    BY <2>3, <1>1, StepsSame
<1>10. f[n] = ExecuteVtb(s, y)
  BY <1>2, <1>9
<1> QED
  BY <1>5, <1>7, <1>10 DEF q, n, H

LEMMA ExecuteVtbEffect ==
    ASSUME NEW s \in VbkStates, NEW y \in Vtbs
    PROVE  BtcMoved(ExecuteVtb(s, y), s, Added(y))
<1> DEFINE q == BtcContext[y]
           n == Len(q)
           H == VbkHeight[Containing[y]]
           part(i) == [c \in BtcBlocks |-> [h \in Heights |->
                         IF h = H /\ \E j \in 1 .. i : q[j] = c THEN 1 ELSE 0]]
<1>1. /\ n \in Nat /\ H \in Heights /\ \A i \in 1 .. n : q[i] \in BtcBlocks
      /\ \A i, j \in 1 .. n : q[i] = q[j] => i = j
      /\ \A c : c \in ToSet(BtcContext[y]) <=> \E j \in 1 .. n : q[j] = c
  <2>1. q \in Seq(BtcBlocks) /\ DOMAIN q = 1 .. n /\ n \in Nat
    BY VtbFacts
  <2> QED
    BY <2>1, VtbFacts DEF ToSet
<1>5. PICK f \in [0 .. n -> VbkStates] :
        f[0] = s /\ f[n] = ExecuteVtb(s, y) /\ \A i \in 1 .. n : f[i] = AddBtc(f[i - 1], q[i], H)
  BY ExecuteVtbRun
<1> HIDE DEF q, n, H
<1>6. \A i \in 1 .. n : i - 1 \in 0 .. n /\ i \in 0 .. n /\ i # 0
  BY <1>1
<1>7. \A i \in 1 .. n : f[i] = AddBtc(f[i - 1], q[i], H)
  BY <1>5
<1> DEFINE G == {i \in 0 .. n : BtcMoved(f[i], s, part(i))}
<1>10. 0 \in G
  <2>1. part(0) = [c \in BtcBlocks |-> [h \in Heights |-> 0]]
    OBVIOUS
  <2> HIDE DEF part
  <2>2. BtcMoved(s, s, part(0))
    BY <2>1, StateFacts DEF BtcMoved
  <2> QED
    BY <2>2, <1>1, <1>5
<1>11. ASSUME NEW i \in 1 .. n, i - 1 \in G PROVE i \in G
  <2> DEFINE one == [b \in BtcBlocks |-> [k \in Heights |-> IF b = q[i] /\ k = H THEN 1 ELSE 0]]
  <2>1. BtcMoved(f[i - 1], s, part(i - 1)) /\ f[i - 1] \in VbkStates
    BY <1>6, <1>11
  <2>2. BtcMoved(f[i], f[i - 1], one)
    BY <1>1, <1>7, <2>1, AddBtcEffect
  <2>3. \A c \in BtcBlocks : \A h \in Heights : part(i)[c][h] = part(i - 1)[c][h] + one[c][h]
    <3> SUFFICES ASSUME NEW c \in BtcBlocks, NEW h \in Heights
                 PROVE  part(i)[c][h] = part(i - 1)[c][h] + one[c][h]
      OBVIOUS
    <3>1. \A j : j \in 1 .. i <=> j \in 1 .. i - 1 \/ j = i
      BY <1>1
    <3>2. q[i] = c => ~(\E j \in 1 .. i - 1 : q[j] = c)
      <4>1. \A j \in 1 .. i - 1 : j \in 1 .. n /\ j # i
        BY <1>1
      <4> QED
        BY <4>1, <1>1
    <3>3. (\E j \in 1 .. i : q[j] = c) <=> (\E j \in 1 .. i - 1 : q[j] = c) \/ q[i] = c
      BY <3>1
    <3> QED
      BY <3>2, <3>3
  <2>4. part(i) \in [BtcBlocks -> [Heights -> Int]]
    OBVIOUS
  <2> HIDE DEF part, one
  <2>5. BtcMoved(f[i], s, part(i))
    <3>1. /\ f[i] \in VbkStates /\ f[i].refs = s.refs /\ f[i].ids = s.ids /\ f[i].tip = s.tip
      BY <2>1, <2>2 DEF BtcMoved
    <3>2. ASSUME NEW c \in BtcBlocks, NEW h \in Heights
          PROVE  f[i].btc[c][h] = s.btc[c][h] + part(i)[c][h]
      <4>1. /\ f[i].btc[c][h] = f[i - 1].btc[c][h] + one[c][h]
            /\ f[i - 1].btc[c][h] = s.btc[c][h] + part(i - 1)[c][h]
        BY <2>1, <2>2 DEF BtcMoved
      <4>2. s.btc[c][h] \in Int /\ part(i - 1)[c][h] \in Int /\ one[c][h] \in Int
        BY <2>1, <2>2, StateFacts DEF BtcMoved
      <4> QED
        BY <4>1, <4>2, <2>3
    <3> QED
      BY <3>1, <3>2, <2>4 DEF BtcMoved
  <2> QED
    BY <2>5, <1>6
<1>12. BtcMoved(f[n], s, part(n))
  <2>1. \A i \in 0 .. n : i \in G
    <3> HIDE DEF G
    <3> QED
      BY <1>1, <1>10, <1>11, UpTo
  <2> QED
    BY <2>1, <1>1
<1>13. part(n) = Added(y)
  BY <1>1 DEF Added, H
<1> HIDE DEF part
<1> QED
  BY <1>5, <1>12, <1>13

\* The states of the loop of UnExecuteVtb.
LEMMA UnExecuteVtbRun ==
    ASSUME NEW s \in VbkStates, NEW y \in Vtbs
    PROVE  \E f \in [0 .. Len(Reverse(BtcContext[y])) -> VbkStates] :
              /\ f[0] = s /\ f[Len(Reverse(BtcContext[y]))] = UnExecuteVtb(s, y)
              /\ \A i \in 1 .. Len(Reverse(BtcContext[y])) : f[i] = RemoveBtc(f[i - 1], Reverse(BtcContext[y])[i], VbkHeight[Containing[y]])
<1> DEFINE q == Reverse(BtcContext[y])
           n == Len(q)
           H == VbkHeight[Containing[y]]
           step == [i \in 1 .. n |-> [r \in VbkStates |-> RemoveBtc(r, q[i], H)]]
           u == CHOOSE g : g = [i \in 0 .. n |-> IF i = 0 THEN s ELSE RemoveBtc(g[i - 1], q[i], H)]
<1>1. n \in Nat /\ H \in Heights /\ \A i \in 1 .. n : q[i] \in BtcBlocks
  <2>1. q \in Seq(BtcBlocks) /\ H \in Heights
    BY VtbFacts, ReverseFacts
  <2> HIDE DEF q
  <2> QED
    BY <2>1
<1>2. UnExecuteVtb(s, y) = u[n]
  BY DEF UnExecuteVtb
<1> HIDE DEF q, n, H
<1>3. \A r \in VbkStates : \A i \in 1 .. n : RemoveBtc(r, q[i], H) \in VbkStates
  BY <1>1, RemoveBtcEffect DEF BtcMoved
<1>4. AreSteps(VbkStates, n, step)
  BY <1>3 DEF AreSteps
<1>5. PICK f \in [0 .. n -> VbkStates] :
        /\ f[0] = s
        /\ \A i \in 1 .. n : f[i] = step[i][f[i - 1]]
  <2> HIDE DEF step
  <2>1. \E f : IsRun(f, VbkStates, n, s, step)
    BY <1>1, <1>4, Steps
  <2> QED
    BY <2>1 DEF IsRun
<1>6. \A i \in 1 .. n : i - 1 \in 0 .. n /\ i \in 0 .. n /\ i # 0
  BY <1>1
<1>7. \A i \in 1 .. n : f[i] = RemoveBtc(f[i - 1], q[i], H)
  BY <1>5, <1>6
<1>8. u = [i \in 0 .. n |-> IF i = 0 THEN s ELSE RemoveBtc(u[i - 1], q[i], H)]
  <2>1. f = [i \in 0 .. n |-> f[i]]
    OBVIOUS
  <2>2. \A i \in 0 .. n : f[i] = IF i = 0 THEN s ELSE RemoveBtc(f[i - 1], q[i], H)
    <3>1. \A i \in 0 .. n : i = 0 \/ i \in 1 .. n
      BY <1>1
    <3> QED
      BY <3>1, <1>5, <1>6, <1>7
  <2>3. f = [i \in 0 .. n |-> IF i = 0 THEN s ELSE RemoveBtc(f[i - 1], q[i], H)]
    BY <2>1, <2>2
  <2> QED
    BY <2>3
<1> HIDE DEF u, step
<1>9. u[n] = f[n]
  <2>1. u[0] = s /\ \A i \in 1 .. n : u[i] = RemoveBtc(u[i - 1], q[i], H)
    BY <1>1, <1>6, <1>8
  <2>2. \A i \in 1 .. n : u[i - 1] = f[i - 1] => u[i] = f[i]
    BY <2>1, <1>7
  <2>3. Follows(u, f, n)
    BY <2>1, <2>2, <1>5 DEF Follows
  <2> QED
    BY <2>3, <1>1, StepsSame
<1>10. f[n] = UnExecuteVtb(s, y)
  BY <1>2, <1>9
<1> QED
  BY <1>5, <1>7, <1>10 DEF q, n, H

LEMMA UnExecuteVtbEffect ==
    ASSUME NEW s \in VbkStates, NEW y \in Vtbs
    PROVE  BtcMoved(UnExecuteVtb(s, y), s, Taken(y))
<1> DEFINE q == Reverse(BtcContext[y])
           n == Len(q)
           H == VbkHeight[Containing[y]]
           part(i) == [c \in BtcBlocks |-> [h \in Heights |->
                         IF h = H /\ \E j \in 1 .. i : q[j] = c THEN -1 ELSE 0]]
<1>1. /\ n \in Nat /\ H \in Heights /\ \A i \in 1 .. n : q[i] \in BtcBlocks
      /\ \A i, j \in 1 .. n : q[i] = q[j] => i = j
      /\ \A c : c \in ToSet(BtcContext[y]) <=> \E j \in 1 .. n : q[j] = c
  <2> DEFINE x == BtcContext[y]
  <2>1. x \in Seq(BtcBlocks) /\ DOMAIN x = 1 .. Len(x) /\ Len(x) \in Nat
    BY VtbFacts
  <2>2. q = [i \in 1 .. Len(x) |-> x[(Len(x) - i) + 1]] /\ n = Len(x)
    BY <2>1, ReverseFacts DEF Reverse
  <2>3. \A i \in 1 .. n : (n - i) + 1 \in 1 .. n /\ (n - ((n - i) + 1)) + 1 = i
    BY <2>1, <2>2
  <2> HIDE DEF n, q
  <2>4. \A i \in 1 .. n : q[i] = x[(n - i) + 1] /\ q[(n - i) + 1] = x[i]
    BY <2>2, <2>3
  <2>5. \A i, j \in 1 .. n : q[i] = q[j] => i = j
    <3> SUFFICES ASSUME NEW i \in 1 .. n, NEW j \in 1 .. n, q[i] = q[j] PROVE i = j
      OBVIOUS
    <3>1. (n - i) + 1 = (n - j) + 1
      BY <2>2, <2>3, <2>4, VtbFacts
    <3> QED
      BY <3>1, <2>1, <2>2
  <2>6. \A c : c \in ToSet(x) <=> \E j \in 1 .. n : q[j] = c
    <3>1. ASSUME NEW j \in 1 .. n PROVE q[j] \in ToSet(x)
      BY <2>1, <2>2, <2>3, <2>4 DEF ToSet
    <3>2. ASSUME NEW c \in ToSet(x) PROVE \E j \in 1 .. n : q[j] = c
      <4>1. PICK k \in 1 .. n : c = x[k]
        BY <2>1, <2>2 DEF ToSet
      <4> QED
        BY <4>1, <2>3, <2>4
    <3> QED
      BY <3>1, <3>2
  <2> QED
    BY <2>1, <2>2, <2>3, <2>4, <2>5, <2>6, VtbFacts
<1>5. PICK f \in [0 .. n -> VbkStates] :
        f[0] = s /\ f[n] = UnExecuteVtb(s, y) /\ \A i \in 1 .. n : f[i] = RemoveBtc(f[i - 1], q[i], H)
  BY UnExecuteVtbRun
<1> HIDE DEF q, n, H
<1>6. \A i \in 1 .. n : i - 1 \in 0 .. n /\ i \in 0 .. n /\ i # 0
  BY <1>1
<1>7. \A i \in 1 .. n : f[i] = RemoveBtc(f[i - 1], q[i], H)
  BY <1>5
<1> DEFINE G == {i \in 0 .. n : BtcMoved(f[i], s, part(i))}
<1>10. 0 \in G
  <2>1. part(0) = [c \in BtcBlocks |-> [h \in Heights |-> 0]]
    OBVIOUS
  <2> HIDE DEF part
  <2>2. BtcMoved(s, s, part(0))
    BY <2>1, StateFacts DEF BtcMoved
  <2> QED
    BY <2>2, <1>1, <1>5
<1>11. ASSUME NEW i \in 1 .. n, i - 1 \in G PROVE i \in G
  <2> DEFINE one == [b \in BtcBlocks |-> [k \in Heights |-> IF b = q[i] /\ k = H THEN -1 ELSE 0]]
  <2>1. BtcMoved(f[i - 1], s, part(i - 1)) /\ f[i - 1] \in VbkStates
    BY <1>6, <1>11
  <2>2. BtcMoved(f[i], f[i - 1], one)
    BY <1>1, <1>7, <2>1, RemoveBtcEffect
  <2>3. \A c \in BtcBlocks : \A h \in Heights : part(i)[c][h] = part(i - 1)[c][h] + one[c][h]
    <3> SUFFICES ASSUME NEW c \in BtcBlocks, NEW h \in Heights
                 PROVE  part(i)[c][h] = part(i - 1)[c][h] + one[c][h]
      OBVIOUS
    <3>1. \A j : j \in 1 .. i <=> j \in 1 .. i - 1 \/ j = i
      BY <1>1
    <3>2. q[i] = c => ~(\E j \in 1 .. i - 1 : q[j] = c)
      <4>1. \A j \in 1 .. i - 1 : j \in 1 .. n /\ j # i
        BY <1>1
      <4> QED
        BY <4>1, <1>1
    <3>3. (\E j \in 1 .. i : q[j] = c) <=> (\E j \in 1 .. i - 1 : q[j] = c) \/ q[i] = c
      BY <3>1
    <3> QED
      BY <3>2, <3>3
  <2>4. part(i) \in [BtcBlocks -> [Heights -> Int]]
    OBVIOUS
  <2> HIDE DEF part, one
  <2>5. BtcMoved(f[i], s, part(i))
    <3>1. /\ f[i] \in VbkStates /\ f[i].refs = s.refs /\ f[i].ids = s.ids /\ f[i].tip = s.tip
      BY <2>1, <2>2 DEF BtcMoved
    <3>2. ASSUME NEW c \in BtcBlocks, NEW h \in Heights
          PROVE  f[i].btc[c][h] = s.btc[c][h] + part(i)[c][h]
      <4>1. /\ f[i].btc[c][h] = f[i - 1].btc[c][h] + one[c][h]
            /\ f[i - 1].btc[c][h] = s.btc[c][h] + part(i - 1)[c][h]
        BY <2>1, <2>2 DEF BtcMoved
      <4>2. s.btc[c][h] \in Int /\ part(i - 1)[c][h] \in Int /\ one[c][h] \in Int
        BY <2>1, <2>2, StateFacts DEF BtcMoved
      <4> QED
        BY <4>1, <4>2, <2>3
    <3> QED
      BY <3>1, <3>2, <2>4 DEF BtcMoved
  <2> QED
    BY <2>5, <1>6
<1>12. BtcMoved(f[n], s, part(n))
  <2>1. \A i \in 0 .. n : i \in G
    <3> HIDE DEF G
    <3> QED
      BY <1>1, <1>10, <1>11, UpTo
  <2> QED
    BY <2>1, <1>1
<1>13. part(n) = Taken(y)
  BY <1>1 DEF Taken, H
<1> HIDE DEF part
<1> QED
  BY <1>5, <1>12, <1>13

\* The VTBs that refer to a BTC block.
Refers(c) == {y \in Vtbs : c \in ToSet(BtcContext[y])}

\* The references that the VTBs q of the VBK block v make.
AddedBy(q, v) ==
    [c \in BtcBlocks |-> [h \in Heights |-> IF h = VbkHeight[v] THEN Hits(q, Refers(c)) ELSE 0]]

TakenBy(q, v) ==
    [c \in BtcBlocks |-> [h \in Heights |-> IF h = VbkHeight[v] THEN -Hits(q, Refers(c)) ELSE 0]]

HitsUpTo(q, i, P) == Cardinality({j \in 1 .. i : q[j] \in P})

LEMMA HitsUpToFacts ==
    ASSUME NEW q, NEW P
    PROVE  /\ HitsUpTo(q, 0, P) = 0
           /\ \A i \in Nat : HitsUpTo(q, i, P) \in Nat
           /\ \A i \in Nat \ {0} :
                 HitsUpTo(q, i, P) = HitsUpTo(q, i - 1, P) + (IF q[i] \in P THEN 1 ELSE 0)
<1> DEFINE S(i) == {j \in 1 .. i : q[j] \in P}
<1>1. S(0) = {}
  OBVIOUS
<1>2. ASSUME NEW i \in Nat PROVE IsFiniteSet(S(i)) /\ Cardinality(S(i)) \in Nat
  <2>1. IsFiniteSet(1 .. i) /\ S(i) \in SUBSET (1 .. i)
    BY FS_Interval
  <2> QED
    BY <2>1, FS_Subset, FS_CardinalityType
<1>3. ASSUME NEW i \in Nat \ {0}
      PROVE  Cardinality(S(i)) = Cardinality(S(i - 1)) + (IF q[i] \in P THEN 1 ELSE 0)
  <2>1. i - 1 \in Nat /\ i \notin 1 .. i - 1 /\ \A j : j \in 1 .. i <=> j \in 1 .. i - 1 \/ j = i
    OBVIOUS
  <2>2. S(i) = IF q[i] \in P THEN S(i - 1) \cup {i} ELSE S(i - 1)
    BY <2>1
  <2>3. i \notin S(i - 1) /\ IsFiniteSet(S(i - 1)) /\ Cardinality(S(i - 1)) \in Nat
    BY <2>1, <1>2
  <2> HIDE DEF S
  <2>4. Cardinality(S(i - 1) \cup {i}) = Cardinality(S(i - 1)) + 1
    BY <2>3, FS_AddElement
  <2> QED
    BY <2>2, <2>3, <2>4
<1> QED
  BY <1>1, <1>2, <1>3, FS_EmptySet DEF HitsUpTo

\* The states of the loop of ApplyVbk.
LEMMA ApplyVbkRun ==
    ASSUME NEW s \in VbkStates, NEW v \in VbkBlocks
    PROVE  \E f \in [0 .. Len(s.ids[v]) -> VbkStates] :
              /\ f[0] = s /\ f[Len(s.ids[v])] = ApplyVbk(s, v)
              /\ \A i \in 1 .. Len(s.ids[v]) : f[i] = ExecuteVtb(f[i - 1], s.ids[v][i])
<1> DEFINE q == s.ids[v]
           n == Len(q)
           step == [i \in 1 .. n |-> [r \in VbkStates |-> ExecuteVtb(r, q[i])]]
           u == CHOOSE g : g = [i \in 0 .. n |-> IF i = 0 THEN s ELSE ExecuteVtb(g[i - 1], q[i])]
<1>1. n \in Nat /\ \A i \in 1 .. n : q[i] \in Vtbs
  BY StateFacts
<1>2. ApplyVbk(s, v) = u[n]
  BY DEF ApplyVbk
<1> HIDE DEF q, n
<1>3. \A r \in VbkStates : \A i \in 1 .. n : ExecuteVtb(r, q[i]) \in VbkStates
  BY <1>1, ExecuteVtbEffect DEF BtcMoved
<1>4. AreSteps(VbkStates, n, step)
  BY <1>3 DEF AreSteps
<1>5. PICK f \in [0 .. n -> VbkStates] :
        /\ f[0] = s
        /\ \A i \in 1 .. n : f[i] = step[i][f[i - 1]]
  <2> HIDE DEF step
  <2>1. \E f : IsRun(f, VbkStates, n, s, step)
    BY <1>1, <1>4, Steps
  <2> QED
    BY <2>1 DEF IsRun
<1>6. \A i \in 1 .. n : i - 1 \in 0 .. n /\ i \in 0 .. n /\ i # 0 /\ i \in Nat /\ i - 1 \in Nat
  BY <1>1
<1>7. \A i \in 1 .. n : f[i] = ExecuteVtb(f[i - 1], q[i])
  BY <1>5, <1>6
<1>8. u = [i \in 0 .. n |-> IF i = 0 THEN s ELSE ExecuteVtb(u[i - 1], q[i])]
  <2>1. f = [i \in 0 .. n |-> f[i]]
    OBVIOUS
  <2>2. \A i \in 0 .. n : f[i] = IF i = 0 THEN s ELSE ExecuteVtb(f[i - 1], q[i])
    <3>1. \A i \in 0 .. n : i = 0 \/ i \in 1 .. n
      BY <1>1
    <3> QED
      BY <3>1, <1>5, <1>6, <1>7
  <2>3. f = [i \in 0 .. n |-> IF i = 0 THEN s ELSE ExecuteVtb(f[i - 1], q[i])]
    BY <2>1, <2>2
  <2> QED
    BY <2>3
<1> HIDE DEF u, step
<1>9. u[n] = f[n]
  <2>1. u[0] = s /\ \A i \in 1 .. n : u[i] = ExecuteVtb(u[i - 1], q[i])
    BY <1>1, <1>6, <1>8
  <2>2. \A i \in 1 .. n : u[i - 1] = f[i - 1] => u[i] = f[i]
    BY <2>1, <1>7
  <2>3. Follows(u, f, n)
    BY <2>1, <2>2, <1>5 DEF Follows
  <2> QED
    BY <2>3, <1>1, StepsSame
<1>10. f[n] = ApplyVbk(s, v)
  BY <1>2, <1>9
<1> QED
  BY <1>5, <1>7, <1>10 DEF q, n

LEMMA ApplyVbkEffect ==
    ASSUME NEW s \in VbkStates, NEW v \in VbkBlocks, \A y \in ToSet(s.ids[v]) : Containing[y] = v
    PROVE  BtcMoved(ApplyVbk(s, v), s, AddedBy(s.ids[v], v))
<1> DEFINE q == s.ids[v]
           n == Len(q)
           H == VbkHeight[v]
           part(i) == [c \in BtcBlocks |-> [h \in Heights |->
                         IF h = H THEN HitsUpTo(q, i, Refers(c)) ELSE 0]]
<1>1. /\ n \in Nat /\ \A i \in 1 .. n : q[i] \in Vtbs /\ Containing[q[i]] = v
      /\ \A P : HitsUpTo(q, n, P) = Hits(s.ids[v], P)
  <2>1. q \in Seq(Vtbs) /\ DOMAIN q = 1 .. n /\ n \in Nat
    BY StateFacts
  <2> QED
    BY <2>1 DEF ToSet, HitsUpTo, Hits, HitsOf
<1>5. PICK f \in [0 .. n -> VbkStates] :
        f[0] = s /\ f[n] = ApplyVbk(s, v) /\ \A i \in 1 .. n : f[i] = ExecuteVtb(f[i - 1], q[i])
  BY ApplyVbkRun
<1> HIDE DEF q, n, H
<1>6. \A i \in 1 .. n : i - 1 \in 0 .. n /\ i \in 0 .. n /\ i # 0 /\ i \in Nat /\ i - 1 \in Nat
  BY <1>1
<1>7. \A i \in 1 .. n : f[i] = ExecuteVtb(f[i - 1], q[i])
  BY <1>5
<1> DEFINE G == {i \in 0 .. n : BtcMoved(f[i], s, part(i))}
<1>10. 0 \in G
  <2>1. part(0) = [c \in BtcBlocks |-> [h \in Heights |-> 0]]
    BY HitsUpToFacts
  <2> HIDE DEF part
  <2>2. BtcMoved(s, s, part(0))
    BY <2>1, StateFacts DEF BtcMoved
  <2> QED
    BY <2>2, <1>1, <1>5
<1>11. ASSUME NEW i \in 1 .. n, i - 1 \in G PROVE i \in G
  <2>1. BtcMoved(f[i - 1], s, part(i - 1)) /\ f[i - 1] \in VbkStates
    BY <1>6, <1>11
  <2>2. BtcMoved(f[i], f[i - 1], Added(q[i]))
    BY <1>1, <1>7, <2>1, ExecuteVtbEffect
  <2>3. \A c \in BtcBlocks : \A h \in Heights : part(i)[c][h] = part(i - 1)[c][h] + Added(q[i])[c][h]
    <3> SUFFICES ASSUME NEW c \in BtcBlocks, NEW h \in Heights
                 PROVE  part(i)[c][h] = part(i - 1)[c][h] + Added(q[i])[c][h]
      OBVIOUS
    <3>1. Added(q[i])[c][h] = IF h = H /\ q[i] \in Refers(c) THEN 1 ELSE 0
      BY <1>1 DEF Added, Refers, H
    <3>2. /\ HitsUpTo(q, i, Refers(c)) = HitsUpTo(q, i - 1, Refers(c)) + (IF q[i] \in Refers(c) THEN 1 ELSE 0)
          /\ HitsUpTo(q, i - 1, Refers(c)) \in Nat
      <4>1. i \in Nat \ {0} /\ i - 1 \in Nat
        BY <1>6
      <4>2. /\ \A k \in Nat : HitsUpTo(q, k, Refers(c)) \in Nat
            /\ \A k \in Nat \ {0} : HitsUpTo(q, k, Refers(c)) =
                   HitsUpTo(q, k - 1, Refers(c)) + (IF q[k] \in Refers(c) THEN 1 ELSE 0)
        BY HitsUpToFacts
      <4> QED
        BY <4>1, <4>2
    <3> QED
      BY <3>1, <3>2
  <2>4. part(i) \in [BtcBlocks -> [Heights -> Int]]
    <3>1. \A c \in BtcBlocks : HitsUpTo(q, i, Refers(c)) \in Nat
      BY <1>6, HitsUpToFacts
    <3> QED
      BY <3>1
  <2> HIDE DEF part
  <2>5. BtcMoved(f[i], s, part(i))
    <3>1. /\ f[i] \in VbkStates /\ f[i].refs = s.refs /\ f[i].ids = s.ids /\ f[i].tip = s.tip
      BY <2>1, <2>2 DEF BtcMoved
    <3>2. ASSUME NEW c \in BtcBlocks, NEW h \in Heights
          PROVE  f[i].btc[c][h] = s.btc[c][h] + part(i)[c][h]
      <4>1. /\ f[i].btc[c][h] = f[i - 1].btc[c][h] + Added(q[i])[c][h]
            /\ f[i - 1].btc[c][h] = s.btc[c][h] + part(i - 1)[c][h]
        BY <2>1, <2>2 DEF BtcMoved
      <4>2. s.btc[c][h] \in Int /\ part(i - 1)[c][h] \in Int /\ Added(q[i])[c][h] \in Int
        BY <2>1, <2>2, StateFacts DEF BtcMoved
      <4> QED
        BY <4>1, <4>2, <2>3
    <3> QED
      BY <3>1, <3>2, <2>4 DEF BtcMoved
  <2> QED
    BY <2>5, <1>6
<1>12. BtcMoved(f[n], s, part(n))
  <2>1. \A i \in 0 .. n : i \in G
    <3> HIDE DEF G
    <3> QED
      BY <1>1, <1>10, <1>11, UpTo
  <2> QED
    BY <2>1, <1>1
<1>13. part(n) = AddedBy(s.ids[v], v)
  BY <1>1 DEF AddedBy, H
<1> HIDE DEF part
<1> QED
  BY <1>5, <1>12, <1>13

\* The states of the loop of UnapplyVbk.
LEMMA UnapplyVbkRun ==
    ASSUME NEW s \in VbkStates, NEW v \in VbkBlocks
    PROVE  \E f \in [0 .. Len(Reverse(s.ids[v])) -> VbkStates] :
              /\ f[0] = s /\ f[Len(Reverse(s.ids[v]))] = UnapplyVbk(s, v)
              /\ \A i \in 1 .. Len(Reverse(s.ids[v])) : f[i] = UnExecuteVtb(f[i - 1], Reverse(s.ids[v])[i])
<1> DEFINE q == Reverse(s.ids[v])
           n == Len(q)
           step == [i \in 1 .. n |-> [r \in VbkStates |-> UnExecuteVtb(r, q[i])]]
           u == CHOOSE g : g = [i \in 0 .. n |-> IF i = 0 THEN s ELSE UnExecuteVtb(g[i - 1], q[i])]
<1>1. n \in Nat /\ \A i \in 1 .. n : q[i] \in Vtbs
  <2>1. q \in Seq(Vtbs)
    BY StateFacts, ReverseFacts
  <2> HIDE DEF q
  <2> QED
    BY <2>1
<1>2. UnapplyVbk(s, v) = u[n]
  BY DEF UnapplyVbk
<1> HIDE DEF q, n
<1>3. \A r \in VbkStates : \A i \in 1 .. n : UnExecuteVtb(r, q[i]) \in VbkStates
  BY <1>1, UnExecuteVtbEffect DEF BtcMoved
<1>4. AreSteps(VbkStates, n, step)
  BY <1>3 DEF AreSteps
<1>5. PICK f \in [0 .. n -> VbkStates] :
        /\ f[0] = s
        /\ \A i \in 1 .. n : f[i] = step[i][f[i - 1]]
  <2> HIDE DEF step
  <2>1. \E f : IsRun(f, VbkStates, n, s, step)
    BY <1>1, <1>4, Steps
  <2> QED
    BY <2>1 DEF IsRun
<1>6. \A i \in 1 .. n : i - 1 \in 0 .. n /\ i \in 0 .. n /\ i # 0 /\ i \in Nat /\ i - 1 \in Nat
  BY <1>1
<1>7. \A i \in 1 .. n : f[i] = UnExecuteVtb(f[i - 1], q[i])
  BY <1>5, <1>6
<1>8. u = [i \in 0 .. n |-> IF i = 0 THEN s ELSE UnExecuteVtb(u[i - 1], q[i])]
  <2>1. f = [i \in 0 .. n |-> f[i]]
    OBVIOUS
  <2>2. \A i \in 0 .. n : f[i] = IF i = 0 THEN s ELSE UnExecuteVtb(f[i - 1], q[i])
    <3>1. \A i \in 0 .. n : i = 0 \/ i \in 1 .. n
      BY <1>1
    <3> QED
      BY <3>1, <1>5, <1>6, <1>7
  <2>3. f = [i \in 0 .. n |-> IF i = 0 THEN s ELSE UnExecuteVtb(f[i - 1], q[i])]
    BY <2>1, <2>2
  <2> QED
    BY <2>3
<1> HIDE DEF u, step
<1>9. u[n] = f[n]
  <2>1. u[0] = s /\ \A i \in 1 .. n : u[i] = UnExecuteVtb(u[i - 1], q[i])
    BY <1>1, <1>6, <1>8
  <2>2. \A i \in 1 .. n : u[i - 1] = f[i - 1] => u[i] = f[i]
    BY <2>1, <1>7
  <2>3. Follows(u, f, n)
    BY <2>1, <2>2, <1>5 DEF Follows
  <2> QED
    BY <2>3, <1>1, StepsSame
<1>10. f[n] = UnapplyVbk(s, v)
  BY <1>2, <1>9
<1> QED
  BY <1>5, <1>7, <1>10 DEF q, n

LEMMA UnapplyVbkEffect ==
    ASSUME NEW s \in VbkStates, NEW v \in VbkBlocks, \A y \in ToSet(s.ids[v]) : Containing[y] = v
    PROVE  BtcMoved(UnapplyVbk(s, v), s, TakenBy(s.ids[v], v))
<1> DEFINE q == Reverse(s.ids[v])
           n == Len(q)
           H == VbkHeight[v]
           part(i) == [c \in BtcBlocks |-> [h \in Heights |->
                         IF h = H THEN -HitsUpTo(q, i, Refers(c)) ELSE 0]]
<1>1. /\ n \in Nat /\ \A i \in 1 .. n : q[i] \in Vtbs /\ Containing[q[i]] = v
      /\ \A P : HitsUpTo(q, n, P) = Hits(s.ids[v], P)
  <2> DEFINE x == s.ids[v]
  <2>1. x \in Seq(Vtbs) /\ DOMAIN x = 1 .. Len(x) /\ Len(x) \in Nat
    BY StateFacts
  <2>2. /\ q = [i \in 1 .. Len(x) |-> x[(Len(x) - i) + 1]] /\ n = Len(x)
        /\ \A P : Hits(q, P) = Hits(x, P)
    BY <2>1, ReverseFacts DEF Reverse
  <2>3. \A i \in 1 .. n : (n - i) + 1 \in 1 .. n
    BY <2>1, <2>2
  <2>4. \A i \in 1 .. n : q[i] \in ToSet(x) /\ q[i] \in Vtbs
    <3> SUFFICES ASSUME NEW i \in 1 .. n PROVE q[i] \in ToSet(x) /\ q[i] \in Vtbs
      OBVIOUS
    <3>1. (n - i) + 1 \in DOMAIN x /\ q[i] = x[(n - i) + 1]
      <4> HIDE DEF q, n
      <4> QED
        BY <2>1, <2>2, <2>3
    <3>2. \A k \in DOMAIN x : x[k] \in ToSet(x) /\ x[k] \in Vtbs
      BY <2>1 DEF ToSet
    <3> QED
      BY <3>1, <3>2
  <2>5. \A P : HitsUpTo(q, n, P) = Hits(q, P)
    BY <2>2 DEF HitsUpTo, Hits, HitsOf
  <2> HIDE DEF n, q
  <2> QED
    BY <2>1, <2>2, <2>4, <2>5
<1>5. PICK f \in [0 .. n -> VbkStates] :
        f[0] = s /\ f[n] = UnapplyVbk(s, v) /\ \A i \in 1 .. n : f[i] = UnExecuteVtb(f[i - 1], q[i])
  BY UnapplyVbkRun
<1> HIDE DEF q, n, H
<1>6. \A i \in 1 .. n : i - 1 \in 0 .. n /\ i \in 0 .. n /\ i # 0 /\ i \in Nat /\ i - 1 \in Nat
  BY <1>1
<1>7. \A i \in 1 .. n : f[i] = UnExecuteVtb(f[i - 1], q[i])
  BY <1>5
<1> DEFINE G == {i \in 0 .. n : BtcMoved(f[i], s, part(i))}
<1>10. 0 \in G
  <2>1. part(0) = [c \in BtcBlocks |-> [h \in Heights |-> 0]]
    BY HitsUpToFacts
  <2> HIDE DEF part
  <2>2. BtcMoved(s, s, part(0))
    BY <2>1, StateFacts DEF BtcMoved
  <2> QED
    BY <2>2, <1>1, <1>5
<1>11. ASSUME NEW i \in 1 .. n, i - 1 \in G PROVE i \in G
  <2>1. BtcMoved(f[i - 1], s, part(i - 1)) /\ f[i - 1] \in VbkStates
    BY <1>6, <1>11
  <2>2. BtcMoved(f[i], f[i - 1], Taken(q[i]))
    BY <1>1, <1>7, <2>1, UnExecuteVtbEffect
  <2>3. \A c \in BtcBlocks : \A h \in Heights : part(i)[c][h] = part(i - 1)[c][h] + Taken(q[i])[c][h]
    <3> SUFFICES ASSUME NEW c \in BtcBlocks, NEW h \in Heights
                 PROVE  part(i)[c][h] = part(i - 1)[c][h] + Taken(q[i])[c][h]
      OBVIOUS
    <3>1. Taken(q[i])[c][h] = IF h = H /\ q[i] \in Refers(c) THEN -1 ELSE 0
      BY <1>1 DEF Taken, Refers, H
    <3>2. /\ HitsUpTo(q, i, Refers(c)) = HitsUpTo(q, i - 1, Refers(c)) + (IF q[i] \in Refers(c) THEN 1 ELSE 0)
          /\ HitsUpTo(q, i - 1, Refers(c)) \in Nat
      <4>1. i \in Nat \ {0} /\ i - 1 \in Nat
        BY <1>6
      <4>2. /\ \A k \in Nat : HitsUpTo(q, k, Refers(c)) \in Nat
            /\ \A k \in Nat \ {0} : HitsUpTo(q, k, Refers(c)) =
                   HitsUpTo(q, k - 1, Refers(c)) + (IF q[k] \in Refers(c) THEN 1 ELSE 0)
        BY HitsUpToFacts
      <4> QED
        BY <4>1, <4>2
    <3> QED
      BY <3>1, <3>2
  <2>4. part(i) \in [BtcBlocks -> [Heights -> Int]]
    <3>1. \A c \in BtcBlocks : HitsUpTo(q, i, Refers(c)) \in Nat
      BY <1>6, HitsUpToFacts
    <3> QED
      BY <3>1
  <2> HIDE DEF part
  <2>5. BtcMoved(f[i], s, part(i))
    <3>1. /\ f[i] \in VbkStates /\ f[i].refs = s.refs /\ f[i].ids = s.ids /\ f[i].tip = s.tip
      BY <2>1, <2>2 DEF BtcMoved
    <3>2. ASSUME NEW c \in BtcBlocks, NEW h \in Heights
          PROVE  f[i].btc[c][h] = s.btc[c][h] + part(i)[c][h]
      <4>1. /\ f[i].btc[c][h] = f[i - 1].btc[c][h] + Taken(q[i])[c][h]
            /\ f[i - 1].btc[c][h] = s.btc[c][h] + part(i - 1)[c][h]
        BY <2>1, <2>2 DEF BtcMoved
      <4>2. s.btc[c][h] \in Int /\ part(i - 1)[c][h] \in Int /\ Taken(q[i])[c][h] \in Int
        BY <2>1, <2>2, StateFacts DEF BtcMoved
      <4> QED
        BY <4>1, <4>2, <2>3
    <3> QED
      BY <3>1, <3>2, <2>4 DEF BtcMoved
  <2> QED
    BY <2>5, <1>6
<1>12. BtcMoved(f[n], s, part(n))
  <2>1. \A i \in 0 .. n : i \in G
    <3> HIDE DEF G
    <3> QED
      BY <1>1, <1>10, <1>11, UpTo
  <2> QED
    BY <2>1, <1>1
<1>13. part(n) = TakenBy(s.ids[v], v)
  BY <1>1 DEF TakenBy, H
<1> HIDE DEF part
<1> QED
  BY <1>5, <1>12, <1>13

-----------------------------------------------------------------------------
(* VBK chains.                                                              *)

LEMMA VbkChainFacts ==
    /\ VbkRoot \in VbkBlocks
    /\ \A v \in VbkBlocks :
          /\ v \in VbkAncestors[v] /\ VbkAncestors[v] \subseteq VbkBlocks /\ VbkRoot \in VbkAncestors[v]
          /\ VbkHeight[v] \in Nat /\ VbkHeight[v] \in Heights
    /\ \A v \in VbkBlocks : \A a \in VbkAncestors[v] : VbkAncestors[a] \subseteq VbkAncestors[v]
    /\ \A v \in VbkBlocks : \A a \in VbkAncestors[v] :
          VbkHeight[VbkRoot] <= VbkHeight[a] /\ VbkHeight[a] <= VbkHeight[v]
    /\ \A v \in VbkBlocks : \A a, b \in VbkAncestors[v] : VbkHeight[a] = VbkHeight[b] => a = b
<1>1. VbkRoot \in VbkBlocks
  BY VbkAssumption
<1>2. \A v \in VbkBlocks :
          /\ v \in VbkAncestors[v] /\ VbkAncestors[v] \subseteq VbkBlocks /\ VbkRoot \in VbkAncestors[v]
          /\ VbkHeight[v] \in Nat /\ VbkHeight[v] \in Heights
  BY VbkAssumption, VbkChainAssumption DEF Heights
<1>3. \A v \in VbkBlocks : \A a \in VbkAncestors[v] : VbkAncestors[a] \subseteq VbkAncestors[v]
  BY VbkChainAssumption
<1>4. \A v \in VbkBlocks : \A a, b \in VbkAncestors[v] :
          a \in VbkAncestors[b] <=> VbkHeight[a] <= VbkHeight[b]
  BY VbkChainAssumption
<1>5. \A v \in VbkBlocks : \A a \in VbkAncestors[v] :
          VbkHeight[VbkRoot] <= VbkHeight[a] /\ VbkHeight[a] <= VbkHeight[v]
  BY <1>2, <1>4
<1>6. \A v \in VbkBlocks : \A a \in VbkAncestors[v] : v \in VbkAncestors[a] => a = v
  <2> SUFFICES ASSUME NEW v \in VbkBlocks, NEW a \in VbkAncestors[v], v \in VbkAncestors[a], a # v
               PROVE  FALSE
    OBVIOUS
  <2>1. v # VbkRoot /\ VbkPrev[v] \in VbkBlocks /\ a \in VbkAncestors[VbkPrev[v]]
    BY VbkAssumption, VbkChainAssumption
  <2>2. /\ VbkHeight[a] <= VbkHeight[VbkPrev[v]] /\ VbkHeight[v] <= VbkHeight[a]
        /\ VbkHeight[v] = VbkHeight[VbkPrev[v]] + 1
    BY <2>1, <1>2, <1>5, VbkChainAssumption
  <2>3. VbkHeight[a] \in Nat /\ VbkHeight[v] \in Nat /\ VbkHeight[VbkPrev[v]] \in Nat
    BY <2>1, <1>2
  <2> QED
    BY <2>2, <2>3
<1>7. \A v \in VbkBlocks : \A a, b \in VbkAncestors[v] : VbkHeight[a] = VbkHeight[b] => a = b
  <2> SUFFICES ASSUME NEW v \in VbkBlocks, NEW a \in VbkAncestors[v], NEW b \in VbkAncestors[v],
                      VbkHeight[a] = VbkHeight[b]
               PROVE  a = b
    OBVIOUS
  <2>1. a \in VbkBlocks /\ b \in VbkBlocks /\ VbkHeight[a] \in Nat
    BY <1>2
  <2>2. VbkHeight[a] <= VbkHeight[b] /\ VbkHeight[b] <= VbkHeight[a]
    BY <2>1
  <2>3. a \in VbkAncestors[b] /\ b \in VbkAncestors[a]
    BY <2>2, <1>4
  <2> QED
    BY <2>1, <2>3, <1>6
<1> QED
  BY <1>1, <1>2, <1>3, <1>5, <1>7

ChainHeights(v) == VbkHeight[VbkRoot] .. VbkHeight[v]

LEMMA VbkBlockAtFacts ==
    ASSUME NEW v \in VbkBlocks
    PROVE  /\ \A h \in ChainHeights(v) :
                 /\ VbkBlockAt(v, h) \in VbkAncestors[v] /\ VbkBlockAt(v, h) \in VbkBlocks
                 /\ VbkHeight[VbkBlockAt(v, h)] = h /\ h \in Heights /\ h \in Nat
           /\ \A a \in VbkAncestors[v] : VbkHeight[a] \in ChainHeights(v) /\ VbkBlockAt(v, VbkHeight[a]) = a
<1>1. ASSUME NEW h \in ChainHeights(v)
      PROVE  /\ VbkBlockAt(v, h) \in VbkAncestors[v] /\ VbkBlockAt(v, h) \in VbkBlocks
             /\ VbkHeight[VbkBlockAt(v, h)] = h /\ h \in Heights /\ h \in Nat
  <2>1. \E a \in VbkAncestors[v] : VbkHeight[a] = h
    BY VbkChainAssumption DEF ChainHeights
  <2>2. VbkBlockAt(v, h) \in VbkAncestors[v] /\ VbkHeight[VbkBlockAt(v, h)] = h
    BY <2>1 DEF VbkBlockAt
  <2> QED
    BY <2>2, VbkChainFacts
<1>2. ASSUME NEW a \in VbkAncestors[v]
      PROVE  VbkHeight[a] \in ChainHeights(v) /\ VbkBlockAt(v, VbkHeight[a]) = a
  <2>1. a \in VbkBlocks /\ VbkHeight[a] \in Nat /\ VbkHeight[v] \in Nat /\ VbkHeight[VbkRoot] \in Nat
    BY VbkChainFacts
  <2>2. VbkHeight[VbkRoot] <= VbkHeight[a] /\ VbkHeight[a] <= VbkHeight[v]
    BY VbkChainFacts
  <2>3. VbkHeight[a] \in ChainHeights(v)
    BY <2>1, <2>2 DEF ChainHeights
  <2>4. VbkBlockAt(v, VbkHeight[a]) \in VbkAncestors[v] /\ VbkHeight[VbkBlockAt(v, VbkHeight[a])] = VbkHeight[a]
    BY <2>3, <1>1
  <2> QED
    BY <2>3, <2>4, VbkChainFacts
<1> QED
  BY <1>1, <1>2

\* Two chains have the same blocks up to their fork.
LEMMA VbkForkFacts ==
    ASSUME NEW t \in VbkBlocks, NEW c \in VbkBlocks
    PROVE  /\ VbkForkHeight(t, c) \in ChainHeights(t) /\ VbkForkHeight(t, c) \in ChainHeights(c)
           /\ \A h \in VbkHeight[VbkRoot] .. VbkForkHeight(t, c) : VbkBlockAt(t, h) = VbkBlockAt(c, h)
<1> DEFINE common == {VbkHeight[v] : v \in VbkAncestors[t] \cap VbkAncestors[c]}
           f == VbkForkHeight(t, c)
           D == {d \in Nat : VbkHeight[t] - d \in common}
<1>1. VbkHeight[t] \in Nat /\ VbkHeight[VbkRoot] \in Nat /\ VbkHeight[VbkRoot] \in common
  BY VbkChainFacts
<1>2. \A h \in common : h \in Nat /\ h <= VbkHeight[t]
  BY VbkChainFacts
<1>3. D \in SUBSET Nat /\ D # {}
  <2>1. /\ VbkHeight[VbkRoot] <= VbkHeight[t]
        /\ VbkHeight[t] - VbkHeight[VbkRoot] \in Nat
        /\ VbkHeight[t] - (VbkHeight[t] - VbkHeight[VbkRoot]) = VbkHeight[VbkRoot]
    BY <1>1, <1>2
  <2> HIDE DEF common
  <2> QED
    BY <2>1, <1>1
<1>4. PICK m \in D : \A d \in D : ~(<<d, m>> \in OpToRel(<, Nat))
  <2> HIDE DEF D
  <2> QED
    BY <1>3, NatLessThanWellFounded, WFMin
<1>5. m \in Nat /\ VbkHeight[t] - m \in common
  OBVIOUS
<1> HIDE DEF common
<1>6. ASSUME NEW k \in common PROVE k <= VbkHeight[t] - m
  <2>1. k \in Nat /\ k <= VbkHeight[t]
    BY <1>2
  <2>2. VbkHeight[t] - k \in Nat /\ VbkHeight[t] - (VbkHeight[t] - k) = k
    BY <2>1, <1>1
  <2>3. VbkHeight[t] - k \in D
    BY <2>2
  <2>4. ~(VbkHeight[t] - k < m)
    BY <1>4, <1>5, <2>2, <2>3 DEF OpToRel
  <2> QED
    BY <2>1, <2>2, <2>4, <1>1, <1>5
<1> HIDE DEF D
<1>7. f \in common /\ \A k \in common : k <= f
  BY <1>5, <1>6 DEF VbkForkHeight, common
<1>8. PICK a \in VbkAncestors[t] \cap VbkAncestors[c] : f = VbkHeight[a]
  BY <1>7 DEF common
<1>9. f \in ChainHeights(t) /\ f \in ChainHeights(c) /\ a \in VbkBlocks
  BY <1>8, VbkBlockAtFacts, VbkChainFacts
<1>10. ASSUME NEW h \in VbkHeight[VbkRoot] .. f PROVE VbkBlockAt(t, h) = VbkBlockAt(c, h)
  <2> DEFINE b == VbkBlockAt(a, h)
  <2>1. h \in ChainHeights(a)
    BY <1>8 DEF ChainHeights
  <2>2. b \in VbkAncestors[a] /\ VbkHeight[b] = h
    BY <1>9, <2>1, VbkBlockAtFacts
  <2>3. b \in VbkAncestors[t] /\ b \in VbkAncestors[c]
    BY <1>8, <2>2, VbkChainFacts
  <2> HIDE DEF b
  <2>4. VbkBlockAt(t, VbkHeight[b]) = b /\ VbkBlockAt(c, VbkHeight[b]) = b
    BY <2>3, VbkBlockAtFacts
  <2> QED
    BY <2>2, <2>4
<1> QED
  BY <1>9, <1>10

-----------------------------------------------------------------------------
(* Switching the active chain keeps the BTC references exact.               *)

IdsOk(ids) == \A v \in VbkBlocks : \A y \in ToSet(ids[v]) : Containing[y] = v

Bootstrapped(c, h) == IF c = BtcRoot /\ h = VbkHeight[VbkRoot] THEN 1 ELSE 0

\* The references at height h that the blocks of t's chain make, up to height top.
RefsUpTo(ids, t, top, c, h) ==
    Bootstrapped(c, h) +
    (IF h \in VbkHeight[VbkRoot] .. top THEN Hits(ids[VbkBlockAt(t, h)], Refers(c)) ELSE 0)

\* r is s with the chain of t applied up to height top.
AppliedUpTo(r, s, t, top) ==
    /\ r \in VbkStates /\ r.refs = s.refs /\ r.ids = s.ids /\ r.tip = s.tip
    /\ \A c \in BtcBlocks : \A h \in Heights : r.btc[c][h] = RefsUpTo(s.ids, t, top, c, h)

LEMMA RefsUpToFacts ==
    ASSUME NEW s \in VbkStates, NEW t \in VbkBlocks, NEW top \in ChainHeights(t),
           top # VbkHeight[VbkRoot], NEW c \in BtcBlocks, NEW h \in Heights
    PROVE  /\ RefsUpTo(s.ids, t, top - 1, c, h) \in Nat
           /\ RefsUpTo(s.ids, t, top, c, h) =
                RefsUpTo(s.ids, t, top - 1, c, h) +
                (IF h = top THEN Hits(s.ids[VbkBlockAt(t, top)], Refers(c)) ELSE 0)
<1>1. VbkHeight[VbkRoot] \in Nat /\ VbkHeight[t] \in Nat /\ top \in Nat
  BY VbkChainFacts DEF ChainHeights
<1>2. ASSUME NEW k \in ChainHeights(t) PROVE Hits(s.ids[VbkBlockAt(t, k)], Refers(c)) \in Nat
  <2>1. s.ids[VbkBlockAt(t, k)] \in Seq(Vtbs)
    BY VbkBlockAtFacts, StateFacts
  <2> QED
    BY <2>1, HitsType
<1>3. \A k : /\ k \in VbkHeight[VbkRoot] .. top <=> k \in VbkHeight[VbkRoot] .. top - 1 \/ k = top
             /\ k \in VbkHeight[VbkRoot] .. top - 1 => k \in ChainHeights(t) /\ k # top
  BY <1>1 DEF ChainHeights
<1>4. Bootstrapped(c, h) \in Nat
  BY DEF Bootstrapped
<1>5. CASE h = top
  <2>1. h \notin VbkHeight[VbkRoot] .. top - 1 /\ h \in VbkHeight[VbkRoot] .. top
    BY <1>3, <1>5
  <2> QED
    BY <2>1, <1>2, <1>4, <1>5 DEF RefsUpTo
<1>6. CASE h # top
  <2>1. h \in VbkHeight[VbkRoot] .. top <=> h \in VbkHeight[VbkRoot] .. top - 1
    BY <1>3, <1>6
  <2>2. h \in VbkHeight[VbkRoot] .. top - 1 => Hits(s.ids[VbkBlockAt(t, h)], Refers(c)) \in Nat
    BY <1>2, <1>3
  <2> QED
    BY <2>1, <2>2, <1>4, <1>6 DEF RefsUpTo
<1> QED
  BY <1>5, <1>6

LEMMA UnapplyToRun ==
    ASSUME NEW s \in VbkStates, IdsOk(s.ids),
           NEW fork \in ChainHeights(s.tip),
           AppliedUpTo(s, s, s.tip, VbkHeight[s.tip])
    PROVE  \E f \in [0 .. VbkHeight[s.tip] - fork -> VbkStates] :
              /\ f[0] = s /\ f[VbkHeight[s.tip] - fork] = UnapplyTo(s, fork)
              /\ \A i \in 1 .. VbkHeight[s.tip] - fork : f[i] = UnapplyVbk(f[i - 1], VbkBlockAt(s.tip, VbkHeight[s.tip] - (i - 1)))
              /\ \A i \in 0 .. VbkHeight[s.tip] - fork : AppliedUpTo(f[i], s, s.tip, VbkHeight[s.tip] - i)
<1> DEFINE n == VbkHeight[s.tip] - fork
           S == {r \in VbkStates : r.ids = s.ids}
           blk(i) == VbkBlockAt(s.tip, VbkHeight[s.tip] - (i - 1))
           step == [i \in 1 .. n |-> [r \in S |-> UnapplyVbk(r, blk(i))]]
           u == CHOOSE g : g = [i \in 0 .. n |-> IF i = 0 THEN s ELSE UnapplyVbk(g[i - 1], blk(i))]
<1>1. /\ n \in Nat /\ VbkHeight[s.tip] \in Nat /\ fork \in Nat /\ VbkHeight[VbkRoot] \in Nat
      /\ VbkHeight[VbkRoot] <= fork /\ fork <= VbkHeight[s.tip] /\ s.tip \in VbkBlocks
  BY StateFacts, VbkChainFacts DEF ChainHeights
<1>2. UnapplyTo(s, fork) = u[n]
  BY DEF UnapplyTo
<1>3. ASSUME NEW i \in 1 .. n
      PROVE  /\ VbkHeight[s.tip] - (i - 1) \in ChainHeights(s.tip) /\ VbkHeight[s.tip] - (i - 1) # VbkHeight[VbkRoot]
             /\ blk(i) \in VbkBlocks /\ VbkHeight[blk(i)] = VbkHeight[s.tip] - (i - 1)
  <2>1. VbkHeight[s.tip] - (i - 1) \in ChainHeights(s.tip) /\ VbkHeight[s.tip] - (i - 1) # VbkHeight[VbkRoot]
    BY <1>1 DEF ChainHeights
  <2> QED
    BY <2>1, <1>1, VbkBlockAtFacts
<1>4. ASSUME NEW r \in S, NEW i \in 1 .. n
      PROVE  BtcMoved(UnapplyVbk(r, blk(i)), r, TakenBy(s.ids[blk(i)], blk(i))) /\ UnapplyVbk(r, blk(i)) \in S
  <2>1. \A y \in ToSet(r.ids[blk(i)]) : Containing[y] = blk(i)
    BY <1>3 DEF IdsOk
  <2>2. BtcMoved(UnapplyVbk(r, blk(i)), r, TakenBy(r.ids[blk(i)], blk(i)))
    <3> HIDE DEF blk
    <3> QED
      BY <1>3, <2>1, UnapplyVbkEffect
  <2> QED
    BY <2>2 DEF BtcMoved
<1> HIDE DEF n, blk
<1>5. AreSteps(S, n, step)
  BY <1>4 DEF AreSteps
<1>6. s \in S
  OBVIOUS
<1>7. PICK f \in [0 .. n -> S] :
        /\ f[0] = s
        /\ \A i \in 1 .. n : f[i] = step[i][f[i - 1]]
  <2> HIDE DEF step, S
  <2>1. \E f : IsRun(f, S, n, s, step)
    BY <1>1, <1>5, <1>6, Steps
  <2> QED
    BY <2>1 DEF IsRun
<1>8. \A i \in 1 .. n : i - 1 \in 0 .. n /\ i \in 0 .. n /\ i # 0
  BY <1>1
<1>9. \A i \in 1 .. n : f[i] = UnapplyVbk(f[i - 1], blk(i)) /\ f[i - 1] \in S
  <2> HIDE DEF S
  <2> QED
    BY <1>7, <1>8
<1>10. u = [i \in 0 .. n |-> IF i = 0 THEN s ELSE UnapplyVbk(u[i - 1], blk(i))]
  <2> HIDE DEF S
  <2>1. f = [i \in 0 .. n |-> f[i]]
    OBVIOUS
  <2>2. \A i \in 0 .. n : f[i] = IF i = 0 THEN s ELSE UnapplyVbk(f[i - 1], blk(i))
    <3>1. \A i \in 0 .. n : i = 0 \/ i \in 1 .. n
      BY <1>1
    <3> QED
      BY <3>1, <1>7, <1>8, <1>9
  <2>3. f = [i \in 0 .. n |-> IF i = 0 THEN s ELSE UnapplyVbk(f[i - 1], blk(i))]
    BY <2>1, <2>2
  <2> QED
    BY <2>3
<1> HIDE DEF u, step
<1>11. u[n] = f[n]
  <2>1. u[0] = s /\ \A i \in 1 .. n : u[i] = UnapplyVbk(u[i - 1], blk(i))
    BY <1>1, <1>8, <1>10
  <2>2. \A i \in 1 .. n : u[i - 1] = f[i - 1] => u[i] = f[i]
    BY <2>1, <1>9
  <2>3. Follows(u, f, n)
    BY <2>1, <2>2, <1>7 DEF Follows
  <2> QED
    BY <2>3, <1>1, StepsSame
<1> DEFINE G == {i \in 0 .. n : AppliedUpTo(f[i], s, s.tip, VbkHeight[s.tip] - i)}
<1>12. 0 \in G
  <2>1. VbkHeight[s.tip] - 0 = VbkHeight[s.tip] /\ 0 \in 0 .. n
    BY <1>1
  <2> QED
    BY <2>1, <1>7
<1>13. ASSUME NEW i \in 1 .. n, i - 1 \in G PROVE i \in G
  <2> DEFINE H == VbkHeight[s.tip] - (i - 1)
             v == blk(i)
             d == TakenBy(s.ids[v], v)
  <2>1. AppliedUpTo(f[i - 1], s, s.tip, VbkHeight[s.tip] - (i - 1))
    <3>1. VbkHeight[s.tip] - (i - 1) = VbkHeight[s.tip] - (i - 1)
      BY <1>1
    <3> QED
      BY <3>1, <1>13
  <2>2. BtcMoved(f[i], f[i - 1], d)
    <3> HIDE DEF S
    <3> QED
      BY <1>4, <1>9
  <2>3. v \in VbkBlocks /\ VbkHeight[v] = H /\ H \in ChainHeights(s.tip) /\ H # VbkHeight[VbkRoot]
    BY <1>3
  <2>4. VbkBlockAt(s.tip, H) = v
    BY DEF blk
  <2>5. s.ids[v] \in Seq(Vtbs)
    BY <2>3, StateFacts
  <2> HIDE DEF H, v
  <2>6. \A c \in BtcBlocks : \A h \in Heights :
          f[i].btc[c][h] = RefsUpTo(s.ids, s.tip, H - 1, c, h)
    <3> SUFFICES ASSUME NEW c \in BtcBlocks, NEW h \in Heights
                 PROVE  f[i].btc[c][h] = RefsUpTo(s.ids, s.tip, H - 1, c, h)
      OBVIOUS
    <3> DEFINE x == Hits(s.ids[v], Refers(c))
    <3>1. x \in Nat
      BY <2>5, HitsType
    <3>2. d[c][h] = IF h = H THEN -x ELSE 0
      BY <2>3 DEF TakenBy
    <3>3. /\ RefsUpTo(s.ids, s.tip, H - 1, c, h) \in Nat
          /\ RefsUpTo(s.ids, s.tip, H, c, h) =
               RefsUpTo(s.ids, s.tip, H - 1, c, h) + (IF h = H THEN x ELSE 0)
      BY <1>1, <2>3, <2>4, RefsUpToFacts
    <3>4. f[i].btc[c][h] = f[i - 1].btc[c][h] + d[c][h]
      BY <2>2 DEF BtcMoved
    <3>5. f[i - 1].btc[c][h] = RefsUpTo(s.ids, s.tip, H, c, h)
      BY <2>1 DEF AppliedUpTo, H
    <3> HIDE DEF x, d
    <3> QED
      BY <3>1, <3>2, <3>3, <3>4, <3>5
  <2>7. H - 1 = VbkHeight[s.tip] - i
    BY <1>1 DEF H
  <2>8. AppliedUpTo(f[i], s, s.tip, VbkHeight[s.tip] - i)
    BY <2>1, <2>2, <2>6, <2>7 DEF AppliedUpTo, BtcMoved
  <2> QED
    BY <2>8, <1>8
<1>14. \A i \in 0 .. n : AppliedUpTo(f[i], s, s.tip, VbkHeight[s.tip] - i)
  <2>1. \A i \in 0 .. n : i \in G
    <3> HIDE DEF G
    <3> QED
      BY <1>1, <1>12, <1>13, UpTo
  <2> QED
    BY <2>1
<1>15. f \in [0 .. n -> VbkStates]
  BY <1>7
<1>16. f[0] = s /\ f[n] = UnapplyTo(s, fork)
  BY <1>2, <1>7, <1>11
<1>17. \A i \in 1 .. n : f[i] = UnapplyVbk(f[i - 1], VbkBlockAt(s.tip, VbkHeight[s.tip] - (i - 1)))
  BY <1>9 DEF blk
<1> HIDE DEF S, G
<1> QED
  BY <1>14, <1>15, <1>16, <1>17 DEF n

LEMMA UnapplyToEffect ==
    ASSUME NEW s \in VbkStates, IdsOk(s.ids),
           NEW fork \in ChainHeights(s.tip),
           AppliedUpTo(s, s, s.tip, VbkHeight[s.tip])
    PROVE  AppliedUpTo(UnapplyTo(s, fork), s, s.tip, fork)
<1> DEFINE n == VbkHeight[s.tip] - fork
<1>1. n \in Nat /\ n \in 0 .. n /\ VbkHeight[s.tip] - n = fork
  BY StateFacts, VbkChainFacts DEF ChainHeights
<1>2. PICK f : f[n] = UnapplyTo(s, fork) /\ \A i \in 0 .. n : AppliedUpTo(f[i], s, s.tip, VbkHeight[s.tip] - i)
  BY UnapplyToRun
<1> HIDE DEF n
<1> QED
  BY <1>1, <1>2

LEMMA ApplyFromRun ==
    ASSUME NEW s \in VbkStates, IdsOk(s.ids), NEW to \in VbkBlocks,
           NEW fork \in ChainHeights(to),
           AppliedUpTo(s, s, to, fork)
    PROVE  \E f \in [0 .. VbkHeight[to] - fork -> VbkStates] :
              /\ f[0] = s /\ f[VbkHeight[to] - fork] = ApplyFrom(s, fork, to)
              /\ \A i \in 1 .. VbkHeight[to] - fork : f[i] = ApplyVbk(f[i - 1], VbkBlockAt(to, fork + i))
              /\ \A i \in 0 .. VbkHeight[to] - fork : AppliedUpTo(f[i], s, to, fork + i)
<1> DEFINE n == VbkHeight[to] - fork
           S == {r \in VbkStates : r.ids = s.ids}
           blk(i) == VbkBlockAt(to, fork + i)
           step == [i \in 1 .. n |-> [r \in S |-> ApplyVbk(r, blk(i))]]
           u == CHOOSE g : g = [i \in 0 .. n |-> IF i = 0 THEN s ELSE ApplyVbk(g[i - 1], blk(i))]
<1>1. /\ n \in Nat /\ VbkHeight[to] \in Nat /\ fork \in Nat /\ VbkHeight[VbkRoot] \in Nat
      /\ VbkHeight[VbkRoot] <= fork /\ fork <= VbkHeight[to] /\ to \in VbkBlocks
  BY StateFacts, VbkChainFacts DEF ChainHeights
<1>2. ApplyFrom(s, fork, to) = u[n]
  BY DEF ApplyFrom
<1>3. ASSUME NEW i \in 1 .. n
      PROVE  /\ fork + i \in ChainHeights(to) /\ fork + i # VbkHeight[VbkRoot]
             /\ blk(i) \in VbkBlocks /\ VbkHeight[blk(i)] = fork + i
  <2>1. fork + i \in ChainHeights(to) /\ fork + i # VbkHeight[VbkRoot]
    BY <1>1 DEF ChainHeights
  <2> QED
    BY <2>1, <1>1, VbkBlockAtFacts
<1>4. ASSUME NEW r \in S, NEW i \in 1 .. n
      PROVE  BtcMoved(ApplyVbk(r, blk(i)), r, AddedBy(s.ids[blk(i)], blk(i))) /\ ApplyVbk(r, blk(i)) \in S
  <2>1. \A y \in ToSet(r.ids[blk(i)]) : Containing[y] = blk(i)
    BY <1>3 DEF IdsOk
  <2>2. BtcMoved(ApplyVbk(r, blk(i)), r, AddedBy(r.ids[blk(i)], blk(i)))
    <3> HIDE DEF blk
    <3> QED
      BY <1>3, <2>1, ApplyVbkEffect
  <2> QED
    BY <2>2 DEF BtcMoved
<1> HIDE DEF n, blk
<1>5. AreSteps(S, n, step)
  BY <1>4 DEF AreSteps
<1>6. s \in S
  OBVIOUS
<1>7. PICK f \in [0 .. n -> S] :
        /\ f[0] = s
        /\ \A i \in 1 .. n : f[i] = step[i][f[i - 1]]
  <2> HIDE DEF step, S
  <2>1. \E f : IsRun(f, S, n, s, step)
    BY <1>1, <1>5, <1>6, Steps
  <2> QED
    BY <2>1 DEF IsRun
<1>8. \A i \in 1 .. n : i - 1 \in 0 .. n /\ i \in 0 .. n /\ i # 0
  BY <1>1
<1>9. \A i \in 1 .. n : f[i] = ApplyVbk(f[i - 1], blk(i)) /\ f[i - 1] \in S
  <2> HIDE DEF S
  <2> QED
    BY <1>7, <1>8
<1>10. u = [i \in 0 .. n |-> IF i = 0 THEN s ELSE ApplyVbk(u[i - 1], blk(i))]
  <2> HIDE DEF S
  <2>1. f = [i \in 0 .. n |-> f[i]]
    OBVIOUS
  <2>2. \A i \in 0 .. n : f[i] = IF i = 0 THEN s ELSE ApplyVbk(f[i - 1], blk(i))
    <3>1. \A i \in 0 .. n : i = 0 \/ i \in 1 .. n
      BY <1>1
    <3> QED
      BY <3>1, <1>7, <1>8, <1>9
  <2>3. f = [i \in 0 .. n |-> IF i = 0 THEN s ELSE ApplyVbk(f[i - 1], blk(i))]
    BY <2>1, <2>2
  <2> QED
    BY <2>3
<1> HIDE DEF u, step
<1>11. u[n] = f[n]
  <2>1. u[0] = s /\ \A i \in 1 .. n : u[i] = ApplyVbk(u[i - 1], blk(i))
    BY <1>1, <1>8, <1>10
  <2>2. \A i \in 1 .. n : u[i - 1] = f[i - 1] => u[i] = f[i]
    BY <2>1, <1>9
  <2>3. Follows(u, f, n)
    BY <2>1, <2>2, <1>7 DEF Follows
  <2> QED
    BY <2>3, <1>1, StepsSame
<1> DEFINE G == {i \in 0 .. n : AppliedUpTo(f[i], s, to, fork + i)}
<1>12. 0 \in G
  <2>1. fork + 0 = fork /\ 0 \in 0 .. n
    BY <1>1
  <2> QED
    BY <2>1, <1>7
<1>13. ASSUME NEW i \in 1 .. n, i - 1 \in G PROVE i \in G
  <2> DEFINE H == fork + i
             v == blk(i)
             d == AddedBy(s.ids[v], v)
  <2>1. AppliedUpTo(f[i - 1], s, to, (fork + i) - 1)
    <3>1. fork + (i - 1) = (fork + i) - 1
      BY <1>1
    <3> QED
      BY <3>1, <1>13
  <2>2. BtcMoved(f[i], f[i - 1], d)
    <3> HIDE DEF S
    <3> QED
      BY <1>4, <1>9
  <2>3. v \in VbkBlocks /\ VbkHeight[v] = H /\ H \in ChainHeights(to) /\ H # VbkHeight[VbkRoot]
    BY <1>3
  <2>4. VbkBlockAt(to, H) = v
    BY DEF blk
  <2>5. s.ids[v] \in Seq(Vtbs)
    BY <2>3, StateFacts
  <2> HIDE DEF H, v
  <2>6. \A c \in BtcBlocks : \A h \in Heights :
          f[i].btc[c][h] = RefsUpTo(s.ids, to, H, c, h)
    <3> SUFFICES ASSUME NEW c \in BtcBlocks, NEW h \in Heights
                 PROVE  f[i].btc[c][h] = RefsUpTo(s.ids, to, H, c, h)
      OBVIOUS
    <3> DEFINE x == Hits(s.ids[v], Refers(c))
    <3>1. x \in Nat
      BY <2>5, HitsType
    <3>2. d[c][h] = IF h = H THEN x ELSE 0
      BY <2>3 DEF AddedBy
    <3>3. /\ RefsUpTo(s.ids, to, H - 1, c, h) \in Nat
          /\ RefsUpTo(s.ids, to, H, c, h) =
               RefsUpTo(s.ids, to, H - 1, c, h) + (IF h = H THEN x ELSE 0)
      BY <1>1, <2>3, <2>4, RefsUpToFacts
    <3>4. f[i].btc[c][h] = f[i - 1].btc[c][h] + d[c][h]
      BY <2>2 DEF BtcMoved
    <3>5. f[i - 1].btc[c][h] = RefsUpTo(s.ids, to, H - 1, c, h)
      BY <2>1 DEF AppliedUpTo, H
    <3> HIDE DEF x, d
    <3> QED
      BY <3>1, <3>2, <3>3, <3>4, <3>5
  <2>7. H = fork + i
    BY <1>1 DEF H
  <2>8. AppliedUpTo(f[i], s, to, fork + i)
    BY <2>1, <2>2, <2>6, <2>7 DEF AppliedUpTo, BtcMoved
  <2> QED
    BY <2>8, <1>8
<1>14. \A i \in 0 .. n : AppliedUpTo(f[i], s, to, fork + i)
  <2>1. \A i \in 0 .. n : i \in G
    <3> HIDE DEF G
    <3> QED
      BY <1>1, <1>12, <1>13, UpTo
  <2> QED
    BY <2>1
<1>15. f \in [0 .. n -> VbkStates]
  BY <1>7
<1>16. f[0] = s /\ f[n] = ApplyFrom(s, fork, to)
  BY <1>2, <1>7, <1>11
<1>17. \A i \in 1 .. n : f[i] = ApplyVbk(f[i - 1], VbkBlockAt(to, fork + i))
  BY <1>9 DEF blk
<1> HIDE DEF S, G
<1> QED
  BY <1>14, <1>15, <1>16, <1>17 DEF n

LEMMA ApplyFromEffect ==
    ASSUME NEW s \in VbkStates, IdsOk(s.ids), NEW to \in VbkBlocks,
           NEW fork \in ChainHeights(to),
           AppliedUpTo(s, s, to, fork)
    PROVE  AppliedUpTo(ApplyFrom(s, fork, to), s, to, VbkHeight[to])
<1> DEFINE n == VbkHeight[to] - fork
<1>1. n \in Nat /\ n \in 0 .. n /\ fork + n = VbkHeight[to]
  <2>1. VbkHeight[to] \in Nat /\ VbkHeight[VbkRoot] \in Nat
    BY VbkChainFacts
  <2> QED
    BY <2>1 DEF ChainHeights
<1>2. PICK f : f[n] = ApplyFrom(s, fork, to) /\ \A i \in 0 .. n : AppliedUpTo(f[i], s, to, fork + i)
  BY ApplyFromRun
<1> HIDE DEF n
<1> QED
  BY <1>1, <1>2

\* The BTC tree has exactly the references of the VTBs on the active chain.
Exact(s) == IdsOk(s.ids) /\ AppliedUpTo(s, s, s.tip, VbkHeight[s.tip])

\* r is an exact state with the blocks and VTBs of s.
Alike(r, s) == Exact(r) /\ r.refs = s.refs /\ r.ids = s.ids

LEMMA ExactFacts ==
    ASSUME NEW s, Exact(s)
    PROVE  s \in VbkStates /\ IdsOk(s.ids) /\ Alike(s, s)
BY DEF Exact, AppliedUpTo, Alike

LEMMA TipMoved ==
    ASSUME NEW b \in VbkStates, NEW to \in VbkBlocks
    PROVE  LET r == [b EXCEPT !.tip = to]
           IN  r \in VbkStates /\ r.refs = b.refs /\ r.ids = b.ids /\ r.tip = to /\ r.btc = b.btc /\ r.ok = b.ok
<1>1. [b EXCEPT !.tip = to] = [refs |-> b.refs, ids |-> b.ids, tip |-> to, btc |-> b.btc, ok |-> b.ok]
  BY StateFacts
<1> QED
  BY <1>1, StateFacts DEF VbkStates

LEMMA OkMoved ==
    ASSUME NEW b, Exact(b), NEW k \in BOOLEAN
    PROVE  Alike([b EXCEPT !.ok = k], b) /\ [b EXCEPT !.ok = k].tip = b.tip
<1> DEFINE r == [b EXCEPT !.ok = k]
<1>1. r = [refs |-> b.refs, ids |-> b.ids, tip |-> b.tip, btc |-> b.btc, ok |-> k]
  BY ExactFacts, StateFacts
<1>2. r \in VbkStates /\ r.refs = b.refs /\ r.ids = b.ids /\ r.tip = b.tip /\ r.btc = b.btc
  BY <1>1, ExactFacts, StateFacts DEF VbkStates
<1> HIDE DEF r
<1>3. Alike(r, b) /\ r.tip = b.tip
  BY <1>2 DEF Alike, Exact, AppliedUpTo
<1> QED
  BY <1>3 DEF r

LEMMA SetVbkStateEffect ==
    ASSUME NEW s, Exact(s), NEW to \in VbkBlocks
    PROVE  Alike(SetVbkState(s, to), s) /\ SetVbkState(s, to).tip = to
<1> DEFINE fork == VbkForkHeight(s.tip, to)
           a == UnapplyTo(s, fork)
           b == ApplyFrom(a, fork, to)
           r == [b EXCEPT !.tip = to]
<1>1. SetVbkState(s, to) = r
  BY DEF SetVbkState
<1>2. s \in VbkStates /\ s.tip \in VbkBlocks /\ IdsOk(s.ids)
  BY ExactFacts, StateFacts
<1>3. fork \in ChainHeights(s.tip) /\ fork \in ChainHeights(to)
  BY <1>2, VbkForkFacts
<1>4. \A h \in VbkHeight[VbkRoot] .. fork : VbkBlockAt(s.tip, h) = VbkBlockAt(to, h)
  BY <1>2, VbkForkFacts
<1> HIDE DEF fork
<1>5. AppliedUpTo(a, s, s.tip, fork)
  BY <1>2, <1>3, UnapplyToEffect DEF Exact
<1> HIDE DEF a
<1>6. a \in VbkStates /\ a.ids = s.ids /\ a.refs = s.refs
  BY <1>5 DEF AppliedUpTo
<1>7. AppliedUpTo(a, a, to, fork)
  <2>1. \A c \in BtcBlocks : \A h \in Heights :
          RefsUpTo(s.ids, s.tip, fork, c, h) = RefsUpTo(a.ids, to, fork, c, h)
    BY <1>4, <1>6 DEF RefsUpTo
  <2> QED
    BY <1>5, <1>6, <2>1 DEF AppliedUpTo
<1>8. AppliedUpTo(b, a, to, VbkHeight[to])
  BY <1>2, <1>3, <1>6, <1>7, ApplyFromEffect
<1> HIDE DEF b
<1>9. b \in VbkStates /\ b.ids = s.ids /\ b.refs = s.refs
  BY <1>6, <1>8 DEF AppliedUpTo
<1>10. r \in VbkStates /\ r.refs = b.refs /\ r.ids = b.ids /\ r.tip = to /\ r.btc = b.btc
  BY <1>9, TipMoved
<1> HIDE DEF r
<1>11. Exact(r)
  BY <1>2, <1>6, <1>8, <1>9, <1>10 DEF Exact, AppliedUpTo
<1> QED
  BY <1>1, <1>9, <1>10, <1>11 DEF Alike

LEMMA AlikeTransitive ==
    ASSUME NEW r, NEW s, NEW t, Alike(r, s), Alike(s, t)
    PROVE  Alike(r, t)
BY DEF Alike

LEMMA AtEffect ==
    ASSUME NEW s, Exact(s), NEW v \in VbkBlocks
    PROVE  Alike(At(s, v), s) /\ v \in VbkAncestors[At(s, v).tip]
<1>1. CASE v \in VbkAncestors[s.tip]
  BY <1>1, ExactFacts DEF At
<1>2. CASE v \notin VbkAncestors[s.tip]
  BY <1>2, SetVbkStateEffect, VbkChainFacts DEF At
<1> QED
  BY <1>1, <1>2

-----------------------------------------------------------------------------
(* Fork resolution.                                                         *)

LEMMA BestAfterFacts ==
    ASSUME NEW X, NEW t \in X, NEW order \in Seq(X)
    PROVE  BestAfter(t, order) \subseteq X /\ BestAfter(t, order) # {}
<1> DEFINE n == Len(order)
           S == (SUBSET X) \ {{}}
           Next1(T, i) == UNION {BestOf(u, order[i]) : u \in T}
           step == [i \in 1 .. n |-> [T \in S |-> Next1(T, i)]]
           b == CHOOSE g : g = [i \in 0 .. n |-> IF i = 0 THEN {t} ELSE Next1(g[i - 1], i)]
<1>1. n \in Nat /\ \A i \in 1 .. n : order[i] \in X
  OBVIOUS
<1>2. BestAfter(t, order) = b[n]
  BY DEF BestAfter
<1>3. \A T \in S : \A i \in 1 .. n : Next1(T, i) \in S
  <2>1. \A u, c : BestOf(u, c) \subseteq {u, c} /\ BestOf(u, c) # {}
    BY DEF BestOf
  <2> SUFFICES ASSUME NEW T \in S, NEW i \in 1 .. n
               PROVE  Next1(T, i) \subseteq X /\ Next1(T, i) # {}
    OBVIOUS
  <2>2. T \subseteq X /\ order[i] \in X
    BY <1>1
  <2>3. PICK u : u \in T
    OBVIOUS
  <2>4. BestOf(u, order[i]) \subseteq Next1(T, i)
    BY <2>3
  <2>5. Next1(T, i) \subseteq X
    BY <2>1, <2>2
  <2>6. BestOf(u, order[i]) # {}
    BY <2>1
  <2> HIDE DEF Next1
  <2> QED
    BY <2>4, <2>5, <2>6
<1> HIDE DEF n, Next1
<1>4. AreSteps(S, n, step)
  BY <1>3 DEF AreSteps
<1>5. {t} \in S
  OBVIOUS
<1>6. PICK f \in [0 .. n -> S] :
        /\ f[0] = {t}
        /\ \A i \in 1 .. n : f[i] = step[i][f[i - 1]]
  <2> HIDE DEF step, S
  <2>1. \E f : IsRun(f, S, n, {t}, step)
    BY <1>1, <1>4, <1>5, Steps
  <2> QED
    BY <2>1 DEF IsRun
<1> HIDE DEF S
<1>7. \A i \in 1 .. n : i - 1 \in 0 .. n /\ i \in 0 .. n /\ i # 0
  BY <1>1
<1>8. \A i \in 1 .. n : f[i] = Next1(f[i - 1], i)
  BY <1>6, <1>7
<1>9. b = [i \in 0 .. n |-> IF i = 0 THEN {t} ELSE Next1(b[i - 1], i)]
  <2>1. f = [i \in 0 .. n |-> f[i]]
    OBVIOUS
  <2>2. \A i \in 0 .. n : f[i] = IF i = 0 THEN {t} ELSE Next1(f[i - 1], i)
    <3>1. \A i \in 0 .. n : i = 0 \/ i \in 1 .. n
      BY <1>1
    <3> QED
      BY <3>1, <1>6, <1>7, <1>8
  <2>3. f = [i \in 0 .. n |-> IF i = 0 THEN {t} ELSE Next1(f[i - 1], i)]
    BY <2>1, <2>2
  <2> QED
    BY <2>3
<1> HIDE DEF b, step
<1>10. b[n] = f[n]
  <2>1. b[0] = {t} /\ \A i \in 1 .. n : b[i] = Next1(b[i - 1], i)
    <3> DEFINE e(i) == IF i = 0 THEN {t} ELSE Next1(b[i - 1], i)
    <3>1. \A i \in 0 .. n : b[i] = e(i)
      <4> HIDE DEF e
      <4>1. b = [i \in 0 .. n |-> e(i)]
        BY <1>9 DEF e
      <4> QED
        BY <4>1
    <3> QED
      BY <3>1, <1>1, <1>7
  <2>2. \A i \in 1 .. n : b[i - 1] = f[i - 1] => b[i] = f[i]
    BY <2>1, <1>8
  <2>3. Follows(b, f, n)
    BY <2>1, <2>2, <1>6 DEF Follows
  <2> QED
    BY <2>3, <1>1, StepsSame
<1>11. f[n] \in S
  BY <1>1, <1>6
<1> QED
  BY <1>2, <1>10, <1>11 DEF S

LEMMA OrderFacts ==
    ASSUME NEW X \in SUBSET VbkBlocks
    PROVE  SetToSeqs(X) # {} /\ SetToSeqs(X) \subseteq Seq(X)
<1>1. IsFiniteSet(X) /\ Cardinality(X) \in Nat
  BY VbkAssumption, FS_Subset, FS_CardinalityType
<1>2. PICK f : f \in Bijection(1 .. Cardinality(X), X)
  BY <1>1, FS_CardinalityType DEF ExistsBijection
<1>3. f \in [1 .. Cardinality(X) -> X] /\ \A i, j \in 1 .. Cardinality(X) : i # j => f[i] # f[j]
  BY <1>2 DEF Bijection, Injection, IsInjective
<1>4. f \in SetToSeqs(X)
  BY <1>3 DEF SetToSeqs
<1>5. ASSUME NEW order \in SetToSeqs(X)
      PROVE  order \in Seq(X)
  <2>1. order \in [1 .. Cardinality(X) -> X]
    BY DEF SetToSeqs
  <2> QED
    BY <1>1, <2>1
<1> QED
  BY <1>4, <1>5

\* Whatever fork resolution decides, the tree has the same blocks and VTBs.
LEMMA ResolveEffect ==
    ASSUME NEW s, Exact(s), NEW candidates \in SUBSET VbkBlocks, NEW r \in Resolve(s, candidates)
    PROVE  Alike(r, s)
<1>0. PICK order \in SetToSeqs(candidates) : \E t \in BestAfter(s.tip, order) : r = SetVbkState(s, t)
  BY DEF Resolve
<1>1. PICK t \in BestAfter(s.tip, order) : r = SetVbkState(s, t)
  BY <1>0
<1>4. order \in Seq(VbkBlocks)
  <2>1. order \in Seq(candidates)
    BY OrderFacts
  <2> QED
    BY <2>1
<1>5. t \in VbkBlocks
  BY <1>4, BestAfterFacts, ExactFacts, StateFacts
<1> QED
  BY <1>1, <1>5, SetVbkStateEffect

LEMMA CandidatesAreBlocks ==
    ASSUME NEW s, NEW v
    PROVE  VbkTips(s) \in SUBSET VbkBlocks /\ TipsAbove(s, v) \in SUBSET VbkBlocks
BY DEF VbkTips, TipsAbove, InVbk

-----------------------------------------------------------------------------
(* The commands keep the BTC references exact.                              *)

\* The VTBs of v become q and the references change with them if v is active.
LEMMA PatchedExact ==
    ASSUME NEW s, Exact(s), NEW v \in VbkBlocks, NEW q \in Seq(Vtbs),
           \A y \in ToSet(q) : Containing[y] = v,
           NEW r \in VbkStates, r.tip = s.tip, r.ids = [s.ids EXCEPT ![v] = q],
           \A c \in BtcBlocks : \A h \in Heights :
              r.btc[c][h] = s.btc[c][h] +
                 (IF h = VbkHeight[v] /\ v \in VbkAncestors[s.tip]
                    THEN Hits(q, Refers(c)) - Hits(s.ids[v], Refers(c)) ELSE 0)
    PROVE  Exact(r)
<1>1. s \in VbkStates /\ s.tip \in VbkBlocks /\ IdsOk(s.ids) /\ s.ids \in [VbkBlocks -> Seq(Vtbs)]
  BY ExactFacts, StateFacts
<1>2. r.ids[v] = q /\ \A w \in VbkBlocks : w # v => r.ids[w] = s.ids[w]
  BY <1>1
<1>3. IdsOk(r.ids)
  BY <1>1, <1>2 DEF IdsOk
<1>4. ASSUME NEW c \in BtcBlocks, NEW h \in Heights
      PROVE  r.btc[c][h] = RefsUpTo(r.ids, r.tip, VbkHeight[r.tip], c, h)
  <2> DEFINE old == Hits(s.ids[v], Refers(c))
             new == Hits(q, Refers(c))
             b == VbkBlockAt(s.tip, h)
  <2>1. old \in Nat /\ new \in Nat /\ Bootstrapped(c, h) \in Nat
    BY <1>1, HitsType DEF Bootstrapped
  <2>2. s.btc[c][h] = RefsUpTo(s.ids, s.tip, VbkHeight[s.tip], c, h)
    BY DEF Exact, AppliedUpTo
  <2>3. CASE h = VbkHeight[v] /\ v \in VbkAncestors[s.tip]
    <3>1. b = v /\ h \in VbkHeight[VbkRoot] .. VbkHeight[s.tip]
      BY <1>1, <2>3, VbkBlockAtFacts DEF ChainHeights
    <3>2. RefsUpTo(s.ids, s.tip, VbkHeight[s.tip], c, h) = Bootstrapped(c, h) + old
      BY <3>1 DEF RefsUpTo
    <3>3. RefsUpTo(r.ids, r.tip, VbkHeight[r.tip], c, h) = Bootstrapped(c, h) + new
      BY <3>1, <1>2 DEF RefsUpTo
    <3>4. r.btc[c][h] = s.btc[c][h] + (new - old)
      BY <2>3
    <3> HIDE DEF old, new
    <3> QED
      BY <2>1, <2>2, <3>2, <3>3, <3>4
  <2>4. CASE ~(h = VbkHeight[v] /\ v \in VbkAncestors[s.tip])
    <3>1. h \in VbkHeight[VbkRoot] .. VbkHeight[s.tip] =>
             b # v /\ b \in VbkBlocks /\ Hits(s.ids[b], Refers(c)) \in Nat
      <4> SUFFICES ASSUME h \in VbkHeight[VbkRoot] .. VbkHeight[s.tip]
                   PROVE  b # v /\ b \in VbkBlocks /\ Hits(s.ids[b], Refers(c)) \in Nat
        OBVIOUS
      <4>1. b \in VbkAncestors[s.tip] /\ VbkHeight[b] = h /\ b \in VbkBlocks
        BY <1>1, VbkBlockAtFacts DEF ChainHeights
      <4>2. s.ids[b] \in Seq(Vtbs)
        BY <4>1, <1>1
      <4> QED
        BY <4>1, <4>2, <2>4, HitsType
    <3>2. RefsUpTo(r.ids, r.tip, VbkHeight[r.tip], c, h) = RefsUpTo(s.ids, s.tip, VbkHeight[s.tip], c, h)
      BY <3>1, <1>2 DEF RefsUpTo
    <3>3. r.btc[c][h] = s.btc[c][h] + 0
      BY <2>4
    <3>4. s.btc[c][h] \in Int
      BY <1>1, StateFacts
    <3> QED
      BY <2>2, <3>2, <3>3, <3>4
  <2> QED
    BY <2>3, <2>4
<1> QED
  BY <1>3, <1>4 DEF Exact, AppliedUpTo

LEMMA IdsReplaced ==
    ASSUME NEW x \in VbkStates, NEW ids
    PROVE  [x EXCEPT !.ids = ids] = [refs |-> x.refs, ids |-> ids, tip |-> x.tip, btc |-> x.btc, ok |-> x.ok]
<1>1. x = [refs |-> x.refs, ids |-> x.ids, tip |-> x.tip, btc |-> x.btc, ok |-> x.ok]
  BY StateFacts
<1> QED
  BY <1>1

WithIds(x, ids, k) == [[x EXCEPT !.ids = ids] EXCEPT !.ok = k]

LEMMA IdsMoved ==
    ASSUME NEW x \in VbkStates, NEW ids \in [VbkBlocks -> Seq(Vtbs)], NEW k \in BOOLEAN
    PROVE  LET r == WithIds(x, ids, k)
           IN  /\ r \in VbkStates /\ r.refs = x.refs /\ r.tip = x.tip /\ r.btc = x.btc
               /\ r.ids = ids /\ r.ok = k
<1> DEFINE z == [x EXCEPT !.ids = ids]
           r == WithIds(x, ids, k)
<1>1. z = [refs |-> x.refs, ids |-> ids, tip |-> x.tip, btc |-> x.btc, ok |-> x.ok]
  BY IdsReplaced
<1>2. r = [z EXCEPT !.ok = k]
  BY DEF WithIds
<1> HIDE DEF z, r
<1>3. r = [refs |-> x.refs, ids |-> ids, tip |-> x.tip, btc |-> x.btc, ok |-> k]
  BY <1>1, <1>2
<1>4. /\ r \in VbkStates /\ r.refs = x.refs /\ r.tip = x.tip /\ r.btc = x.btc
      /\ r.ids = ids /\ r.ok = k
  BY <1>3, StateFacts DEF VbkStates
<1> QED
  BY <1>4 DEF r

LEMMA AppendToSet ==
    ASSUME NEW X, NEW q \in Seq(X), NEW y \in X
    PROVE  /\ Append(q, y) \in Seq(X) /\ ToSet(Append(q, y)) = ToSet(q) \cup {y}
           /\ Len(Append(q, y)) = Len(q) + 1
<1> DEFINE a == Append(q, y)
           n == Len(q) + 1
<1>1. /\ a \in Seq(X) /\ Len(q) \in Nat /\ Len(a) = n /\ DOMAIN q = 1 .. Len(q) /\ DOMAIN a = 1 .. n /\ a[n] = y
      /\ \A i \in 1 .. Len(q) : a[i] = q[i]
  OBVIOUS
<1>2. \A i : i \in 1 .. n <=> i \in 1 .. Len(q) \/ i = n
  BY <1>1
<1> HIDE DEF a, n
<1>3. ToSet(a) = ToSet(q) \cup {y}
  BY <1>1, <1>2 DEF ToSet
<1> QED
  BY <1>1, <1>3 DEF a, n

\* A VTB that is executed on the active chain and recorded.
LEMMA AddedExact ==
    ASSUME NEW s, Exact(s), NEW y \in Vtbs, Containing[y] \in VbkAncestors[s.tip]
    PROVE  LET v == Containing[y]
               r == [ExecuteVtb(s, y) EXCEPT !.ids[v] = Append(@, y)]
           IN  /\ Exact(r) /\ r.refs = s.refs /\ r.ids = [s.ids EXCEPT ![v] = Append(s.ids[v], y)]
               /\ r.tip = s.tip /\ r.ok = ExecuteVtb(s, y).ok
<1> DEFINE v == Containing[y]
           x == ExecuteVtb(s, y)
           q == Append(s.ids[v], y)
           r == [x EXCEPT !.ids[v] = Append(@, y)]
<1>1. s \in VbkStates /\ IdsOk(s.ids) /\ v \in VbkBlocks /\ s.ids[v] \in Seq(Vtbs)
  BY ExactFacts, StateFacts, VtbFacts
<1>2. BtcMoved(x, s, Added(y))
  BY <1>1, ExecuteVtbEffect
<1>3. x \in VbkStates /\ x.ids = s.ids /\ x.refs = s.refs /\ x.tip = s.tip /\ x.ok \in BOOLEAN
  BY <1>2, StateFacts DEF BtcMoved
<1>4. q \in Seq(Vtbs) /\ ToSet(q) = ToSet(s.ids[v]) \cup {y}
  BY <1>1, AppendToSet
<1>5. r = WithIds(x, [x.ids EXCEPT ![v] = q], x.ok)
  <2> DEFINE I == [x.ids EXCEPT ![v] = q]
  <2>1. r = [x EXCEPT !.ids = I]
    <3> HIDE DEF x, v
    <3> QED
      BY <1>1, <1>3, StateFacts
  <2>2. [x EXCEPT !.ids = I] = [[x EXCEPT !.ids = I] EXCEPT !.ok = x.ok]
    <3> HIDE DEF x, I
    <3> QED
      BY <1>3, StateFacts
  <2> QED
    BY <2>1, <2>2 DEF WithIds
<1> HIDE DEF r, x, q
<1>6. /\ r \in VbkStates /\ r.refs = s.refs /\ r.tip = s.tip /\ r.btc = x.btc
      /\ r.ids = [s.ids EXCEPT ![v] = q] /\ r.ok = x.ok
  <2> DEFINE I == [x.ids EXCEPT ![v] = q]
  <2>1. I \in [VbkBlocks -> Seq(Vtbs)] /\ I = [s.ids EXCEPT ![v] = q]
    BY <1>1, <1>3, <1>4, StateFacts
  <2> HIDE DEF I
  <2>2. r = WithIds(x, I, x.ok)
    BY <1>5 DEF I
  <2> QED
    BY <2>1, <2>2, <1>3, IdsMoved
<1>7. ASSUME NEW c \in BtcBlocks, NEW h \in Heights
      PROVE  r.btc[c][h] = s.btc[c][h] +
                 (IF h = VbkHeight[v] /\ v \in VbkAncestors[s.tip]
                    THEN Hits(q, Refers(c)) - Hits(s.ids[v], Refers(c)) ELSE 0)
  <2>1. /\ Hits(q, Refers(c)) = Hits(s.ids[v], Refers(c)) + (IF y \in Refers(c) THEN 1 ELSE 0)
        /\ Hits(s.ids[v], Refers(c)) \in Nat
    BY <1>1, HitsAppend, HitsType DEF q
  <2>2. r.btc[c][h] = s.btc[c][h] + Added(y)[c][h]
    BY <1>2, <1>6 DEF BtcMoved
  <2>3. Added(y)[c][h] = IF h = VbkHeight[v] /\ y \in Refers(c) THEN 1 ELSE 0
    BY DEF Added, Refers
  <2> QED
    BY <2>1, <2>2, <2>3
<1>8. \A z \in ToSet(q) : Containing[z] = v
  BY <1>1, <1>4 DEF IdsOk
<1>9. Exact(r)
  <2> HIDE DEF v
  <2> QED
    BY <1>1, <1>4, <1>6, <1>7, <1>8, PatchedExact
<1> QED
  BY <1>6, <1>9 DEF r, x, q

LEMMA RemoveVtbEffect ==
    ASSUME NEW s, Exact(s), NEW y \in Vtbs, y \in ToSet(s.ids[Containing[y]])
    PROVE  LET v == Containing[y]
               r == RemoveVtb(s, y)
               x == IF v \in VbkAncestors[s.tip] THEN UnExecuteVtb(s, y) ELSE s
           IN  /\ Exact(r) /\ r.refs = s.refs /\ r.ids = [s.ids EXCEPT ![v] = RemoveFirst(s.ids[v], y)]
               /\ r.tip = s.tip /\ r.btc = x.btc /\ r.ok = x.ok
<1> DEFINE v == Containing[y]
           active == v \in VbkAncestors[s.tip]
           x == IF active THEN UnExecuteVtb(s, y) ELSE s
           q == RemoveFirst(s.ids[v], y)
           k == x.ok /\ y \in ToSet(s.ids[v])
           r == RemoveVtb(s, y)
<1>1. s \in VbkStates /\ IdsOk(s.ids) /\ v \in VbkBlocks /\ s.ids[v] \in Seq(Vtbs)
  BY ExactFacts, StateFacts, VtbFacts
<1>2. BtcMoved(UnExecuteVtb(s, y), s, Taken(y))
  BY <1>1, UnExecuteVtbEffect
<1>3. x \in VbkStates /\ x.ids = s.ids /\ x.refs = s.refs /\ x.tip = s.tip /\ x.ok \in BOOLEAN
  BY <1>1, <1>2, StateFacts DEF BtcMoved
<1>4. /\ q \in Seq(Vtbs) /\ ToSet(q) \subseteq ToSet(s.ids[v])
      /\ \A P : Hits(s.ids[v], P) = Hits(q, P) + (IF y \in P THEN 1 ELSE 0)
  BY <1>1, RemoveFirstFacts
<1>5. r = WithIds(x, [x.ids EXCEPT ![v] = q], k)
  <2> DEFINE I == [x.ids EXCEPT ![v] = q]
             z == [x EXCEPT !.ids[v] = RemoveFirst(@, y)]
  <2>1. r = [z EXCEPT !.ok = @ /\ y \in ToSet(s.ids[v])]
    BY DEF RemoveVtb
  <2>2. z = [x EXCEPT !.ids = I]
    <3> HIDE DEF x, v
    <3> QED
      BY <1>1, <1>3, StateFacts
  <2>3. z.ok = x.ok
    <3> HIDE DEF x, I
    <3> QED
      BY <1>3, <2>2, StateFacts
  <2>4. r = [[x EXCEPT !.ids = I] EXCEPT !.ok = k]
    <3> HIDE DEF x, I, z
    <3> QED
      BY <2>1, <2>2, <2>3
  <2> QED
    BY <2>4 DEF WithIds
<1>6. k \in BOOLEAN /\ k = x.ok
  BY <1>3
<1> HIDE DEF r, x, q, k
<1>7. /\ r \in VbkStates /\ r.refs = s.refs /\ r.tip = s.tip /\ r.btc = x.btc
      /\ r.ids = [s.ids EXCEPT ![v] = q] /\ r.ok = k
  <2> DEFINE I == [x.ids EXCEPT ![v] = q]
  <2>1. I \in [VbkBlocks -> Seq(Vtbs)] /\ I = [s.ids EXCEPT ![v] = q]
    BY <1>1, <1>3, <1>4, StateFacts
  <2> HIDE DEF I
  <2>2. r = WithIds(x, I, k)
    BY <1>5 DEF I
  <2> QED
    BY <2>1, <2>2, <1>3, <1>6, IdsMoved
<1>8. ASSUME NEW c \in BtcBlocks, NEW h \in Heights
      PROVE  r.btc[c][h] = s.btc[c][h] +
                 (IF h = VbkHeight[v] /\ v \in VbkAncestors[s.tip]
                    THEN Hits(q, Refers(c)) - Hits(s.ids[v], Refers(c)) ELSE 0)
  <2>1. /\ Hits(s.ids[v], Refers(c)) = Hits(q, Refers(c)) + (IF y \in Refers(c) THEN 1 ELSE 0)
        /\ Hits(q, Refers(c)) \in Nat
    BY <1>4, HitsType
  <2>2. Taken(y)[c][h] = IF h = VbkHeight[v] /\ y \in Refers(c) THEN -1 ELSE 0
    BY DEF Taken, Refers
  <2>3. s.btc[c][h] \in Int
    BY <1>1, StateFacts
  <2>4. CASE active
    <3>1. r.btc[c][h] = s.btc[c][h] + Taken(y)[c][h]
      BY <1>2, <1>7, <2>4 DEF BtcMoved, x
    <3> QED
      BY <2>1, <2>2, <2>4, <3>1
  <2>5. CASE ~active
    <3>1. r.btc[c][h] = s.btc[c][h]
      BY <1>7, <2>5 DEF x
    <3> QED
      BY <2>3, <2>5, <3>1
  <2> QED
    BY <2>4, <2>5
<1>9. \A z \in ToSet(q) : Containing[z] = v
  BY <1>1, <1>4 DEF IdsOk
<1>10. Exact(r)
  <2> HIDE DEF v, active
  <2> QED
    BY <1>1, <1>4, <1>7, <1>8, <1>9, PatchedExact
<1> QED
  BY <1>6, <1>7, <1>10 DEF r, q, x

LEMMA RefsReplaced ==
    ASSUME NEW x \in VbkStates, NEW refs
    PROVE  [x EXCEPT !.refs = refs] = [refs |-> refs, ids |-> x.ids, tip |-> x.tip, btc |-> x.btc, ok |-> x.ok]
<1>1. x = [refs |-> x.refs, ids |-> x.ids, tip |-> x.tip, btc |-> x.btc, ok |-> x.ok]
  BY StateFacts
<1> QED
  BY <1>1

LEMMA RefsMoved ==
    ASSUME NEW x, Exact(x), NEW refs \in [VbkBlocks -> Int]
    PROVE  LET r == [x EXCEPT !.refs = refs]
           IN  Exact(r) /\ r.refs = refs /\ r.ids = x.ids /\ r.ok = x.ok /\ r.tip = x.tip
<1> DEFINE r == [x EXCEPT !.refs = refs]
<1>1. x \in VbkStates
  BY ExactFacts
<1>2. r = [refs |-> refs, ids |-> x.ids, tip |-> x.tip, btc |-> x.btc, ok |-> x.ok]
  BY <1>1, RefsReplaced
<1> HIDE DEF r
<1>3. /\ r \in VbkStates /\ r.refs = refs /\ r.ids = x.ids /\ r.tip = x.tip /\ r.btc = x.btc
      /\ r.ok = x.ok
  BY <1>1, <1>2, StateFacts DEF VbkStates
<1>4. Exact(r)
  BY <1>3 DEF Exact, AppliedUpTo
<1> QED
  BY <1>3, <1>4 DEF r

LEMMA OneRefMoved ==
    ASSUME NEW x, Exact(x), NEW v \in VbkBlocks, NEW n \in Int
    PROVE  LET r == [x EXCEPT !.refs[v] = n]
           IN  /\ Exact(r) /\ r.refs = [x.refs EXCEPT ![v] = n]
               /\ r.ids = x.ids /\ r.ok = x.ok /\ r.tip = x.tip
<1> DEFINE R == [x.refs EXCEPT ![v] = n]
<1>1. x \in VbkStates
  BY ExactFacts
<1>2. [x EXCEPT !.refs[v] = n] = [x EXCEPT !.refs = R]
  BY <1>1, StateFacts
<1>3. R \in [VbkBlocks -> Int]
  BY <1>1, StateFacts
<1> HIDE DEF R
<1>4. LET r == [x EXCEPT !.refs = R]
      IN  Exact(r) /\ r.refs = R /\ r.ids = x.ids /\ r.ok = x.ok /\ r.tip = x.tip
  BY <1>3, RefsMoved
<1> QED
  BY <1>2, <1>4 DEF R

\* The states that adding the VTB y may leave.
VtbAdded(r, s, y) ==
    /\ Exact(r) /\ r.refs = s.refs
    /\ Len(s.ids[Containing[y]]) < MaxVtbs
    /\ r.ids = [s.ids EXCEPT ![Containing[y]] = Append(s.ids[Containing[y]], y)]

LEMMA AddVtbEffect ==
    ASSUME NEW s, Exact(s), NEW y \in Vtbs, NEW r \in AddVtb(s, y)
    PROVE  VtbAdded(r, s, y)
<1> DEFINE v == Containing[y]
           at == At(s, v)
           added == [ExecuteVtb(at, y) EXCEPT !.ids[v] = Append(@, y)]
<1>1. v \in VbkBlocks /\ s \in VbkStates /\ s.tip \in VbkBlocks
  BY VtbFacts, ExactFacts, StateFacts
<1>2. Alike(at, s) /\ v \in VbkAncestors[at.tip]
  BY <1>1, AtEffect
<1>3. Exact(at) /\ at.refs = s.refs /\ at.ids = s.ids
  BY <1>2 DEF Alike
<1>4. ~(s.refs[v] = 0 \/ ~VtbFits(at, y))
  BY DEF AddVtb
<1>5. Len(s.ids[v]) < MaxVtbs
  BY <1>3, <1>4 DEF VtbFits
<1>6. \/ r \in Resolve(added, TipsAbove(added, v))
      \/ \E x \in Resolve(added, TipsAbove(added, v)) : r \in Resolve(x, TipsAbove(x, s.tip))
  BY <1>4 DEF AddVtb
<1> HIDE DEF at
<1>7. Exact(added) /\ added.refs = s.refs /\ added.ids = [s.ids EXCEPT ![v] = Append(s.ids[v], y)]
  <2>1. Exact(added) /\ added.refs = at.refs /\ added.ids = [at.ids EXCEPT ![v] = Append(at.ids[v], y)]
    BY <1>2, <1>3, AddedExact
  <2> HIDE DEF added
  <2> QED
    BY <2>1, <1>3
<1> HIDE DEF added
<1>8. \A x \in Resolve(added, TipsAbove(added, v)) : Alike(x, added)
  BY <1>7, ResolveEffect, CandidatesAreBlocks
<1>9. Alike(r, added)
  <2>1. CASE r \in Resolve(added, TipsAbove(added, v))
    BY <1>8, <2>1
  <2>2. CASE \E x \in Resolve(added, TipsAbove(added, v)) : r \in Resolve(x, TipsAbove(x, s.tip))
    <3>1. PICK x \in Resolve(added, TipsAbove(added, v)) : r \in Resolve(x, TipsAbove(x, s.tip))
      BY <2>2
    <3>2. Alike(x, added)
      BY <1>8
    <3>3. Exact(x)
      BY <3>2 DEF Alike
    <3>4. Alike(r, x)
      BY <3>1, <3>3, ResolveEffect, CandidatesAreBlocks
    <3> QED
      BY <3>2, <3>4, AlikeTransitive
  <2> QED
    BY <1>6, <2>1, <2>2
<1> QED
  BY <1>5, <1>7, <1>9 DEF Alike, VtbAdded

\* r is an exact state with n references to the block v and s otherwise.
RefsSet(r, s, v, n) == Exact(r) /\ r.ids = s.ids /\ r.refs = [s.refs EXCEPT ![v] = n]

LEMMA AddVbkBlockEffect ==
    ASSUME NEW s, Exact(s), NEW v \in VbkBlocks, NEW r \in AddVbkBlock(s, v)
    PROVE  RefsSet(r, s, v, IF s.refs[v] > 0 THEN s.refs[v] + 1 ELSE 1)
<1>1. s \in VbkStates /\ s.refs[v] \in Int
  BY ExactFacts, StateFacts
<1>2. CASE s.refs[v] > 0
  <2>1. r = [s EXCEPT !.refs[v] = s.refs[v] + 1]
    BY <1>2 DEF AddVbkBlock
  <2>2. s.refs[v] + 1 \in Int
    BY <1>1
  <2> QED
    BY <1>2, <2>1, <2>2, OneRefMoved DEF RefsSet
<1>3. CASE ~(s.refs[v] > 0)
  <2> DEFINE x == [s EXCEPT !.refs[v] = 1]
  <2>1. r \in Resolve(x, {v})
    BY <1>3 DEF AddVbkBlock
  <2>2. Exact(x) /\ x.refs = [s.refs EXCEPT ![v] = 1] /\ x.ids = s.ids
    BY OneRefMoved
  <2> HIDE DEF x
  <2>3. Alike(r, x)
    BY <2>1, <2>2, ResolveEffect
  <2> QED
    BY <1>3, <2>2, <2>3 DEF Alike, RefsSet
<1> QED
  BY <1>2, <1>3

LEMMA RemoveVbkBlockEffect ==
    ASSUME NEW s, Exact(s), NEW v \in VbkBlocks \ {VbkRoot}
    PROVE  RefsSet(RemoveVbkBlock(s, v), s, v, IF s.refs[v] > 1 THEN s.refs[v] - 1 ELSE 0)
<1> DEFINE r == RemoveVbkBlock(s, v)
<1>1. s \in VbkStates /\ s.refs[v] \in Int /\ VbkPrev[v] \in VbkBlocks
  BY ExactFacts, StateFacts, VbkAssumption
<1>2. CASE s.refs[v] > 1
  <2>1. r = [s EXCEPT !.refs[v] = s.refs[v] - 1]
    BY <1>2 DEF RemoveVbkBlock
  <2>2. s.refs[v] - 1 \in Int
    BY <1>1
  <2> HIDE DEF r
  <2>3. RefsSet(r, s, v, IF s.refs[v] > 1 THEN s.refs[v] - 1 ELSE 0)
    BY <1>2, <2>1, <2>2, OneRefMoved DEF RefsSet
  <2> QED
    BY <2>3 DEF r
<1>3. CASE ~(s.refs[v] > 1)
  <2> DEFINE out == IF v \in VbkAncestors[s.tip] THEN SetVbkState(s, VbkPrev[v]) ELSE s
             unused == /\ v \in VbkTips(s)
                       /\ s.ids[v] = <<>>
                       /\ \A a \in VbkAncestors[s.tip] : \A y \in ToSet(s.ids[a]) : Endorsed[y] # v
             x == [out EXCEPT !.refs[v] = 0]
             k == x.ok /\ s.refs[v] = 1 /\ unused
  <2>1. r = [x EXCEPT !.ok = k]
    BY <1>3 DEF RemoveVbkBlock
  <2>2. Alike(out, s)
    BY <1>1, SetVbkStateEffect, ExactFacts
  <2> HIDE DEF out
  <2>3. Exact(out) /\ out.ids = s.ids /\ out.refs = s.refs
    BY <2>2 DEF Alike
  <2>4. Exact(x) /\ x.refs = [s.refs EXCEPT ![v] = 0] /\ x.ids = s.ids
    BY <2>3, OneRefMoved
  <2> HIDE DEF x
  <2>5. k \in BOOLEAN
    BY <2>4, ExactFacts, StateFacts
  <2> HIDE DEF k, r
  <2>6. Alike(r, x)
    BY <2>1, <2>4, <2>5, OkMoved
  <2>7. RefsSet(r, s, v, IF s.refs[v] > 1 THEN s.refs[v] - 1 ELSE 0)
    BY <1>3, <2>4, <2>6 DEF Alike, RefsSet
  <2> QED
    BY <2>7 DEF r
<1> QED
  BY <1>2, <1>3

LEMMA RefusedEffect ==
    ASSUME NEW s, Exact(s), NEW c \in Commands
    PROVE  Alike(Refused(s, c), s)
<1>1. CASE c \in Vtbs /\ s.refs[Containing[c]] > 0
  <2> DEFINE at == At(s, Containing[c])
  <2>1. Containing[c] \in VbkBlocks /\ s.tip \in VbkBlocks
    BY <1>1, VtbFacts, ExactFacts, StateFacts
  <2>2. Alike(at, s)
    BY <2>1, AtEffect
  <2>3. Refused(s, c) = SetVbkState(at, s.tip)
    BY <1>1 DEF Refused
  <2> HIDE DEF at
  <2>4. Exact(at)
    BY <2>2 DEF Alike
  <2>5. Alike(SetVbkState(at, s.tip), at)
    BY <2>1, <2>4, SetVbkStateEffect
  <2> QED
    BY <2>2, <2>3, <2>5, AlikeTransitive
<1>2. CASE ~(c \in Vtbs /\ s.refs[Containing[c]] > 0)
  BY <1>2, ExactFacts DEF Refused
<1> QED
  BY <1>1, <1>2

-----------------------------------------------------------------------------
(* What the applied altchain branches have put into the VBK tree.           *)

VtbsOf(v) == {y \in Vtbs : Containing[y] = v}

\* The blocks and VTBs of s are those of the commands in m and r.
Carries(s, m, r) ==
    /\ \A v \in VbkBlocks : \A P \in SUBSET VtbsOf(v) : Hits(s.ids[v], P) = Hits(m, P) + Hits(r, P)
    /\ \A v \in VbkBlocks : s.refs[v] = IF v \in VbkBase THEN 1 ELSE Hits(m, {v}) + Hits(r, {v})
    /\ \A v \in VbkBlocks : Len(s.ids[v]) <= MaxVtbs

\* m and r have one command c more than k and l.
OneMore(m, r, k, l, c) ==
    \A P : /\ Hits(m, P) + Hits(r, P) = Hits(k, P) + Hits(l, P) + (IF c \in P THEN 1 ELSE 0)
           /\ Hits(m, P) \in Nat /\ Hits(r, P) \in Nat /\ Hits(k, P) \in Nat /\ Hits(l, P) \in Nat

LEMMA CommandFacts ==
    ASSUME NEW c \in Commands
    PROVE  \/ c \in Vtbs /\ \A v \in VbkBlocks : c # v
           \/ c \notin Vtbs /\ c \in VbkBlocks \ {VbkRoot} /\ c \notin VbkBase
BY VbkAssumption, VtbAssumption DEF Commands

LEMMA ExecuteKeeps ==
    ASSUME NEW s, Exact(s), NEW m, NEW r, NEW k, NEW l, NEW c \in Commands,
           Carries(s, k, l), OneMore(m, r, k, l, c), NEW x \in Execute(s, c)
    PROVE  Exact(x) /\ Carries(x, m, r)
<1>1. s \in VbkStates /\ s.ids \in [VbkBlocks -> Seq(Vtbs)] /\ s.refs \in [VbkBlocks -> Int]
  BY ExactFacts, StateFacts
<1>2. CASE c \in Vtbs
  <2> DEFINE v == Containing[c]
  <2>1. VtbAdded(x, s, c)
    BY <1>2, AddVtbEffect DEF Execute
  <2>2. v \in VbkBlocks /\ \A w \in VbkBlocks : c # w
    BY <1>2, VtbFacts, CommandFacts
  <2>3. /\ Exact(x) /\ x.refs = s.refs /\ Len(s.ids[v]) < MaxVtbs
        /\ x.ids[v] = Append(s.ids[v], c)
        /\ \A w \in VbkBlocks : w # v => x.ids[w] = s.ids[w]
    <3>1. x.ids = [s.ids EXCEPT ![v] = Append(s.ids[v], c)]
      BY <2>1 DEF VtbAdded
    <3>2. x.ids[v] = Append(s.ids[v], c) /\ \A w \in VbkBlocks : w # v => x.ids[w] = s.ids[w]
      BY <1>1, <2>2, <3>1
    <3> QED
      BY <2>1, <3>2 DEF VtbAdded
  <2>4. ASSUME NEW w \in VbkBlocks, NEW P \in SUBSET VtbsOf(w)
        PROVE  Hits(x.ids[w], P) = Hits(m, P) + Hits(r, P)
    <3>1. Hits(s.ids[w], P) = Hits(k, P) + Hits(l, P)
      BY DEF Carries
    <3>2. /\ Hits(m, P) + Hits(r, P) = Hits(k, P) + Hits(l, P) + (IF c \in P THEN 1 ELSE 0)
          /\ Hits(k, P) \in Nat /\ Hits(l, P) \in Nat
      BY DEF OneMore
    <3>3. CASE w = v
      <4>1. Hits(Append(s.ids[v], c), P) = Hits(s.ids[v], P) + (IF c \in P THEN 1 ELSE 0)
        BY <1>1, <1>2, <2>2, HitsAppend
      <4> QED
        BY <2>3, <3>1, <3>2, <3>3, <4>1
    <3>4. CASE w # v
      <4>1. c \notin P
        BY <3>4 DEF VtbsOf
      <4> QED
        BY <2>3, <3>1, <3>2, <3>4, <4>1
    <3> QED
      BY <3>3, <3>4
  <2>5. ASSUME NEW w \in VbkBlocks
        PROVE  x.refs[w] = IF w \in VbkBase THEN 1 ELSE Hits(m, {w}) + Hits(r, {w})
    <3>1. Hits(m, {w}) + Hits(r, {w}) = Hits(k, {w}) + Hits(l, {w})
      <4>1. /\ Hits(m, {w}) + Hits(r, {w}) = Hits(k, {w}) + Hits(l, {w}) + (IF c \in {w} THEN 1 ELSE 0)
            /\ Hits(k, {w}) \in Nat /\ Hits(l, {w}) \in Nat
        BY DEF OneMore
      <4>2. c \notin {w}
        BY <2>2
      <4> QED
        BY <4>1, <4>2
    <3> QED
      BY <2>3, <3>1 DEF Carries
  <2>6. ASSUME NEW w \in VbkBlocks PROVE Len(x.ids[w]) <= MaxVtbs
    <3>1. CASE w = v
      <4>1. Len(x.ids[w]) = Len(s.ids[v]) + 1 /\ Len(s.ids[v]) \in Nat
        BY <1>1, <1>2, <2>2, <2>3, <3>1, AppendToSet
      <4> QED
        BY <2>3, <4>1, VtbAssumption
    <3>2. CASE w # v
      BY <2>3, <3>2 DEF Carries
    <3> QED
      BY <3>1, <3>2
  <2> QED
    BY <2>3, <2>4, <2>5, <2>6 DEF Carries
<1>3. CASE c \notin Vtbs
  <2> DEFINE n == IF s.refs[c] > 0 THEN s.refs[c] + 1 ELSE 1
  <2>1. c \in VbkBlocks /\ c \notin VbkBase
    BY <1>3, CommandFacts
  <2>2. RefsSet(x, s, c, n)
    BY <1>3, <2>1, AddVbkBlockEffect DEF Execute
  <2>3. Exact(x) /\ x.ids = s.ids /\ x.refs = [s.refs EXCEPT ![c] = n]
    BY <2>2 DEF RefsSet
  <2>4. ASSUME NEW w \in VbkBlocks, NEW P \in SUBSET VtbsOf(w)
        PROVE  Hits(x.ids[w], P) = Hits(m, P) + Hits(r, P)
    <3>1. Hits(s.ids[w], P) = Hits(k, P) + Hits(l, P)
      BY DEF Carries
    <3>2. /\ Hits(m, P) + Hits(r, P) = Hits(k, P) + Hits(l, P) + (IF c \in P THEN 1 ELSE 0)
          /\ Hits(k, P) \in Nat /\ Hits(l, P) \in Nat
      BY DEF OneMore
    <3>3. c \notin P
      BY <1>3 DEF VtbsOf
    <3> QED
      BY <2>3, <3>1, <3>2, <3>3
  <2>5. ASSUME NEW w \in VbkBlocks
        PROVE  x.refs[w] = IF w \in VbkBase THEN 1 ELSE Hits(m, {w}) + Hits(r, {w})
    <3>1. /\ Hits(m, {w}) + Hits(r, {w}) = Hits(k, {w}) + Hits(l, {w}) + (IF c \in {w} THEN 1 ELSE 0)
          /\ Hits(k, {w}) \in Nat /\ Hits(l, {w}) \in Nat
      BY DEF OneMore
    <3>2. s.refs[w] = IF w \in VbkBase THEN 1 ELSE Hits(k, {w}) + Hits(l, {w})
      BY DEF Carries
    <3>3. CASE w = c
      <4>1. x.refs[w] = n
        BY <1>1, <2>3, <3>3
      <4> QED
        BY <2>1, <3>1, <3>2, <3>3, <4>1
    <3>4. CASE w # c
      <4>1. x.refs[w] = s.refs[w]
        BY <1>1, <2>3, <3>4
      <4>2. c \notin {w}
        BY <3>4
      <4> QED
        BY <3>1, <3>2, <4>1, <4>2
    <3> QED
      BY <3>3, <3>4
  <2> QED
    BY <2>3, <2>4, <2>5 DEF Carries
<1> QED
  BY <1>2, <1>3

LEMMA UnExecuteKeeps ==
    ASSUME NEW s, Exact(s), NEW m, NEW r, NEW k, NEW l, NEW c \in Commands,
           Carries(s, k, l), OneMore(k, l, m, r, c)
    PROVE  Exact(UnExecute(s, c)) /\ Carries(UnExecute(s, c), m, r)
<1> DEFINE x == UnExecute(s, c)
<1>1. s \in VbkStates /\ s.ids \in [VbkBlocks -> Seq(Vtbs)] /\ s.refs \in [VbkBlocks -> Int]
  BY ExactFacts, StateFacts
<1>2. CASE c \in Vtbs
  <2> DEFINE v == Containing[c]
             q == RemoveFirst(s.ids[v], c)
  <2>1. v \in VbkBlocks /\ s.ids[v] \in Seq(Vtbs) /\ \A w \in VbkBlocks : c # w
    BY <1>1, <1>2, VtbFacts, CommandFacts
  <2>2. c \in ToSet(s.ids[v])
    <3>1. {c} \in SUBSET VtbsOf(v) /\ c \in {c}
      BY <1>2 DEF VtbsOf
    <3>2. /\ Hits(s.ids[v], {c}) = Hits(k, {c}) + Hits(l, {c})
          /\ Hits(k, {c}) + Hits(l, {c}) = Hits(m, {c}) + Hits(r, {c}) + 1
          /\ Hits(m, {c}) \in Nat /\ Hits(r, {c}) \in Nat
      BY <2>1, <3>1 DEF Carries, OneMore
    <3>3. Hits(s.ids[v], {c}) # 0
      BY <3>2
    <3>4. HitsOf(s.ids[v], {c}) # {}
      BY <3>3, FS_EmptySet DEF Hits
    <3> QED
      BY <3>4, <2>1 DEF HitsOf, ToSet
  <2>3. Exact(x) /\ x.refs = s.refs /\ x.ids = [s.ids EXCEPT ![v] = q]
    BY <1>2, <2>2, RemoveVtbEffect DEF UnExecute
  <2>4. /\ Len(q) = Len(s.ids[v]) - 1
        /\ \A P : Hits(s.ids[v], P) = Hits(q, P) + (IF c \in P THEN 1 ELSE 0)
        /\ \A P : Hits(q, P) \in Nat
    <3>1. q \in Seq(Vtbs)
      BY <1>2, <2>1, <2>2, RemoveFirstFacts
    <3>2. /\ Len(q) = Len(s.ids[v]) - 1
          /\ \A P : Hits(s.ids[v], P) = Hits(q, P) + (IF c \in P THEN 1 ELSE 0)
      BY <1>2, <2>1, <2>2, RemoveFirstFacts
    <3> HIDE DEF q, v
    <3>3. \A P : Hits(q, P) \in Nat
      BY <3>1, HitsType
    <3> QED
      BY <3>2, <3>3
  <2> HIDE DEF x, q
  <2>5. x.ids[v] = q /\ \A w \in VbkBlocks : w # v => x.ids[w] = s.ids[w]
    BY <1>1, <2>1, <2>3
  <2>6. ASSUME NEW w \in VbkBlocks, NEW P \in SUBSET VtbsOf(w)
        PROVE  Hits(x.ids[w], P) = Hits(m, P) + Hits(r, P)
    <3>1. Hits(s.ids[w], P) = Hits(k, P) + Hits(l, P)
      BY DEF Carries
    <3>2. /\ Hits(k, P) + Hits(l, P) = Hits(m, P) + Hits(r, P) + (IF c \in P THEN 1 ELSE 0)
          /\ Hits(m, P) \in Nat /\ Hits(r, P) \in Nat
      BY DEF OneMore
    <3>3. CASE w = v
      <4>1. Hits(s.ids[v], P) = Hits(q, P) + (IF c \in P THEN 1 ELSE 0) /\ Hits(q, P) \in Nat
        BY <2>4
      <4> QED
        BY <2>5, <3>1, <3>2, <3>3, <4>1
    <3>4. CASE w # v
      <4>1. c \notin P
        BY <3>4 DEF VtbsOf
      <4> QED
        BY <2>5, <3>1, <3>2, <3>4, <4>1
    <3> QED
      BY <3>3, <3>4
  <2>7. ASSUME NEW w \in VbkBlocks
        PROVE  x.refs[w] = IF w \in VbkBase THEN 1 ELSE Hits(m, {w}) + Hits(r, {w})
    <3>1. Hits(m, {w}) + Hits(r, {w}) = Hits(k, {w}) + Hits(l, {w})
      <4>1. /\ Hits(k, {w}) + Hits(l, {w}) = Hits(m, {w}) + Hits(r, {w}) + (IF c \in {w} THEN 1 ELSE 0)
            /\ Hits(m, {w}) \in Nat /\ Hits(r, {w}) \in Nat
        BY DEF OneMore
      <4>2. c \notin {w}
        BY <2>1
      <4> QED
        BY <4>1, <4>2
    <3> QED
      BY <2>3, <3>1 DEF Carries
  <2>8. ASSUME NEW w \in VbkBlocks PROVE Len(x.ids[w]) <= MaxVtbs
    <3>1. Len(s.ids[w]) <= MaxVtbs /\ Len(s.ids[w]) \in Nat
      BY <1>1 DEF Carries
    <3>2. w = v => Len(x.ids[w]) = Len(s.ids[w]) - 1
      BY <2>4, <2>5
    <3> QED
      BY <2>5, <3>1, <3>2, VtbAssumption
  <2>9. Exact(x) /\ Carries(x, m, r)
    BY <2>3, <2>6, <2>7, <2>8 DEF Carries
  <2> QED
    BY <2>9 DEF x
<1>3. CASE c \notin Vtbs
  <2> DEFINE n == IF s.refs[c] > 1 THEN s.refs[c] - 1 ELSE 0
  <2>1. c \in VbkBlocks \ {VbkRoot} /\ c \notin VbkBase
    BY <1>3, CommandFacts
  <2>2. RefsSet(x, s, c, n)
    BY <1>3, <2>1, RemoveVbkBlockEffect DEF UnExecute
  <2> HIDE DEF x
  <2>3. Exact(x) /\ x.ids = s.ids /\ x.refs = [s.refs EXCEPT ![c] = n]
    BY <2>2 DEF RefsSet
  <2>4. ASSUME NEW w \in VbkBlocks, NEW P \in SUBSET VtbsOf(w)
        PROVE  Hits(x.ids[w], P) = Hits(m, P) + Hits(r, P)
    <3>1. Hits(s.ids[w], P) = Hits(k, P) + Hits(l, P)
      BY DEF Carries
    <3>2. /\ Hits(k, P) + Hits(l, P) = Hits(m, P) + Hits(r, P) + (IF c \in P THEN 1 ELSE 0)
          /\ Hits(m, P) \in Nat /\ Hits(r, P) \in Nat
      BY DEF OneMore
    <3>3. c \notin P
      BY <1>3 DEF VtbsOf
    <3> QED
      BY <2>3, <3>1, <3>2, <3>3
  <2>5. ASSUME NEW w \in VbkBlocks
        PROVE  x.refs[w] = IF w \in VbkBase THEN 1 ELSE Hits(m, {w}) + Hits(r, {w})
    <3>1. /\ Hits(k, {w}) + Hits(l, {w}) = Hits(m, {w}) + Hits(r, {w}) + (IF c \in {w} THEN 1 ELSE 0)
          /\ Hits(m, {w}) \in Nat /\ Hits(r, {w}) \in Nat
      BY DEF OneMore
    <3>2. s.refs[w] = IF w \in VbkBase THEN 1 ELSE Hits(k, {w}) + Hits(l, {w})
      BY DEF Carries
    <3>3. CASE w = c
      <4>1. x.refs[w] = n
        BY <1>1, <2>3, <3>3
      <4> QED
        BY <2>1, <3>1, <3>2, <3>3, <4>1
    <3>4. CASE w # c
      <4>1. x.refs[w] = s.refs[w]
        BY <1>1, <2>3, <3>4
      <4>2. c \notin {w}
        BY <3>4
      <4> QED
        BY <3>1, <3>2, <4>1, <4>2
    <3> QED
      BY <3>3, <3>4
  <2>6. Exact(x) /\ Carries(x, m, r)
    BY <2>3, <2>4, <2>5 DEF Carries
  <2> QED
    BY <2>6 DEF x
<1> QED
  BY <1>2, <1>3

LEMMA AlikeCarries ==
    ASSUME NEW s, NEW x, NEW m, NEW r, Alike(x, s), Carries(s, m, r)
    PROVE  Exact(x) /\ Carries(x, m, r)
BY DEF Alike, Carries

-----------------------------------------------------------------------------
(* The inductive invariant.                                                 *)

Operations ==
    [phase : {"beside", "trim", "clear", "apply", "drop", "redo"}, fork : Nat, was : Seq(Commands),
     before : VbkStates, free : BOOLEAN, rest : Seq(Commands)]

\* What an operation has saved is the state that its old chain left.
Saved(o) ==
    /\ o \in Operations
    /\ Exact(o.before) /\ o.before.ok /\ Carries(o.before, o.was, <<>>)

\* A failed operation has undone its candidate before it applies the old chain again.
VbkInv ==
    /\ Exact(vbk)
    /\ main \in Seq(Commands) /\ rival \in Seq(Commands)
    /\ Carries(vbk, main, rival)
    /\ op.phase \in {"idle", "redo"} => rival = <<>>
    /\ op.phase # "idle" => Saved(op)

LEMMA AppendOneMore ==
    ASSUME NEW m \in Seq(Commands), NEW r \in Seq(Commands), NEW c \in Commands
    PROVE  OneMore(Append(m, c), r, m, r, c) /\ OneMore(m, Append(r, c), m, r, c)
<1>1. Append(m, c) \in Seq(Commands) /\ Append(r, c) \in Seq(Commands)
  OBVIOUS
<1>2. ASSUME NEW P
      PROVE  /\ Hits(m, P) \in Nat /\ Hits(r, P) \in Nat
             /\ Hits(Append(m, c), P) \in Nat /\ Hits(Append(r, c), P) \in Nat
             /\ Hits(Append(m, c), P) = Hits(m, P) + (IF c \in P THEN 1 ELSE 0)
             /\ Hits(Append(r, c), P) = Hits(r, P) + (IF c \in P THEN 1 ELSE 0)
  BY <1>1, HitsType, HitsAppend
<1>3. ASSUME NEW P
      PROVE  /\ Hits(Append(m, c), P) + Hits(r, P) = Hits(m, P) + Hits(r, P) + (IF c \in P THEN 1 ELSE 0)
             /\ Hits(m, P) + Hits(Append(r, c), P) = Hits(m, P) + Hits(r, P) + (IF c \in P THEN 1 ELSE 0)
  BY <1>2
<1> QED
  BY <1>2, <1>3 DEF OneMore

LEMMA FrontOneMore ==
    ASSUME NEW m \in Seq(Commands), NEW r \in Seq(Commands)
    PROVE  /\ m # <<>> => OneMore(m, r, Front(m), r, Last(m)) /\ Front(m) \in Seq(Commands) /\ Last(m) \in Commands
           /\ r # <<>> => OneMore(m, r, m, Front(r), Last(r)) /\ Front(r) \in Seq(Commands) /\ Last(r) \in Commands
<1>1. ASSUME NEW q \in Seq(Commands), q # <<>>, NEW P
      PROVE  /\ Front(q) \in Seq(Commands) /\ Last(q) \in Commands
             /\ Hits(q, P) = Hits(Front(q), P) + (IF Last(q) \in P THEN 1 ELSE 0)
             /\ Hits(q, P) \in Nat /\ Hits(Front(q), P) \in Nat
  <2>1. /\ Front(q) \in Seq(Commands) /\ Last(q) \in Commands
        /\ Hits(q, P) = Hits(Front(q), P) + (IF Last(q) \in P THEN 1 ELSE 0)
    BY <1>1, HitsFront
  <2> QED
    BY <2>1, HitsType
<1>2. \A P : Hits(m, P) \in Nat /\ Hits(r, P) \in Nat
  BY HitsType
<1>3. ASSUME m # <<>>
      PROVE  OneMore(m, r, Front(m), r, Last(m)) /\ Front(m) \in Seq(Commands) /\ Last(m) \in Commands
  <2>1. ASSUME NEW P
        PROVE  /\ Hits(m, P) = Hits(Front(m), P) + (IF Last(m) \in P THEN 1 ELSE 0)
               /\ Hits(Front(m), P) \in Nat
    BY <1>1, <1>3
  <2>2. ASSUME NEW P
        PROVE  Hits(m, P) + Hits(r, P) = Hits(Front(m), P) + Hits(r, P) + (IF Last(m) \in P THEN 1 ELSE 0)
    BY <1>2, <2>1
  <2> QED
    BY <1>1, <1>2, <1>3, <2>1, <2>2 DEF OneMore
<1>4. ASSUME r # <<>>
      PROVE  OneMore(m, r, m, Front(r), Last(r)) /\ Front(r) \in Seq(Commands) /\ Last(r) \in Commands
  <2>1. ASSUME NEW P
        PROVE  /\ Hits(r, P) = Hits(Front(r), P) + (IF Last(r) \in P THEN 1 ELSE 0)
               /\ Hits(Front(r), P) \in Nat
    BY <1>1, <1>4
  <2>2. ASSUME NEW P
        PROVE  Hits(m, P) + Hits(r, P) = Hits(m, P) + Hits(Front(r), P) + (IF Last(r) \in P THEN 1 ELSE 0)
    BY <1>2, <2>1
  <2> QED
    BY <1>1, <1>2, <1>4, <2>1, <2>2 DEF OneMore
<1> QED
  BY <1>3, <1>4

LEMMA JoinedCarries ==
    ASSUME NEW s, NEW m \in Seq(Commands), NEW r \in Seq(Commands), Carries(s, m, r)
    PROVE  m \o r \in Seq(Commands) /\ Carries(s, m \o r, <<>>)
<1>1. m \o r \in Seq(Commands)
  BY ConcatFacts
<1>2. ASSUME NEW P PROVE Hits(m, P) + Hits(r, P) = Hits(m \o r, P) + Hits(<<>>, P)
  <2>1. Hits(m \o r, P) = Hits(m, P) + Hits(r, P) /\ Hits(m, P) \in Nat /\ Hits(r, P) \in Nat
    BY HitsConcat, HitsType
  <2> QED
    BY <2>1, HitsEmpty
<1> QED
  BY <1>1, <1>2 DEF Carries

\* Only the root of the BTC tree is referenced while no VBK block but the root is applied.
BootstrapBtc == [c \in BtcBlocks |-> [h \in Heights |-> Bootstrapped(c, h)]]

LEMMA RootIsExact ==
    ASSUME NEW s \in VbkStates, IdsOk(s.ids), s.tip = VbkRoot, s.btc = BootstrapBtc
    PROVE  Exact(s)
<1>1. s.ids[VbkRoot] = <<>> /\ VbkRoot \in VbkBlocks
  <2>1. VbkRoot \in VbkBlocks /\ s.ids[VbkRoot] \in Seq(Vtbs)
    BY VbkChainFacts, StateFacts
  <2>2. \A y \in ToSet(s.ids[VbkRoot]) : y \in Vtbs /\ Containing[y] = VbkRoot
    BY <2>1 DEF IdsOk, ToSet
  <2>3. \A y : y \notin ToSet(s.ids[VbkRoot])
    BY <2>2, VtbAssumption
  <2>4. DOMAIN s.ids[VbkRoot] = {}
    BY <2>3 DEF ToSet
  <2>5. ASSUME NEW q \in Seq(Vtbs), DOMAIN q = {} PROVE q = <<>>
    <3>1. Len(q) \in Nat /\ DOMAIN q = 1 .. Len(q)
      OBVIOUS
    <3>2. Len(q) = 0
      BY <2>5, <3>1
    <3> QED
      BY <3>2
  <2> QED
    BY <2>1, <2>4, <2>5
<1>2. ASSUME NEW c \in BtcBlocks, NEW h \in Heights
      PROVE  s.btc[c][h] = RefsUpTo(s.ids, VbkRoot, VbkHeight[VbkRoot], c, h)
  <2>1. h \in VbkHeight[VbkRoot] .. VbkHeight[VbkRoot] => s.ids[VbkBlockAt(VbkRoot, h)] = <<>>
    <3>1. ASSUME h \in VbkHeight[VbkRoot] .. VbkHeight[VbkRoot]
          PROVE  VbkBlockAt(VbkRoot, h) = VbkRoot
      <4>1. h \in ChainHeights(VbkRoot)
        BY <3>1 DEF ChainHeights
      <4>2. VbkBlockAt(VbkRoot, h) \in VbkAncestors[VbkRoot]
        BY <1>1, <4>1, VbkBlockAtFacts
      <4> QED
        BY <4>2, VbkChainAssumption
    <3> QED
      BY <1>1, <3>1
  <2>2. Hits(<<>>, Refers(c)) = 0
    BY HitsEmpty
  <2>3. Bootstrapped(c, h) \in Nat /\ s.btc[c][h] = Bootstrapped(c, h)
    BY DEF Bootstrapped, BootstrapBtc
  <2> QED
    BY <2>1, <2>2, <2>3 DEF RefsUpTo
<1> QED
  BY <1>2 DEF Exact, AppliedUpTo

\* The bootstrapped tree: no VTB, and the root of the BTC tree.
Bootstrap ==
    [refs |-> [v \in VbkBlocks |-> IF v \in VbkBase THEN 1 ELSE 0], ids |-> [v \in VbkBlocks |-> <<>>],
     tip |-> VbkRoot, btc |-> BootstrapBtc, ok |-> TRUE]

LEMMA BootstrapFacts ==
    /\ Exact(Bootstrap) /\ Carries(Bootstrap, <<>>, <<>>)
    /\ Bootstrap.ok /\ Bootstrap.tip = VbkRoot
    /\ \A v \in VbkBlocks : /\ Bootstrap.refs[v] = (IF v \in VbkBase THEN 1 ELSE 0)
                             /\ Bootstrap.ids[v] = <<>>
<1> DEFINE R == [v \in VbkBlocks |-> IF v \in VbkBase THEN 1 ELSE 0]
           I == [v \in VbkBlocks |-> <<>>]
           s == [refs |-> R, ids |-> I, tip |-> VbkRoot, btc |-> BootstrapBtc, ok |-> TRUE]
<1>1. s = Bootstrap
  BY DEF Bootstrap
<1>2. R \in [VbkBlocks -> Int] /\ I \in [VbkBlocks -> Seq(Vtbs)] /\ VbkRoot \in VbkBlocks
      /\ BootstrapBtc \in [BtcBlocks -> [Heights -> Int]]
  BY VbkChainFacts DEF BootstrapBtc, Bootstrapped
<1>3. \A v \in VbkBlocks : R[v] = (IF v \in VbkBase THEN 1 ELSE 0) /\ I[v] = <<>>
  OBVIOUS
<1> HIDE DEF R, I
<1>4. /\ s \in VbkStates /\ s.refs = R /\ s.ids = I /\ s.tip = VbkRoot /\ s.btc = BootstrapBtc /\ s.ok
  BY <1>2 DEF VbkStates
<1> HIDE DEF s
<1>5. IdsOk(s.ids)
  BY <1>3, <1>4 DEF IdsOk, ToSet
<1>6. Exact(s)
  BY <1>4, <1>5, RootIsExact
<1>7. Carries(s, <<>>, <<>>)
  <2>1. \A P : Hits(<<>>, P) = 0 /\ 0 + 0 = 0
    BY HitsEmpty
  <2>2. Len(<<>>) = 0 /\ 0 <= MaxVtbs
    BY VtbAssumption
  <2> QED
    BY <2>1, <2>2, <1>3, <1>4 DEF Carries
<1> QED
  BY <1>1, <1>3, <1>4, <1>6, <1>7

LEMMA InitFacts ==
    ASSUME VbkInit
    PROVE  /\ \E t \in VbkBase : vbk = SetVbkState(Bootstrap, t)
           /\ main = <<>> /\ rival = <<>> /\ op.phase = "idle"
BY DEF VbkInit, Bootstrap, BootstrapBtc, Bootstrapped

LEMMA InitKeeps == VbkInit => VbkInv
<1> SUFFICES ASSUME VbkInit PROVE VbkInv
  OBVIOUS
<1>1. Alike(vbk, Bootstrap)
  BY InitFacts, BootstrapFacts, SetVbkStateEffect, VbkAssumption
<1>2. Exact(vbk) /\ Carries(vbk, <<>>, <<>>)
  BY <1>1, BootstrapFacts, AlikeCarries
<1> QED
  BY <1>2, InitFacts DEF VbkInv

\* The changes that the steps make to the operation keep what it has saved.
LEMMA PhaseSaved ==
    ASSUME NEW o, Saved(o), NEW p \in {"beside", "trim", "clear", "apply", "drop", "redo"}
    PROVE  Saved([o EXCEPT !.phase = p]) /\ [o EXCEPT !.phase = p].phase = p
<1> DEFINE n == [o EXCEPT !.phase = p]
<1>1. o \in Operations
  BY DEF Saved
<1>2. n \in Operations /\ n.phase = p /\ n.before = o.before /\ n.was = o.was
  BY <1>1 DEF Operations
<1> HIDE DEF n
<1>3. Saved(n) /\ n.phase = p
  BY <1>2 DEF Saved
<1> QED
  BY <1>3 DEF n

Chosen(o, p) == [o EXCEPT !.phase = p, !.free = FALSE]

LEMMA ChoiceSaved ==
    ASSUME NEW o, Saved(o), NEW p \in {"beside", "trim", "clear", "apply", "drop", "redo"}
    PROVE  Saved(Chosen(o, p)) /\ Chosen(o, p).phase = p
<1> DEFINE n == Chosen(o, p)
<1>1. o \in Operations
  BY DEF Saved
<1>2. n \in Operations /\ n.phase = p /\ n.before = o.before /\ n.was = o.was
  BY <1>1 DEF Operations, Chosen
<1> HIDE DEF n
<1>3. Saved(n) /\ n.phase = p
  BY <1>2 DEF Saved
<1> QED
  BY <1>3 DEF n

LEMMA RestSaved ==
    ASSUME NEW o, Saved(o), NEW q \in Seq(Commands)
    PROVE  Saved([o EXCEPT !.rest = q]) /\ [o EXCEPT !.rest = q].phase = o.phase
<1> DEFINE n == [o EXCEPT !.rest = q]
<1>1. o \in Operations
  BY DEF Saved
<1>2. n \in Operations /\ n.phase = o.phase /\ n.before = o.before /\ n.was = o.was
  BY <1>1 DEF Operations
<1> HIDE DEF n
<1>3. Saved(n) /\ n.phase = o.phase
  BY <1>2 DEF Saved
<1> QED
  BY <1>3 DEF n

LEMMA SavedFacts ==
    ASSUME NEW o, Saved(o)
    PROVE  o.was \in Seq(Commands) /\ o.rest \in Seq(Commands) /\ o.fork \in Nat
BY DEF Saved, Operations

LEMMA BeginKeeps ==
    ASSUME VbkInv, vbk.ok, NEW phase \in {"clear", "beside"}, NEW n \in Nat, NEW free \in BOOLEAN,
           Begin(phase, n, free)
    PROVE  VbkInv'
<1>1. /\ Exact(vbk) /\ main \in Seq(Commands) /\ rival = <<>> /\ Carries(vbk, main, <<>>)
  BY DEF VbkInv, Begin
<1>2. op' = [phase |-> phase, fork |-> n, was |-> main, before |-> vbk, free |-> free, rest |-> <<>>]
  BY DEF Begin
<1>3. op' \in Operations /\ op'.phase = phase /\ op'.was = main /\ op'.before = vbk
  <2>1. vbk \in VbkStates /\ <<>> \in Seq(Commands)
    BY <1>1, ExactFacts
  <2> QED
    BY <1>1, <1>2, <2>1 DEF Operations
<1>4. Saved(op')
  BY <1>1, <1>3 DEF Saved
<1>5. vbk' = vbk /\ main' = main /\ rival' = rival /\ op'.phase \notin {"idle", "redo"}
  BY <1>3 DEF Begin
<1> QED
  BY <1>1, <1>4, <1>5 DEF VbkInv

LEMMA PushKeeps ==
    ASSUME VbkInv, NEW c \in Commands, Push(c), op'.phase \notin {"idle", "redo"}, Saved(op')
    PROVE  VbkInv'
<1>1. Exact(vbk) /\ main \in Seq(Commands) /\ rival \in Seq(Commands) /\ Carries(vbk, main, rival)
  BY DEF VbkInv
<1>2. vbk' \in Execute(vbk, c) /\ rival' = Append(rival, c) /\ main' = main
  BY DEF Push
<1>3. OneMore(main, Append(rival, c), main, rival, c)
  BY <1>1, AppendOneMore
<1>4. Exact(vbk') /\ Carries(vbk', main, Append(rival, c))
  BY <1>1, <1>2, <1>3, ExecuteKeeps
<1>5. Append(rival, c) \in Seq(Commands)
  BY <1>1
<1> QED
  BY <1>1, <1>2, <1>4, <1>5 DEF VbkInv

LEMMA RefuseKeeps ==
    ASSUME VbkInv, NEW c \in Commands, Refuse(c), Saved(op)
    PROVE  VbkInv'
<1>1. Exact(vbk) /\ main \in Seq(Commands) /\ rival \in Seq(Commands) /\ Carries(vbk, main, rival)
  BY DEF VbkInv
<1>2. vbk' = Refused(vbk, c) /\ rival' = rival /\ main' = main /\ op' = [op EXCEPT !.phase = "drop"]
  BY DEF Refuse
<1>3. Exact(vbk') /\ Carries(vbk', main, rival)
  BY <1>1, <1>2, RefusedEffect, AlikeCarries
<1>4. Saved(op') /\ op'.phase = "drop"
  BY <1>2, PhaseSaved
<1> QED
  BY <1>1, <1>2, <1>3, <1>4 DEF VbkInv

LEMMA PopRivalKeeps ==
    ASSUME VbkInv, rival # <<>>, Pop(Last(rival)), rival' = Front(rival), main' = main,
           op'.phase \notin {"idle", "redo"}, Saved(op')
    PROVE  VbkInv' /\ Last(rival) \in Commands
<1>1. Exact(vbk) /\ main \in Seq(Commands) /\ rival \in Seq(Commands) /\ Carries(vbk, main, rival)
  BY DEF VbkInv
<1>2. vbk' = UnExecute(vbk, Last(rival))
  BY DEF Pop
<1>3. /\ OneMore(main, rival, main, Front(rival), Last(rival))
      /\ Front(rival) \in Seq(Commands) /\ Last(rival) \in Commands
  BY <1>1, FrontOneMore
<1>4. Exact(vbk') /\ Carries(vbk', main, Front(rival))
  BY <1>1, <1>2, <1>3, UnExecuteKeeps
<1> QED
  BY <1>1, <1>3, <1>4 DEF VbkInv

LEMMA PopMainKeeps ==
    ASSUME VbkInv, main # <<>>, Pop(Last(main)), main' = Front(main), rival' = rival,
           op'.phase \notin {"idle", "redo"}, Saved(op')
    PROVE  VbkInv'
<1>1. Exact(vbk) /\ main \in Seq(Commands) /\ rival \in Seq(Commands) /\ Carries(vbk, main, rival)
  BY DEF VbkInv
<1>2. vbk' = UnExecute(vbk, Last(main))
  BY DEF Pop
<1>3. /\ OneMore(main, rival, Front(main), rival, Last(main))
      /\ Front(main) \in Seq(Commands) /\ Last(main) \in Commands
  BY <1>1, FrontOneMore
<1>4. Exact(vbk') /\ Carries(vbk', Front(main), rival)
  BY <1>1, <1>2, <1>3, UnExecuteKeeps
<1> QED
  BY <1>1, <1>3, <1>4 DEF VbkInv

LEMMA PhaseKeeps ==
    ASSUME VbkInv, vbk' = vbk, main' = main, rival' = rival, Saved(op'),
           op'.phase = "redo" => rival = <<>>, op'.phase # "idle"
    PROVE  VbkInv'
BY DEF VbkInv

LEMMA BesideKeeps ==
    ASSUME VbkInv, Beside
    PROVE  VbkInv'
<1>1. op.phase = "beside" /\ Saved(op)
  BY DEF Beside, VbkInv
<1>2. PICK c \in Commands : Refuse(c) \/ (Push(c) /\ op' = op)
  BY DEF Beside
<1>3. CASE Refuse(c)
  BY <1>1, <1>3, RefuseKeeps
<1>4. CASE Push(c) /\ op' = op
  BY <1>1, <1>4, PushKeeps
<1> QED
  BY <1>2, <1>3, <1>4

LEMMA DecideKeeps ==
    ASSUME VbkInv, Decide
    PROVE  VbkInv'
<1>1. Saved(op)
  BY DEF Decide, VbkInv
<1>2. PICK phase \in {"drop", "trim"} : op' = Chosen(op, phase)
  BY DEF Decide, Chosen
<1>3. Saved(op') /\ op'.phase = phase
  <2>0. phase \in {"beside", "trim", "clear", "apply", "drop", "redo"}
    OBVIOUS
  <2>1. Saved(Chosen(op, phase)) /\ Chosen(op, phase).phase = phase
    BY <1>1, <2>0, ChoiceSaved
  <2> QED
    BY <1>2, <2>1
<1> QED
  BY <1>3, PhaseKeeps DEF Decide

LEMMA TrimKeeps ==
    ASSUME VbkInv, Trim
    PROVE  VbkInv'
<1>1. op.phase = "trim" /\ Saved(op) /\ rival \in Seq(Commands) /\ op.rest \in Seq(Commands)
  BY SavedFacts DEF Trim, VbkInv
<1>2. CASE /\ rival # <<>> /\ Pop(Last(rival)) /\ rival' = Front(rival)
           /\ op' = [op EXCEPT !.rest = <<Last(rival)>> \o @] /\ main' = main
  <2> DEFINE q == <<Last(rival)>> \o op.rest
  <2>1. q \in Seq(Commands)
    <3>1. Last(rival) \in Commands
      BY <1>1, <1>2, HitsFront
    <3>2. <<Last(rival)>> \in Seq(Commands)
      BY <3>1
    <3> QED
      BY <1>1, <3>2, ConcatFacts
  <2>2. op' = [op EXCEPT !.rest = q]
    BY <1>2
  <2> HIDE DEF q
  <2>3. Saved(op') /\ op'.phase = "trim"
    <3>1. Saved([op EXCEPT !.rest = q]) /\ [op EXCEPT !.rest = q].phase = op.phase
      BY <1>1, <2>1, RestSaved
    <3> QED
      BY <1>1, <2>2, <3>1
  <2> QED
    BY <1>2, <2>3, PopRivalKeeps
<1>3. CASE op' = [op EXCEPT !.phase = "clear"] /\ UNCHANGED <<vbk, deferred, main, rival>>
  <2>1. Saved(op') /\ op'.phase = "clear"
    BY <1>1, <1>3, PhaseSaved
  <2> QED
    BY <1>3, <2>1, PhaseKeeps
<1> QED
  BY <1>2, <1>3 DEF Trim

LEMMA ClearKeeps ==
    ASSUME VbkInv, Clear
    PROVE  VbkInv'
<1>1. op.phase = "clear" /\ Saved(op) /\ main \in Seq(Commands)
  BY DEF Clear, VbkInv
<1>2. op.fork \in Nat /\ (Len(main) > op.fork => main # <<>>)
  BY <1>1, SavedFacts
<1>3. CASE main # <<>> /\ Pop(Last(main)) /\ main' = Front(main) /\ rival' = rival /\ op' = op
  BY <1>1, <1>3, PopMainKeeps
<1>4. CASE op' = [op EXCEPT !.phase = "apply"] /\ UNCHANGED <<vbk, deferred, main, rival>>
  <2>1. Saved(op') /\ op'.phase = "apply"
    BY <1>1, <1>4, PhaseSaved
  <2> QED
    BY <1>4, <2>1, PhaseKeeps
<1> QED
  BY <1>2, <1>3, <1>4 DEF Clear

LEMMA ApplyKeeps ==
    ASSUME VbkInv, Apply
    PROVE  VbkInv'
<1>1. op.phase = "apply" /\ Saved(op) /\ op.rest \in Seq(Commands)
  BY SavedFacts DEF Apply, VbkInv
<1>2. CASE \E c \in Commands : Refuse(c) \/ (Push(c) /\ UNCHANGED op)
  <2>1. PICK c \in Commands : Refuse(c) \/ (Push(c) /\ op' = op)
    BY <1>2
  <2>2. CASE Refuse(c)
    BY <1>1, <2>2, RefuseKeeps
  <2>3. CASE Push(c) /\ op' = op
    BY <1>1, <2>3, PushKeeps
  <2> QED
    BY <2>1, <2>2, <2>3
<1>3. CASE /\ op.rest # <<>>
           /\ \/ Refuse(Head(op.rest))
              \/ Push(Head(op.rest)) /\ op' = [op EXCEPT !.rest = Tail(@)]
  <2> DEFINE q == Tail(op.rest)
  <2>1. Head(op.rest) \in Commands /\ q \in Seq(Commands)
    BY <1>1, <1>3
  <2>2. CASE Refuse(Head(op.rest))
    BY <1>1, <2>1, <2>2, RefuseKeeps
  <2>3. CASE Push(Head(op.rest)) /\ op' = [op EXCEPT !.rest = q]
    <3> HIDE DEF q
    <3>1. Saved(op') /\ op'.phase = "apply"
      <4>1. Saved([op EXCEPT !.rest = q]) /\ [op EXCEPT !.rest = q].phase = op.phase
        BY <1>1, <2>1, RestSaved
      <4> QED
        BY <1>1, <2>3, <4>1
    <3> QED
      BY <2>1, <2>3, <3>1, PushKeeps
  <2> QED
    BY <1>3, <2>2, <2>3
<1> QED
  BY <1>2, <1>3 DEF Apply

LEMMA FinishKeeps ==
    ASSUME VbkInv, Finish
    PROVE  VbkInv'
<1>1. Exact(vbk) /\ main \in Seq(Commands) /\ rival \in Seq(Commands) /\ Carries(vbk, main, rival)
  BY DEF VbkInv
<1>2. /\ vbk' \in Resolve(vbk, VbkTips(vbk)) \/ vbk' = vbk
      /\ main' = main \o rival /\ rival' = <<>> /\ op'.phase = "idle"
  BY DEF Finish
<1>3. Alike(vbk', vbk)
  <2>1. CASE vbk' \in Resolve(vbk, VbkTips(vbk))
    BY <1>1, <2>1, ResolveEffect, CandidatesAreBlocks
  <2>2. CASE vbk' = vbk
    BY <1>1, <2>2, ExactFacts
  <2> QED
    BY <1>2, <2>1, <2>2
<1>4. Exact(vbk') /\ Carries(vbk', main, rival)
  BY <1>1, <1>3, AlikeCarries
<1>5. main \o rival \in Seq(Commands) /\ Carries(vbk', main \o rival, <<>>)
  BY <1>1, <1>4, JoinedCarries
<1> QED
  BY <1>2, <1>4, <1>5 DEF VbkInv

LEMMA DropKeeps ==
    ASSUME VbkInv, Drop
    PROVE  VbkInv'
<1>1. op.phase = "drop" /\ Saved(op)
  BY DEF Drop, VbkInv
<1>2. CASE rival # <<>> /\ Pop(Last(rival)) /\ rival' = Front(rival) /\ UNCHANGED <<main, op>>
  BY <1>1, <1>2, PopRivalKeeps
<1>3. CASE rival = <<>> /\ op' = [op EXCEPT !.phase = "redo"] /\ UNCHANGED <<vbk, deferred, main, rival>>
  <2>1. Saved(op') /\ op'.phase = "redo"
    BY <1>1, <1>3, PhaseSaved
  <2> QED
    BY <1>3, <2>1, PhaseKeeps
<1> QED
  BY <1>2, <1>3 DEF Drop

LEMMA RedoKeeps ==
    ASSUME VbkInv, Redo
    PROVE  VbkInv'
<1> DEFINE c == op.was[Len(main) + 1]
<1>1. /\ Exact(vbk) /\ main \in Seq(Commands) /\ rival = <<>> /\ rival \in Seq(Commands)
      /\ Carries(vbk, main, rival) /\ op.phase = "redo" /\ Saved(op) /\ op.was \in Seq(Commands)
  BY SavedFacts DEF Redo, VbkInv
<1>2. /\ Len(main) < Len(op.was) /\ vbk' \in Execute(vbk, c) /\ main' = Append(main, c)
      /\ rival' = rival /\ op' = op
  BY DEF Redo
<1>3. c \in Commands
  BY <1>1, <1>2
<1> HIDE DEF c
<1>4. OneMore(Append(main, c), rival, main, rival, c) /\ Append(main, c) \in Seq(Commands)
  <2>1. Append(main, c) \in Seq(Commands)
    BY <1>1, <1>3
  <2> QED
    BY <1>1, <1>3, <2>1, AppendOneMore
<1>5. Exact(vbk') /\ Carries(vbk', Append(main, c), rival)
  BY <1>1, <1>2, <1>3, <1>4, ExecuteKeeps
<1> QED
  BY <1>1, <1>2, <1>4, <1>5 DEF VbkInv

\* The VBK tree after a failed operation has the blocks, the VTBs and the tip that
\* it had before.
LEMMA OverrideEffect ==
    ASSUME VbkInv, Override
    PROVE  /\ Alike(vbk', vbk) /\ vbk'.tip = op.before.tip /\ rival' = <<>> /\ rival = <<>>
           /\ main' = main /\ main = op.was /\ op'.phase = "idle" /\ Saved(op)
<1> DEFINE x == SetVbkState(vbk, op.before.tip)
           k == x.ok /\ op.before.tip \in InVbk(vbk)
<1>1. Exact(vbk) /\ rival = <<>> /\ Saved(op)
  BY DEF VbkInv, Override
<1>2. op.before.tip \in VbkBlocks
  <2>1. Exact(op.before)
    BY <1>1 DEF Saved
  <2> QED
    BY <2>1, ExactFacts, StateFacts
<1>3. Alike(x, vbk) /\ x.tip = op.before.tip
  BY <1>1, <1>2, SetVbkStateEffect
<1>4. vbk' = [x EXCEPT !.ok = k] /\ main' = main /\ main = op.was /\ rival' = rival /\ op'.phase = "idle"
  BY DEF Override
<1> HIDE DEF x
<1>5. Exact(x) /\ k \in BOOLEAN
  <2>1. Exact(x)
    BY <1>3 DEF Alike
  <2> QED
    BY <2>1, ExactFacts, StateFacts
<1> HIDE DEF k
<1>6. Alike(vbk', x) /\ vbk'.tip = x.tip
  BY <1>4, <1>5, OkMoved
<1> QED
  BY <1>1, <1>3, <1>4, <1>6, AlikeTransitive

LEMMA OverrideKeeps ==
    ASSUME VbkInv, Override
    PROVE  VbkInv'
<1>1. /\ Alike(vbk', vbk) /\ rival' = rival /\ main' = main /\ op'.phase = "idle" /\ rival' = <<>>
  BY OverrideEffect
<1>2. Carries(vbk, main, rival) /\ main \in Seq(Commands) /\ rival \in Seq(Commands)
  BY DEF VbkInv
<1>3. Exact(vbk') /\ Carries(vbk', main, rival)
  BY <1>1, <1>2, AlikeCarries
<1> QED
  BY <1>1, <1>2, <1>3 DEF VbkInv

LEMMA VbkNextKeeps ==
    ASSUME VbkInv, [VbkNext]_vbkVars
    PROVE  VbkInv'
<1>1. CASE UNCHANGED vbkVars
  BY <1>1 DEF vbkVars, VbkInv
<1>2. CASE VbkNext
  <2>0. vbk.ok /\ main \in Seq(Commands) /\ Len(main) \in Nat
    BY <1>2 DEF VbkNext, VbkInv
  <2>1. CASE BeginSetState
    <3>1. PICK n \in 0 .. Len(main) : Begin("clear", n, TRUE)
      BY <2>1 DEF BeginSetState
    <3>2. n \in Nat /\ "clear" \in {"clear", "beside"} /\ TRUE \in BOOLEAN
      BY <2>0
    <3> QED
      BY <2>0, <3>1, <3>2, BeginKeeps
  <2>2. CASE BeginCompare
    <3>1. PICK n \in 0 .. Len(main) - 1 : Begin("beside", n, TRUE)
      BY <2>2 DEF BeginCompare
    <3>2. n \in Nat /\ "beside" \in {"clear", "beside"} /\ TRUE \in BOOLEAN
      BY <2>0
    <3> QED
      BY <2>0, <3>1, <3>2, BeginKeeps
  <2>3. CASE Beside
    BY <2>3, BesideKeeps
  <2>4. CASE Decide
    BY <2>4, DecideKeeps
  <2>5. CASE Trim
    BY <2>5, TrimKeeps
  <2>6. CASE Clear
    BY <2>6, ClearKeeps
  <2>7. CASE Apply
    BY <2>7, ApplyKeeps
  <2>8. CASE Finish
    BY <2>8, FinishKeeps
  <2>9. CASE Drop
    BY <2>9, DropKeeps
  <2>10. CASE Redo
    BY <2>10, RedoKeeps
  <2>11. CASE Override
    BY <2>11, OverrideKeeps
  <2> QED
    BY <1>2, <2>1, <2>2, <2>3, <2>4, <2>5, <2>6, <2>7, <2>8, <2>9, <2>10, <2>11 DEF VbkNext
<1> QED
  BY <1>1, <1>2

\* The VBK tree has the blocks and VTBs of the commands of the applied altchain
\* branches, the BTC tree the references of the active VBK chain, through every
\* command, rollback and reorg (VbkBlockTree::setState, addPayloads, removePayloads).
THEOREM VbkInvariant == VbkSpec => []VbkInv
<1>1. VbkInit => VbkInv
  BY InitKeeps
<1>2. VbkInv /\ [VbkNext]_vbkVars => VbkInv'
  BY VbkNextKeeps
<1> QED
  BY <1>1, <1>2, PTL DEF VbkSpec

-----------------------------------------------------------------------------
(* The properties.                                                          *)

LEMMA VtbsAreExact == VbkInv => VtbsExact
<1> SUFFICES ASSUME VbkInv, NEW y \in Vtbs
             PROVE  Cardinality({i \in DOMAIN vbk.ids[Containing[y]] : vbk.ids[Containing[y]][i] = y}) =
                    Cardinality({i \in DOMAIN main : main[i] = y})
                      + Cardinality({i \in DOMAIN rival : rival[i] = y})
  BY DEF VtbsExact
<1>1. {y} \in SUBSET VtbsOf(Containing[y]) /\ Containing[y] \in VbkBlocks
  BY VtbFacts DEF VtbsOf
<1>2. Hits(vbk.ids[Containing[y]], {y}) = Hits(main, {y}) + Hits(rival, {y})
  BY <1>1 DEF VbkInv, Carries
<1>3. ASSUME NEW q PROVE Hits(q, {y}) = Cardinality({i \in DOMAIN q : q[i] = y})
  <2>1. HitsOf(q, {y}) = {i \in DOMAIN q : q[i] = y}
    BY DEF HitsOf
  <2> QED
    BY <2>1 DEF Hits
<1> QED
  BY <1>2, <1>3

LEMMA BtcIsExact == VbkInv => BtcStateExact
<1> SUFFICES ASSUME VbkInv, NEW c \in BtcBlocks \ {BtcRoot}, NEW h \in Heights
             PROVE  vbk.btc[c][h] =
                      Cardinality({p \in VbkAncestors[vbk.tip] \X (1 .. MaxVtbs) :
                                     /\ VbkHeight[p[1]] = h
                                     /\ p[2] \in DOMAIN vbk.ids[p[1]]
                                     /\ c \in ToSet(BtcContext[vbk.ids[p[1]][p[2]]])})
  BY DEF BtcStateExact
<1> DEFINE t == vbk.tip
           T == {p \in VbkAncestors[t] \X (1 .. MaxVtbs) :
                   /\ VbkHeight[p[1]] = h
                   /\ p[2] \in DOMAIN vbk.ids[p[1]]
                   /\ c \in ToSet(BtcContext[vbk.ids[p[1]][p[2]]])}
<1>1. /\ vbk \in VbkStates /\ t \in VbkBlocks /\ vbk.ids \in [VbkBlocks -> Seq(Vtbs)]
      /\ Carries(vbk, main, rival)
  BY ExactFacts, StateFacts DEF VbkInv
<1>2. vbk.btc[c][h] = RefsUpTo(vbk.ids, t, VbkHeight[t], c, h)
  BY DEF VbkInv, Exact, AppliedUpTo
<1>3. Bootstrapped(c, h) = 0
  BY DEF Bootstrapped
<1>4. CASE h \in ChainHeights(t)
  <2> DEFINE b == VbkBlockAt(t, h)
             q == vbk.ids[b]
             S == HitsOf(q, Refers(c))
             f == [i \in S |-> <<b, i>>]
  <2>1. b \in VbkAncestors[t] /\ b \in VbkBlocks /\ VbkHeight[b] = h
    BY <1>1, <1>4, VbkBlockAtFacts
  <2>2. q \in Seq(Vtbs) /\ DOMAIN q = 1 .. Len(q) /\ Len(q) \in Nat /\ Len(q) <= MaxVtbs
    <3>1. q \in Seq(Vtbs)
      BY <1>1, <2>1
    <3> HIDE DEF q
    <3>2. DOMAIN q = 1 .. Len(q) /\ Len(q) \in Nat
      BY <3>1
    <3> QED
      BY <1>1, <2>1, <3>1, <3>2 DEF Carries, q
  <2>3. IsFiniteSet(S) /\ Cardinality(S) = Hits(q, Refers(c)) /\ Hits(q, Refers(c)) \in Nat
    BY <2>2, HitsType DEF Hits
  <2>4. \A p \in T : p = <<b, p[2]>> /\ p[2] \in S
    <3> SUFFICES ASSUME NEW p \in T PROVE p = <<b, p[2]>> /\ p[2] \in S
      OBVIOUS
    <3>1. p = <<p[1], p[2]>> /\ p[1] \in VbkAncestors[t]
      OBVIOUS
    <3>2. VbkHeight[p[1]] = h /\ p[2] \in DOMAIN vbk.ids[p[1]] /\ c \in ToSet(BtcContext[vbk.ids[p[1]][p[2]]])
      OBVIOUS
    <3> HIDE DEF T
    <3>3. p[1] = b
      BY <1>1, <2>1, <3>1, <3>2, VbkChainFacts
    <3>4. p[2] \in DOMAIN q /\ c \in ToSet(BtcContext[q[p[2]]]) /\ q[p[2]] \in Vtbs
      BY <2>2, <3>2, <3>3
    <3> QED
      BY <3>1, <3>3, <3>4 DEF HitsOf, Refers
  <2>5. \A i \in S : <<b, i>> \in T
    <3> SUFFICES ASSUME NEW i \in S PROVE <<b, i>> \in T
      OBVIOUS
    <3>1. i \in DOMAIN q /\ c \in ToSet(BtcContext[q[i]])
      BY DEF HitsOf, Refers
    <3>2. i \in 1 .. MaxVtbs
      BY <2>2, <3>1, VtbAssumption
    <3> DEFINE p == <<b, i>>
    <3>3. p[1] = b /\ p[2] = i /\ p \in VbkAncestors[t] \X (1 .. MaxVtbs)
      BY <2>1, <3>2
    <3> HIDE DEF p
    <3>4. p \in T
      BY <2>1, <3>1, <3>3
    <3> QED
      BY <3>4 DEF p
  <2> HIDE DEF T, S
  <2>6. /\ f \in [S -> T]
        /\ \A i, j \in S : f[i] = f[j] => i = j
        /\ \A p \in T : \E i \in S : f[i] = p
    <3>1. \A i \in S : f[i] = <<b, i>>
      OBVIOUS
    <3>2. f \in [S -> T]
      BY <2>5
    <3>3. \A i, j : <<b, i>> = <<b, j>> => i = j
      OBVIOUS
    <3> QED
      BY <2>4, <3>1, <3>2, <3>3
  <2> HIDE DEF f
  <2>7. Cardinality(T) = Cardinality(S)
    BY <2>3, <2>6, SameSize
  <2>8. vbk.btc[c][h] = Hits(q, Refers(c))
    BY <1>2, <1>3, <1>4, <2>3 DEF RefsUpTo, ChainHeights
  <2> QED
    BY <2>3, <2>7, <2>8 DEF T
<1>5. CASE h \notin ChainHeights(t)
  <2>1. T = {}
    <3> SUFFICES ASSUME NEW p \in T PROVE FALSE
      OBVIOUS
    <3>1. p[1] \in VbkAncestors[t] /\ VbkHeight[p[1]] = h
      OBVIOUS
    <3> QED
      BY <1>1, <1>5, <3>1, VbkBlockAtFacts
  <2>2. vbk.btc[c][h] = 0
    BY <1>2, <1>3, <1>5 DEF RefsUpTo, ChainHeights
  <2> QED
    BY <2>1, <2>2, FS_EmptySet
<1> QED
  BY <1>4, <1>5

\* VtbsExact and BtcStateExact: every VBK block holds a VTB once for each applied
\* altchain branch that carries it, and the BTC tree counts the references of the
\* VTBs on the active VBK chain, for any trees, VTBs and limits.
THEOREM VbkStateIsExact == VbkSpec => []VbkStateExact
<1>1. VbkInv => VbkStateExact
  BY VtbsAreExact, BtcIsExact DEF VbkStateExact
<1> QED
  BY <1>1, VbkInvariant, PTL

LEMMA HitsInside ==
    ASSUME NEW q \in Seq(Vtbs), NEW S, \A y \in ToSet(q) : y \in S
    PROVE  /\ Hits(q, S) = Len(q)
           /\ \A P : Hits(q, P) = Hits(q, P \cap S)
           /\ \A y : y \in ToSet(q) <=> Hits(q, {y}) # 0
<1>1. DOMAIN q = 1 .. Len(q) /\ Len(q) \in Nat /\ \A i \in DOMAIN q : q[i] \in S
  BY DEF ToSet
<1>2. HitsOf(q, S) = 1 .. Len(q) /\ \A P : HitsOf(q, P) = HitsOf(q, P \cap S)
  BY <1>1 DEF HitsOf
<1>3. Cardinality(1 .. Len(q)) = Len(q)
  <2>1. Cardinality(1 .. Len(q)) = Len(q) - 1 + 1
    BY <1>1, FS_Interval
  <2> QED
    BY <1>1, <2>1
<1>4. ASSUME NEW y PROVE y \in ToSet(q) <=> Hits(q, {y}) # 0
  <2>1. y \in ToSet(q) <=> HitsOf(q, {y}) # {}
    BY DEF ToSet, HitsOf
  <2>2. IsFiniteSet(HitsOf(q, {y}))
    BY HitsType
  <2> QED
    BY <2>1, <2>2, FS_EmptySet DEF Hits
<1> QED
  BY <1>2, <1>3, <1>4 DEF Hits

\* The commands and the tip determine the trees, up to the order of the VTBs of a block.
LEMMA SameContents ==
    ASSUME NEW s, NEW t, NEW m, NEW r, Exact(s), Exact(t), Carries(s, m, r), Carries(t, m, r),
           s.tip = t.tip
    PROVE  /\ s.refs = t.refs /\ s.btc = t.btc
           /\ \A v \in VbkBlocks : Len(s.ids[v]) = Len(t.ids[v]) /\ ToSet(s.ids[v]) = ToSet(t.ids[v])
<1>1. /\ s \in VbkStates /\ t \in VbkStates /\ IdsOk(s.ids) /\ IdsOk(t.ids)
      /\ s.ids \in [VbkBlocks -> Seq(Vtbs)] /\ t.ids \in [VbkBlocks -> Seq(Vtbs)]
      /\ s.refs \in [VbkBlocks -> Int] /\ t.refs \in [VbkBlocks -> Int]
      /\ s.btc \in [BtcBlocks -> [Heights -> Int]] /\ t.btc \in [BtcBlocks -> [Heights -> Int]]
      /\ s.tip \in VbkBlocks
  BY ExactFacts, StateFacts
<1>2. \A v \in VbkBlocks : \A P \in SUBSET VtbsOf(v) : Hits(s.ids[v], P) = Hits(t.ids[v], P)
  BY DEF Carries
<1>3. ASSUME NEW v \in VbkBlocks
      PROVE  /\ s.ids[v] \in Seq(Vtbs) /\ \A y \in ToSet(s.ids[v]) : y \in VtbsOf(v)
             /\ t.ids[v] \in Seq(Vtbs) /\ \A y \in ToSet(t.ids[v]) : y \in VtbsOf(v)
  BY <1>1 DEF IdsOk, VtbsOf, ToSet
<1>4. s.refs = t.refs
  <2>1. \A v \in VbkBlocks : s.refs[v] = t.refs[v]
    BY DEF Carries
  <2> QED
    BY <1>1, <2>1
<1>5. ASSUME NEW v \in VbkBlocks, NEW P PROVE Hits(s.ids[v], P) = Hits(t.ids[v], P)
  <2>1. /\ Hits(s.ids[v], P) = Hits(s.ids[v], P \cap VtbsOf(v))
        /\ Hits(t.ids[v], P) = Hits(t.ids[v], P \cap VtbsOf(v))
    <3>1. \A Q : Hits(s.ids[v], Q) = Hits(s.ids[v], Q \cap VtbsOf(v))
      BY <1>3, HitsInside
    <3>2. \A Q : Hits(t.ids[v], Q) = Hits(t.ids[v], Q \cap VtbsOf(v))
      BY <1>3, HitsInside
    <3> QED
      BY <3>1, <3>2
  <2>2. P \cap VtbsOf(v) \in SUBSET VtbsOf(v)
    OBVIOUS
  <2> QED
    BY <1>2, <2>1, <2>2
<1>6. ASSUME NEW v \in VbkBlocks
      PROVE  Len(s.ids[v]) = Len(t.ids[v]) /\ ToSet(s.ids[v]) = ToSet(t.ids[v])
  <2>1. /\ Hits(s.ids[v], VtbsOf(v)) = Len(s.ids[v]) /\ Hits(t.ids[v], VtbsOf(v)) = Len(t.ids[v])
        /\ \A y : y \in ToSet(s.ids[v]) <=> Hits(s.ids[v], {y}) # 0
        /\ \A y : y \in ToSet(t.ids[v]) <=> Hits(t.ids[v], {y}) # 0
    BY <1>3, HitsInside
  <2>2. \A P : Hits(s.ids[v], P) = Hits(t.ids[v], P)
    BY <1>5
  <2>3. \A y : y \in ToSet(s.ids[v]) <=> y \in ToSet(t.ids[v])
    BY <2>1, <2>2
  <2> QED
    BY <2>1, <2>2, <2>3
<1>7. ASSUME NEW c \in BtcBlocks, NEW h \in Heights PROVE s.btc[c][h] = t.btc[c][h]
  <2>1. /\ s.btc[c][h] = RefsUpTo(s.ids, s.tip, VbkHeight[s.tip], c, h)
        /\ t.btc[c][h] = RefsUpTo(t.ids, s.tip, VbkHeight[s.tip], c, h)
    BY DEF Exact, AppliedUpTo
  <2>2. h \in ChainHeights(s.tip) =>
          Hits(s.ids[VbkBlockAt(s.tip, h)], Refers(c)) = Hits(t.ids[VbkBlockAt(s.tip, h)], Refers(c))
    BY <1>1, <1>5, VbkBlockAtFacts
  <2> QED
    BY <2>1, <2>2 DEF RefsUpTo, ChainHeights
<1>8. s.btc = t.btc
  <2>1. \A c \in BtcBlocks : s.btc[c] = t.btc[c]
    <3> SUFFICES ASSUME NEW c \in BtcBlocks PROVE s.btc[c] = t.btc[c]
      OBVIOUS
    <3>1. s.btc[c] \in [Heights -> Int] /\ t.btc[c] \in [Heights -> Int]
      BY <1>1
    <3> QED
      BY <1>7, <3>1
  <2> QED
    BY <1>1, <2>1
<1> QED
  BY <1>4, <1>6, <1>8

LEMMA OnlyOverrideEnds ==
    ASSUME VbkInv, [VbkNext]_vbkVars, op.phase = "redo", op'.phase = "idle"
    PROVE  Override
<1>1. op' # op
  OBVIOUS
<1>2. ~Redo /\ ~UNCHANGED vbkVars
  BY <1>1 DEF Redo, vbkVars
<1>3. ~BeginSetState /\ ~BeginCompare
  BY DEF BeginSetState, BeginCompare, Begin
<1>4. ~Beside /\ ~Decide /\ ~Trim /\ ~Clear /\ ~Apply /\ ~Finish /\ ~Drop
  BY DEF Beside, Decide, Trim, Clear, Apply, Finish, Drop
<1> QED
  BY <1>2, <1>3, <1>4 DEF VbkNext

\* FailedSwitchRestores, for any trees, VTBs and limits, as long as no assertion of
\* the code fails: a failed setState or lost comparison leaves the VBK and the BTC
\* tree as they were (overrideDeferredForkResolution to originalTip).
THEOREM FailedSwitchIsUndone == VbkSpec /\ []AssertionsHold => FailedSwitchRestores
<1>1. ASSUME VbkInv, [VbkNext]_vbkVars, AssertionsHold'
      PROVE  [op.phase = "redo" /\ op'.phase = "idle" =>
                /\ [vbk' EXCEPT !.ids = op.before.ids] = op.before
                /\ \A v \in VbkBlocks : /\ Len(vbk'.ids[v]) = Len(op.before.ids[v])
                                       /\ ToSet(vbk'.ids[v]) = ToSet(op.before.ids[v])]_vbkVars
  <2> SUFFICES ASSUME op.phase = "redo", op'.phase = "idle"
               PROVE  /\ [vbk' EXCEPT !.ids = op.before.ids] = op.before
                      /\ \A v \in VbkBlocks : /\ Len(vbk'.ids[v]) = Len(op.before.ids[v])
                                             /\ ToSet(vbk'.ids[v]) = ToSet(op.before.ids[v])
    OBVIOUS
  <2> DEFINE s == vbk'
             t == op.before
  <2>1. Override
    BY <1>1, OnlyOverrideEnds
  <2>2. Alike(vbk', vbk) /\ vbk'.tip = t.tip /\ rival = <<>> /\ main = op.was /\ Saved(op)
    BY <1>1, <2>1, OverrideEffect
  <2>3. Carries(vbk, op.was, <<>>)
    BY <1>1, <2>2 DEF VbkInv
  <2>4. Exact(vbk') /\ Carries(vbk', op.was, <<>>)
    BY <2>2, <2>3, AlikeCarries
  <2>5. Exact(t) /\ t.ok /\ Carries(t, op.was, <<>>)
    BY <2>2 DEF Saved
  <2>6. s.ok
    BY <1>1 DEF AssertionsHold
  <2> HIDE DEF s, t
  <2>7. Exact(s) /\ Carries(s, op.was, <<>>) /\ s.tip = t.tip
    BY <2>2, <2>4 DEF s
  <2>8. /\ s.refs = t.refs /\ s.btc = t.btc
        /\ \A v \in VbkBlocks : Len(s.ids[v]) = Len(t.ids[v]) /\ ToSet(s.ids[v]) = ToSet(t.ids[v])
    BY <2>5, <2>7, SameContents
  <2>9. s \in VbkStates /\ t \in VbkStates
    BY <2>5, <2>7, ExactFacts
  <2>10. [s EXCEPT !.ids = t.ids] = t
    <3>1. [s EXCEPT !.ids = t.ids] =
             [refs |-> s.refs, ids |-> t.ids, tip |-> s.tip, btc |-> s.btc, ok |-> s.ok]
      BY <2>9, IdsReplaced
    <3>2. t = [refs |-> t.refs, ids |-> t.ids, tip |-> t.tip, btc |-> t.btc, ok |-> t.ok]
      BY <2>9, StateFacts
    <3>3. s.ok = t.ok
      <4>1. s.ok \in BOOLEAN /\ t.ok \in BOOLEAN
        BY <2>9, StateFacts
      <4> QED
        BY <2>5, <2>6, <4>1
    <3> QED
      BY <2>7, <2>8, <3>1, <3>2, <3>3
  <2> QED
    BY <2>8, <2>10 DEF s, t
<1> QED
  BY <1>1, VbkInvariant, PTL DEF VbkSpec, FailedSwitchRestores

-----------------------------------------------------------------------------
(* When no assertion of the BTC tree fails.  A BTC block may go once nothing *)
(* that is left needs it, so what matters is that the tree is closed.        *)

NonNegative(s) == \A c \in BtcBlocks : \A h \in Heights : s.btc[c][h] >= 0

BtcClosed(s) == \A c \in BtcBlocks \ {BtcRoot} : InBtc(s, c) => InBtc(s, BtcPrev[c])

LEMMA BtcFacts ==
    ASSUME NEW y \in Vtbs
    PROVE  /\ Len(BtcContext[y]) \in Nat /\ Len(BtcContext[y]) > 0
           /\ DOMAIN BtcContext[y] = 1 .. Len(BtcContext[y])
           /\ \A i \in 1 .. Len(BtcContext[y]) :
                 BtcContext[y][i] \in BtcBlocks \ {BtcRoot} /\ BtcPrev[BtcContext[y][i]] \in BtcBlocks
           /\ BtcNeed(y) = BtcPrev[BtcContext[y][1]] /\ BtcNeed(y) \in BtcBlocks
<1> DEFINE q == BtcContext[y]
<1>1. q \in Seq(BtcBlocks \ {BtcRoot}) /\ Len(q) > 0 /\ BtcPrev \in [BtcBlocks \ {BtcRoot} -> BtcBlocks]
  BY VtbAssumption
<1> HIDE DEF q
<1>2. /\ Len(q) \in Nat /\ DOMAIN q = 1 .. Len(q)
      /\ \A i \in 1 .. Len(q) : q[i] \in BtcBlocks \ {BtcRoot}
  BY <1>1
<1>3. Head(q) = q[1] /\ 1 \in 1 .. Len(q)
  BY <1>1, <1>2
<1> QED
  BY <1>1, <1>2, <1>3 DEF BtcNeed, q

LEMMA BtcReplaced ==
    ASSUME NEW s \in VbkStates, NEW B
    PROVE  [s EXCEPT !.btc = B] = [refs |-> s.refs, ids |-> s.ids, tip |-> s.tip, btc |-> B, ok |-> s.ok]
<1>1. s = [refs |-> s.refs, ids |-> s.ids, tip |-> s.tip, btc |-> s.btc, ok |-> s.ok]
  BY StateFacts
<1> QED
  BY <1>1

LEMMA AddBtcOk ==
    ASSUME NEW s \in VbkStates, NEW c \in BtcBlocks, NEW h \in Heights, NonNegative(s), s.ok,
           InBtc(s, BtcPrev[c])
    PROVE  /\ AddBtc(s, c, h).ok /\ NonNegative(AddBtc(s, c, h)) /\ InBtc(AddBtc(s, c, h), c)
           /\ \A d \in BtcBlocks : InBtc(s, d) => InBtc(AddBtc(s, c, h), d)
<1> DEFINE r == AddBtc(s, c, h)
           one == [b \in BtcBlocks |-> [k \in Heights |-> IF b = c /\ k = h THEN 1 ELSE 0]]
<1>1. r.ok
  <2> DEFINE x == [s EXCEPT !.btc[c][h] = @ + 1]
             K == s.ok /\ (InBtc(s, c) \/ InBtc(s, BtcPrev[c]))
  <2>1. r = [x EXCEPT !.ok = @ /\ (InBtc(s, c) \/ InBtc(s, BtcPrev[c]))]
    BY DEF AddBtc
  <2>2. x = [refs |-> s.refs, ids |-> s.ids, tip |-> s.tip, btc |-> [s.btc EXCEPT ![c][h] = @ + 1], ok |-> s.ok]
    BY StateFacts, BtcReplaced
  <2> HIDE DEF x
  <2> QED
    BY <2>1, <2>2
<1>2. BtcMoved(r, s, one)
  BY AddBtcEffect
<1> HIDE DEF r
<1>3. \A d \in BtcBlocks : \A k \in Heights :
        /\ r.btc[d][k] = s.btc[d][k] + (IF d = c /\ k = h THEN 1 ELSE 0)
        /\ s.btc[d][k] \in Int /\ s.btc[d][k] >= 0
  BY <1>2, StateFacts DEF BtcMoved, NonNegative
<1>4. NonNegative(r) /\ InBtc(r, c) /\ \A d \in BtcBlocks : InBtc(s, d) => InBtc(r, d)
  BY <1>3 DEF NonNegative, InBtc
<1> QED
  BY <1>1, <1>4 DEF r

LEMMA RemoveBtcOk ==
    ASSUME NEW s \in VbkStates, NEW c \in BtcBlocks, NEW h \in Heights, s.ok, s.btc[c][h] > 0,
           BtcClosed(RemoveBtc(s, c, h))
    PROVE  RemoveBtc(s, c, h).ok
<1> DEFINE B == [s.btc EXCEPT ![c][h] = @ - 1]
           x == [s EXCEPT !.btc[c][h] = @ - 1]
<1>1. x = [refs |-> s.refs, ids |-> s.ids, tip |-> s.tip, btc |-> B, ok |-> s.ok]
  <2>1. x = [s EXCEPT !.btc = B]
    BY StateFacts
  <2> QED
    BY <2>1, BtcReplaced
<1> DEFINE r == RemoveBtc(s, c, h)
           K == /\ x.ok
                /\ s.btc[c][h] > 0
                /\ InBtc(x, c) \/ \A d \in BtcBlocks \ {BtcRoot} : BtcPrev[d] = c => ~InBtc(x, d)
<1>2. r = [x EXCEPT !.ok = K]
  BY DEF RemoveBtc
<1> HIDE DEF x, K, B
<1>3. r.ok = K /\ r.btc = x.btc /\ x.ok = s.ok
  BY <1>1, <1>2
<1>4. \A d : InBtc(r, d) <=> InBtc(x, d)
  BY <1>3 DEF InBtc
<1>5. BtcClosed(r)
  BY DEF r
<1> HIDE DEF r
<1>6. InBtc(x, c) \/ \A d \in BtcBlocks \ {BtcRoot} : BtcPrev[d] = c => ~InBtc(x, d)
  BY <1>4, <1>5 DEF BtcClosed
<1> QED
  BY <1>3, <1>6 DEF K, r

\* What precedes a BTC block of a VTB: another of its blocks, or what the context needs.
LEMMA LinkedFacts ==
    ASSUME ContextsLinked, NEW y \in Vtbs
    PROVE  \A i \in 1 .. Len(BtcContext[y]) :
              IF i = 1 THEN BtcPrev[BtcContext[y][i]] = BtcNeed(y)
              ELSE i - 1 \in 1 .. Len(BtcContext[y]) /\ BtcPrev[BtcContext[y][i]] = BtcContext[y][i - 1]
<1>1. Len(BtcContext[y]) \in Nat /\ BtcNeed(y) = BtcPrev[BtcContext[y][1]]
  BY BtcFacts
<1>2. \A i \in 2 .. Len(BtcContext[y]) : BtcPrev[BtcContext[y][i]] = BtcContext[y][i - 1]
  BY DEF ContextsLinked
<1> QED
  BY <1>1, <1>2

\* The state s, one step further: no assertion has failed and nothing has gone.
StillOk(r, s) ==
    /\ r.ok /\ NonNegative(r)
    /\ \A d \in BtcBlocks : InBtc(s, d) => InBtc(r, d)

\* A VTB whose context connects to a known BTC block can be executed.
LEMMA ExecuteVtbOk ==
    ASSUME ContextsLinked, NEW s \in VbkStates, NEW y \in Vtbs, NonNegative(s), s.ok, InBtc(s, BtcNeed(y))
    PROVE  StillOk(ExecuteVtb(s, y), s)
<1> DEFINE q == BtcContext[y]
           n == Len(q)
           h == VbkHeight[Containing[y]]
<1>1. n \in Nat /\ n > 0 /\ h \in Heights /\ \A i \in 1 .. n : q[i] \in BtcBlocks
  BY BtcFacts, VtbFacts
<1>2. PICK f \in [0 .. n -> VbkStates] :
        /\ f[0] = s /\ f[n] = ExecuteVtb(s, y)
        /\ \A i \in 1 .. n : f[i] = AddBtc(f[i - 1], q[i], h)
  BY ExecuteVtbRun
<1>3. \A i \in 1 .. n : IF i = 1 THEN BtcPrev[q[i]] = BtcNeed(y)
                        ELSE i - 1 \in 1 .. n /\ BtcPrev[q[i]] = q[i - 1]
  BY LinkedFacts
<1>4. BtcNeed(y) \in BtcBlocks
  BY BtcFacts
<1> HIDE DEF q, n, h
<1> DEFINE G == {i \in 0 .. n : StillOk(f[i], s) /\ (i > 0 => InBtc(f[i], q[i]))}
<1>5. 0 \in G
  BY <1>1, <1>2 DEF StillOk
<1>6. ASSUME NEW i \in 1 .. n, i - 1 \in G
      PROVE  i \in G
  <2>1. i \in 0 .. n /\ i - 1 \in 0 .. n /\ f[i - 1] \in VbkStates
    BY <1>1, <1>2
  <2>2. StillOk(f[i - 1], s) /\ (i # 1 => InBtc(f[i - 1], q[i - 1]))
    BY <1>6, <2>1
  <2>3. InBtc(f[i - 1], BtcPrev[q[i]])
    BY <2>2, <1>3, <1>4 DEF StillOk
  <2>4. f[i] = AddBtc(f[i - 1], q[i], h) /\ q[i] \in BtcBlocks
    BY <1>1, <1>2
  <2>5. /\ f[i].ok /\ NonNegative(f[i]) /\ InBtc(f[i], q[i])
        /\ \A d \in BtcBlocks : InBtc(f[i - 1], d) => InBtc(f[i], d)
    BY <1>1, <2>1, <2>2, <2>3, <2>4, AddBtcOk DEF StillOk
  <2> QED
    BY <2>1, <2>2, <2>5 DEF StillOk
<1> HIDE DEF G
<1>7. \A i \in 0 .. n : i \in G
  BY <1>1, <1>5, <1>6, UpTo
<1>8. n \in G
  BY <1>1, <1>7
<1> QED
  BY <1>2, <1>8 DEF G

\* A VTB can be undone when what is left of the BTC tree is closed and still has what
\* the VTB's context connects to.
LEMMA UnExecuteVtbOk ==
    ASSUME ContextsLinked, NEW s \in VbkStates, NEW y \in Vtbs, s.ok,
           NEW b, b = UnExecuteVtb(s, y), NonNegative(b), BtcClosed(b), InBtc(b, BtcNeed(y))
    PROVE  b.ok
<1> DEFINE q == BtcContext[y]
           u == Reverse(q)
           n == Len(q)
           h == VbkHeight[Containing[y]]
           Left(c, k, i) == IF k = h /\ \E j \in 1 .. n - i : q[j] = c THEN 1 ELSE 0
<1>1. n \in Nat /\ n > 0 /\ h \in Heights /\ \A i \in 1 .. n : q[i] \in BtcBlocks
  BY BtcFacts, VtbFacts
<1>2. Len(u) = n /\ \A i \in 1 .. n : u[i] = q[(n - i) + 1]
  BY VtbFacts, ReverseFacts
<1>3. PICK f \in [0 .. n -> VbkStates] :
        /\ f[0] = s /\ f[n] = b
        /\ \A i \in 1 .. n : f[i] = RemoveBtc(f[i - 1], u[i], h)
  BY <1>2, UnExecuteVtbRun
<1>4. \A i \in 1 .. n : IF i = 1 THEN BtcPrev[q[i]] = BtcNeed(y)
                        ELSE i - 1 \in 1 .. n /\ BtcPrev[q[i]] = q[i - 1]
  BY LinkedFacts
<1>5. \A i, j \in 1 .. n : q[i] = q[j] => i = j
  BY VtbFacts
<1>6. \A c \in BtcBlocks : c \in ToSet(q) <=> \E j \in 1 .. n : q[j] = c
  BY BtcFacts DEF ToSet
<1>7. b \in VbkStates /\ BtcMoved(b, s, Taken(y)) /\ BtcNeed(y) \in BtcBlocks
  BY UnExecuteVtbEffect, BtcFacts DEF BtcMoved
<1>8. \A c \in BtcBlocks : \A k \in Heights :
        /\ b.btc[c][k] \in Int /\ b.btc[c][k] >= 0
        /\ s.btc[c][k] = b.btc[c][k] + (IF k = h /\ \E j \in 1 .. n : q[j] = c THEN 1 ELSE 0)
  BY <1>6, <1>7, StateFacts DEF BtcMoved, Taken, NonNegative
<1> HIDE DEF q, n, h, u
<1> DEFINE Mid(i) == \A c \in BtcBlocks : \A k \in Heights : f[i].btc[c][k] = b.btc[c][k] + Left(c, k, i)
           G == {i \in 0 .. n : Mid(i) /\ f[i].ok}
<1>9. 0 \in G
  <2>1. Mid(0)
    BY <1>1, <1>3, <1>8
  <2> QED
    BY <2>1, <1>1, <1>3
<1>10. ASSUME NEW i \in 0 .. n, Mid(i)
       PROVE  BtcClosed(f[i])
  <2>1. \A c \in BtcBlocks : InBtc(b, c) => InBtc(f[i], c)
    BY <1>10, <1>8 DEF InBtc
  <2>2. \A j \in 1 .. n - i : j \in 1 .. n /\ InBtc(f[i], q[j])
    <3> TAKE j \in 1 .. n - i
    <3>1. j \in 1 .. n /\ q[j] \in BtcBlocks
      BY <1>1
    <3>2. f[i].btc[q[j]][h] = b.btc[q[j]][h] + 1 /\ b.btc[q[j]][h] >= 0 /\ b.btc[q[j]][h] \in Int
      BY <3>1, <1>10, <1>8, <1>1
    <3> QED
      BY <3>1, <3>2, <1>1 DEF InBtc
  <2>3. ASSUME NEW c \in BtcBlocks \ {BtcRoot}, InBtc(f[i], c)
        PROVE  InBtc(b, c) \/ \E j \in 1 .. n - i : q[j] = c
    BY <2>3, <1>10, <1>8 DEF InBtc
  <2>4. \A c \in BtcBlocks \ {BtcRoot} : BtcPrev[c] \in BtcBlocks
    BY VtbAssumption
  <2>5. ASSUME NEW c \in BtcBlocks \ {BtcRoot}, NEW j \in 1 .. n - i, q[j] = c
        PROVE  InBtc(f[i], BtcPrev[c])
    <3>1. CASE j = 1
      BY <3>1, <2>1, <2>2, <2>5, <1>4, <1>7
    <3>2. CASE j # 1
      <4>1. j - 1 \in 1 .. n - i /\ j \in 1 .. n
        BY <3>2, <1>1
      <4> QED
        BY <4>1, <3>2, <2>2, <2>5, <1>4
    <3> QED
      BY <3>1, <3>2
  <2> QED
    BY <2>1, <2>3, <2>4, <2>5 DEF BtcClosed
<1>11. ASSUME NEW i \in 1 .. n, i - 1 \in G
       PROVE  i \in G
  <2> DEFINE m == (n - i) + 1
  <2>1. i \in 0 .. n /\ i - 1 \in 0 .. n /\ m \in 1 .. n /\ n - (i - 1) = m /\ n - i = m - 1
    BY <1>1
  <2>2. f[i - 1] \in VbkStates /\ f[i] = RemoveBtc(f[i - 1], q[m], h) /\ q[m] \in BtcBlocks
    BY <2>1, <1>1, <1>2, <1>3
  <2>3. Mid(i - 1) /\ f[i - 1].ok
    BY <1>11
  <2>4. BtcMoved(f[i], f[i - 1], [d \in BtcBlocks |-> [k \in Heights |-> IF d = q[m] /\ k = h THEN -1 ELSE 0]])
    BY <1>1, <2>2, RemoveBtcEffect
  <2>5. \A c \in BtcBlocks : \A k \in Heights :
           f[i].btc[c][k] = f[i - 1].btc[c][k] + (IF c = q[m] /\ k = h THEN -1 ELSE 0)
    BY <2>4 DEF BtcMoved
  <2> HIDE DEF m
  <2>6. Mid(i)
    <3> SUFFICES ASSUME NEW c \in BtcBlocks, NEW k \in Heights
                 PROVE  f[i].btc[c][k] = b.btc[c][k] + Left(c, k, i)
      OBVIOUS
    <3>1. (\E j \in 1 .. n - (i - 1) : q[j] = c) <=> (c = q[m] \/ \E j \in 1 .. n - i : q[j] = c)
      BY <2>1, <1>1
    <3>2. c = q[m] => ~\E j \in 1 .. n - i : q[j] = c
      BY <2>1, <1>1, <1>5
    <3>3. Left(c, k, i - 1) = Left(c, k, i) + (IF c = q[m] /\ k = h THEN 1 ELSE 0)
      BY <3>1, <3>2
    <3>4. f[i - 1].btc[c][k] = b.btc[c][k] + Left(c, k, i - 1)
      BY <2>3
    <3>5. Left(c, k, i) \in Int /\ b.btc[c][k] \in Int
      BY <1>8
    <3> HIDE DEF Left
    <3> QED
      BY <3>3, <3>4, <3>5, <2>5
  <2>7. f[i - 1].btc[q[m]][h] > 0
    BY <2>1, <2>2, <2>3, <1>1, <1>8
  <2>8. BtcClosed(f[i])
    BY <2>1, <2>6, <1>10
  <2>9. f[i].ok
    BY <2>2, <2>3, <2>7, <2>8, <1>1, RemoveBtcOk
  <2> QED
    BY <2>1, <2>6, <2>9
<1> HIDE DEF G
<1>12. \A i \in 0 .. n : i \in G
  BY <1>1, <1>9, <1>11, UpTo
<1>13. n \in G
  BY <1>1, <1>12
<1> QED
  BY <1>3, <1>13 DEF G

LEMMA HitsUpToPositive ==
    ASSUME NEW q, NEW P, NEW i \in Nat
    PROVE  HitsUpTo(q, i, P) \in Nat /\ (HitsUpTo(q, i, P) > 0 <=> \E j \in 1 .. i : q[j] \in P)
<1> DEFINE S == {j \in 1 .. i : q[j] \in P}
<1>1. IsFiniteSet(S)
  <2>1. IsFiniteSet(1 .. i)
    BY FS_Interval
  <2> QED
    BY <2>1, FS_Subset
<1>2. Cardinality(S) \in Nat /\ (Cardinality(S) = 0 <=> S = {})
  BY <1>1, FS_CardinalityType, FS_EmptySet
<1>3. S = {} <=> ~\E j \in 1 .. i : q[j] \in P
  OBVIOUS
<1> HIDE DEF S
<1>4. HitsUpTo(q, i, P) = Cardinality(S)
  BY DEF HitsUpTo, S
<1> QED
  BY <1>2, <1>3, <1>4

LEMMA HitsPositive ==
    ASSUME NEW X, NEW q \in Seq(X), NEW P
    PROVE  /\ Hits(q, P) \in Nat /\ Len(q) \in Nat /\ DOMAIN q = 1 .. Len(q)
           /\ HitsUpTo(q, Len(q), P) = Hits(q, P)
           /\ Hits(q, P) > 0 <=> \E y \in ToSet(q) : y \in P
<1>1. Len(q) \in Nat /\ DOMAIN q = 1 .. Len(q)
  OBVIOUS
<1>2. HitsUpTo(q, Len(q), P) = Hits(q, P)
  BY <1>1 DEF HitsUpTo, Hits, HitsOf
<1>3. (\E j \in 1 .. Len(q) : q[j] \in P) <=> \E y \in ToSet(q) : y \in P
  BY <1>1 DEF ToSet
<1> QED
  BY <1>1, <1>2, <1>3, HitsUpToPositive

LEMMA IdsFacts ==
    ASSUME NEW s \in VbkStates, NEW v \in VbkBlocks
    PROVE  /\ s.ids[v] \in Seq(Vtbs) /\ Len(s.ids[v]) \in Nat
           /\ \A i \in 1 .. Len(s.ids[v]) : s.ids[v][i] \in Vtbs /\ s.ids[v][i] \in ToSet(s.ids[v])
           /\ \A y \in ToSet(s.ids[v]) : y \in Vtbs /\ \E i \in 1 .. Len(s.ids[v]) : s.ids[v][i] = y
<1>1. s.ids[v] \in Seq(Vtbs)
  BY StateFacts
<1> QED
  BY <1>1 DEF ToSet

\* The VTBs of a VBK block can be executed when their contexts connect to what is there.
LEMMA ApplyVbkOk ==
    ASSUME ContextsLinked, NEW s \in VbkStates, NEW v \in VbkBlocks, NonNegative(s), s.ok,
           \A y \in ToSet(s.ids[v]) : InBtc(s, BtcNeed(y))
    PROVE  ApplyVbk(s, v).ok
<1> DEFINE q == s.ids[v]
           n == Len(q)
<1>1. n \in Nat /\ \A i \in 1 .. n : q[i] \in Vtbs /\ InBtc(s, BtcNeed(q[i])) /\ BtcNeed(q[i]) \in BtcBlocks
  BY IdsFacts, BtcFacts
<1>2. PICK f \in [0 .. n -> VbkStates] :
        /\ f[0] = s /\ f[n] = ApplyVbk(s, v)
        /\ \A i \in 1 .. n : f[i] = ExecuteVtb(f[i - 1], q[i])
  BY ApplyVbkRun
<1> HIDE DEF q, n
<1> DEFINE G == {i \in 0 .. n : StillOk(f[i], s)}
<1>3. 0 \in G
  BY <1>1, <1>2 DEF StillOk
<1>4. ASSUME NEW i \in 1 .. n, i - 1 \in G
      PROVE  i \in G
  <2>1. i \in 0 .. n /\ i - 1 \in 0 .. n /\ f[i - 1] \in VbkStates
    BY <1>1, <1>2
  <2>2. StillOk(f[i - 1], s) /\ InBtc(f[i - 1], BtcNeed(q[i]))
    BY <1>1, <1>4 DEF StillOk
  <2>3. StillOk(f[i], f[i - 1])
    BY <1>1, <1>2, <2>1, <2>2, ExecuteVtbOk DEF StillOk
  <2> QED
    BY <2>1, <2>2, <2>3 DEF StillOk
<1> HIDE DEF G
<1>5. \A i \in 0 .. n : i \in G
  BY <1>1, <1>3, <1>4, UpTo
<1>6. n \in G
  BY <1>1, <1>5
<1> QED
  BY <1>2, <1>6 DEF G, StillOk

\* They can be undone when what is left is closed and still has what they connect to.
LEMMA UnapplyVbkOk ==
    ASSUME ContextsLinked, NEW s \in VbkStates, NEW v \in VbkBlocks, s.ok,
           \A y \in ToSet(s.ids[v]) : Containing[y] = v,
           NEW b, b = UnapplyVbk(s, v), NonNegative(b), BtcClosed(b),
           \A y \in ToSet(s.ids[v]) : InBtc(b, BtcNeed(y))
    PROVE  b.ok
<1> DEFINE q == s.ids[v]
           u == Reverse(q)
           n == Len(q)
           h == VbkHeight[v]
           Left(c, k, i) == IF k = h THEN HitsUpTo(q, n - i, Refers(c)) ELSE 0
<1>1. /\ n \in Nat /\ h \in Heights /\ q \in Seq(Vtbs)
      /\ \A i \in 1 .. n : q[i] \in Vtbs /\ Containing[q[i]] = v /\ InBtc(b, BtcNeed(q[i]))
  BY IdsFacts DEF Heights
<1>2. Len(u) = n /\ \A i \in 1 .. n : u[i] = q[(n - i) + 1]
  BY <1>1, ReverseFacts
<1>3. PICK f \in [0 .. n -> VbkStates] :
        /\ f[0] = s /\ f[n] = b
        /\ \A i \in 1 .. n : f[i] = UnExecuteVtb(f[i - 1], u[i])
  BY <1>2, UnapplyVbkRun
<1>4. BtcMoved(b, s, TakenBy(q, v)) /\ b \in VbkStates
  BY UnapplyVbkEffect DEF BtcMoved
<1>5. \A c : HitsUpTo(q, n, Refers(c)) = Hits(q, Refers(c)) /\ Hits(q, Refers(c)) \in Nat
  BY <1>1, HitsPositive
<1>6. \A c \in BtcBlocks : \A k \in Heights :
        /\ b.btc[c][k] \in Int /\ b.btc[c][k] >= 0 /\ s.btc[c][k] \in Int
        /\ s.btc[c][k] = b.btc[c][k] + Left(c, k, 0)
  <2> TAKE c \in BtcBlocks
  <2> TAKE k \in Heights
  <2>1. b.btc[c][k] \in Int /\ b.btc[c][k] >= 0 /\ s.btc[c][k] \in Int
    BY <1>4, StateFacts DEF NonNegative
  <2>2. b.btc[c][k] = s.btc[c][k] + (IF k = h THEN -Hits(q, Refers(c)) ELSE 0)
    BY <1>4 DEF BtcMoved, TakenBy
  <2>3. Left(c, k, 0) = IF k = h THEN Hits(q, Refers(c)) ELSE 0
    BY <1>1, <1>5
  <2> HIDE DEF Left
  <2> QED
    BY <2>1, <2>2, <2>3, <1>5
<1> HIDE DEF q, n, h, u
<1> DEFINE Mid(i) == \A c \in BtcBlocks : \A k \in Heights : f[i].btc[c][k] = b.btc[c][k] + Left(c, k, i)
           G == {i \in 0 .. n : Mid(i) /\ f[i].ok}
<1>7. 0 \in G
  <2>1. Mid(0)
    BY <1>3, <1>6
  <2> QED
    BY <2>1, <1>1, <1>3
<1>8. ASSUME NEW i \in 0 .. n, Mid(i)
      PROVE  /\ NonNegative(f[i]) /\ BtcClosed(f[i])
             /\ \A c \in BtcBlocks : InBtc(b, c) => InBtc(f[i], c)
  <2>1. ASSUME NEW c
        PROVE  /\ HitsUpTo(q, n - i, Refers(c)) \in Nat
               /\ HitsUpTo(q, n - i, Refers(c)) > 0 <=>
                    \E j \in 1 .. n - i : j \in 1 .. n /\ c \in ToSet(BtcContext[q[j]])
    <3>1. n - i \in Nat /\ \A j \in 1 .. n - i : j \in 1 .. n /\ q[j] \in Vtbs
      BY <1>1
    <3>2. HitsUpTo(q, n - i, Refers(c)) > 0 <=> \E j \in 1 .. n - i : q[j] \in Refers(c)
      BY <3>1, HitsUpToPositive
    <3> QED
      BY <3>1, <3>2, HitsUpToPositive DEF Refers
  <2>2. \A c \in BtcBlocks : \A k \in Heights :
          /\ f[i].btc[c][k] = b.btc[c][k] + Left(c, k, i) /\ Left(c, k, i) \in Nat
          /\ b.btc[c][k] \in Int /\ b.btc[c][k] >= 0
    BY <1>8, <2>1, <1>6
  <2>3. NonNegative(f[i]) /\ \A c \in BtcBlocks : InBtc(b, c) => InBtc(f[i], c)
    <3> HIDE DEF Left
    <3> QED
      BY <2>2 DEF NonNegative, InBtc
  <2>4. ASSUME NEW c \in BtcBlocks, InBtc(f[i], c)
        PROVE  InBtc(b, c) \/ \E j \in 1 .. n - i : j \in 1 .. n /\ c \in ToSet(BtcContext[q[j]])
    BY <2>4, <2>1, <2>2 DEF InBtc
  <2>5. ASSUME NEW c \in BtcBlocks, NEW j \in 1 .. n - i, j \in 1 .. n, c \in ToSet(BtcContext[q[j]])
        PROVE  InBtc(f[i], c)
    <3>1. HitsUpTo(q, n - i, Refers(c)) > 0
      BY <2>5, <2>1
    <3>2. f[i].btc[c][h] > 0
      BY <3>1, <2>2, <1>1
    <3> QED
      BY <3>2, <1>1 DEF InBtc
  <2>6. ASSUME NEW c \in BtcBlocks, NEW j \in 1 .. n - i, j \in 1 .. n, c \in ToSet(BtcContext[q[j]])
        PROVE  InBtc(f[i], BtcPrev[c])
    <3> DEFINE x == BtcContext[q[j]]
    <3>1. q[j] \in Vtbs /\ InBtc(b, BtcNeed(q[j]))
      BY <2>6, <1>1
    <3>2. /\ DOMAIN x = 1 .. Len(x) /\ BtcNeed(q[j]) \in BtcBlocks
          /\ \A k \in 1 .. Len(x) : x[k] \in BtcBlocks
      BY <3>1, BtcFacts
    <3>3. PICK k \in 1 .. Len(x) : x[k] = c
      BY <2>6, <3>2 DEF ToSet
    <3>4. BtcPrev[c] = BtcNeed(q[j]) \/ \E l \in 1 .. Len(x) : BtcPrev[c] = x[l]
      BY <3>1, <3>3, LinkedFacts
    <3>5. CASE BtcPrev[c] = BtcNeed(q[j])
      BY <3>5, <3>1, <3>2, <2>3
    <3>6. ASSUME NEW l \in 1 .. Len(x), BtcPrev[c] = x[l]
          PROVE  InBtc(f[i], BtcPrev[c])
      <4>1. x[l] \in BtcBlocks /\ x[l] \in ToSet(BtcContext[q[j]])
        BY <3>2 DEF ToSet
      <4> QED
        BY <4>1, <3>6, <2>5, <2>6
    <3> QED
      BY <3>4, <3>5, <3>6
  <2>7. \A c \in BtcBlocks \ {BtcRoot} : BtcPrev[c] \in BtcBlocks
    BY VtbAssumption
  <2>8. BtcClosed(f[i])
    BY <2>3, <2>4, <2>6, <2>7 DEF BtcClosed
  <2> QED
    BY <2>3, <2>8
<1>9. ASSUME NEW i \in 1 .. n, i - 1 \in G
      PROVE  i \in G
  <2> DEFINE m == (n - i) + 1
  <2>1. i \in 0 .. n /\ i - 1 \in 0 .. n /\ m \in 1 .. n /\ n - (i - 1) = m /\ n - i = m - 1
    BY <1>1
  <2>2. /\ f[i - 1] \in VbkStates /\ f[i] = UnExecuteVtb(f[i - 1], q[m])
        /\ q[m] \in Vtbs /\ Containing[q[m]] = v /\ InBtc(b, BtcNeed(q[m]))
    BY <2>1, <1>1, <1>2, <1>3
  <2>3. Mid(i - 1) /\ f[i - 1].ok
    BY <1>9
  <2>4. BtcMoved(f[i], f[i - 1], Taken(q[m]))
    BY <2>2, UnExecuteVtbEffect
  <2>5. \A c \in BtcBlocks : \A k \in Heights :
           f[i].btc[c][k] = f[i - 1].btc[c][k] + (IF k = h /\ q[m] \in Refers(c) THEN -1 ELSE 0)
    BY <2>2, <2>4 DEF BtcMoved, Taken, Refers, h
  <2> HIDE DEF m
  <2>6. Mid(i)
    <3> SUFFICES ASSUME NEW c \in BtcBlocks, NEW k \in Heights
                 PROVE  f[i].btc[c][k] = b.btc[c][k] + Left(c, k, i)
      OBVIOUS
    <3>0. m \in Nat \ {0} /\ m - 1 \in Nat
      BY <2>1
    <3>1. HitsUpTo(q, m, Refers(c)) = HitsUpTo(q, m - 1, Refers(c)) + (IF q[m] \in Refers(c) THEN 1 ELSE 0)
      <4>1. \A j \in Nat \ {0} :
              HitsUpTo(q, j, Refers(c)) = HitsUpTo(q, j - 1, Refers(c)) + (IF q[j] \in Refers(c) THEN 1 ELSE 0)
        BY HitsUpToFacts
      <4> QED
        BY <3>0, <4>1, Zenon
    <3>2. HitsUpTo(q, m - 1, Refers(c)) \in Nat
      BY <3>0, HitsUpToFacts
    <3>3. Left(c, k, i - 1) = Left(c, k, i) + (IF k = h /\ q[m] \in Refers(c) THEN 1 ELSE 0)
      BY <3>1, <3>2, <2>1
    <3>4. f[i - 1].btc[c][k] = b.btc[c][k] + Left(c, k, i - 1)
      BY <2>3
    <3>5. Left(c, k, i) \in Int /\ b.btc[c][k] \in Int
      BY <1>6, <3>2, <2>1
    <3> HIDE DEF Left
    <3> QED
      BY <3>3, <3>4, <3>5, <2>5
  <2>7. NonNegative(f[i]) /\ BtcClosed(f[i]) /\ InBtc(f[i], BtcNeed(q[m]))
    BY <2>1, <2>2, <2>6, <1>8, BtcFacts
  <2>8. f[i].ok
    BY <2>2, <2>3, <2>7, UnExecuteVtbOk
  <2> QED
    BY <2>1, <2>6, <2>8
<1> HIDE DEF G
<1>10. \A i \in 0 .. n : i \in G
  BY <1>1, <1>7, <1>9, UpTo
<1>11. n \in G
  BY <1>1, <1>10
<1> QED
  BY <1>3, <1>11 DEF G

-----------------------------------------------------------------------------
(* When switching the active VBK chain fails no assertion.  The BTC block   *)
(* that a VTB connects to comes with a VTB of an earlier VBK block, so it   *)
(* outlives the block of the VTB on every chain.                            *)

\* Some VTB on the chain of y's containing block brings what the context of y needs.
Supported(ids, y) ==
    \/ BtcNeed(y) = BtcRoot
    \/ \E a \in VbkAncestors[Containing[y]] : \E z \in ToSet(ids[a]) : BtcNeed(y) \in ToSet(BtcContext[z])

AllSupported(ids) == \A v \in VbkBlocks : \A y \in ToSet(ids[v]) : Supported(ids, y)

\* The VTBs at height h of the chain of t refer to the BTC block c.
Referred(ids, t, h, c) == \E y \in ToSet(ids[VbkBlockAt(t, h)]) : c \in ToSet(BtcContext[y])

LEMMA AppliedHas ==
    ASSUME NEW s \in VbkStates, NEW t \in VbkBlocks, NEW top \in ChainHeights(t), NEW x,
           AppliedUpTo(x, s, t, top)
    PROVE  /\ NonNegative(x)
           /\ \A c \in BtcBlocks : \A h \in Heights :
                 x.btc[c][h] > 0 <=> \/ c = BtcRoot /\ h = VbkHeight[VbkRoot]
                                     \/ h \in VbkHeight[VbkRoot] .. top /\ Referred(s.ids, t, h, c)
<1>1. ASSUME NEW c \in BtcBlocks, NEW h \in Heights
      PROVE  /\ x.btc[c][h] >= 0
             /\ x.btc[c][h] > 0 <=> \/ c = BtcRoot /\ h = VbkHeight[VbkRoot]
                                    \/ h \in VbkHeight[VbkRoot] .. top /\ Referred(s.ids, t, h, c)
  <2> DEFINE q == s.ids[VbkBlockAt(t, h)]
             k == Hits(q, Refers(c))
             In == h \in VbkHeight[VbkRoot] .. top
  <2>1. x.btc[c][h] = Bootstrapped(c, h) + (IF In THEN k ELSE 0)
    BY DEF AppliedUpTo, RefsUpTo
  <2>2. In => k \in Nat /\ (k > 0 <=> Referred(s.ids, t, h, c))
    <3> SUFFICES ASSUME In PROVE k \in Nat /\ (k > 0 <=> Referred(s.ids, t, h, c))
      OBVIOUS
    <3>1. h \in ChainHeights(t)
      BY VbkChainFacts DEF ChainHeights
    <3>2. VbkBlockAt(t, h) \in VbkBlocks
      BY <3>1, VbkBlockAtFacts
    <3>3. q \in Seq(Vtbs) /\ \A y \in ToSet(q) : y \in Vtbs
      BY <3>2, IdsFacts
    <3>4. k \in Nat /\ (k > 0 <=> \E y \in ToSet(q) : y \in Refers(c))
      BY <3>3, HitsPositive
    <3> QED
      BY <3>3, <3>4 DEF Refers, Referred
  <2>3. Bootstrapped(c, h) = IF c = BtcRoot /\ h = VbkHeight[VbkRoot] THEN 1 ELSE 0
    BY DEF Bootstrapped
  <2>4. CASE In
    <3> HIDE DEF k
    <3>1. x.btc[c][h] = (IF c = BtcRoot /\ h = VbkHeight[VbkRoot] THEN 1 ELSE 0) + k /\ k \in Nat
      BY <2>1, <2>2, <2>3, <2>4
    <3> QED
      BY <3>1, <2>2, <2>4
  <2>5. CASE ~In
    BY <2>1, <2>3, <2>5
  <2> QED
    BY <2>4, <2>5
<1> QED
  BY <1>1 DEF NonNegative

\* What a supported VTB connects to is there once the blocks below its own are applied.
LEMMA SupportedInBtc ==
    ASSUME VtbsIndependent, NEW s \in VbkStates, IdsOk(s.ids), NEW t \in VbkBlocks,
           NEW top \in ChainHeights(t), NEW x, AppliedUpTo(x, s, t, top),
           NEW y \in Vtbs, Containing[y] \in VbkAncestors[t], VbkHeight[Containing[y]] <= top + 1,
           Supported(s.ids, y)
    PROVE  InBtc(x, BtcNeed(y))
<1> DEFINE v == Containing[y]
           d == BtcNeed(y)
<1>1. d \in BtcBlocks /\ v \in VbkBlocks /\ VbkHeight[VbkRoot] \in Heights
  BY BtcFacts, VtbFacts, VbkChainFacts
<1>2. \A h \in Heights :
        x.btc[d][h] > 0 <=> \/ d = BtcRoot /\ h = VbkHeight[VbkRoot]
                            \/ h \in VbkHeight[VbkRoot] .. top /\ Referred(s.ids, t, h, d)
  BY <1>1, AppliedHas
<1>3. CASE d = BtcRoot
  BY <1>1, <1>2, <1>3 DEF InBtc
<1>4. ASSUME NEW a \in VbkAncestors[v], NEW z \in ToSet(s.ids[a]), d \in ToSet(BtcContext[z])
      PROVE  InBtc(x, d)
  <2>1. a \in VbkBlocks /\ a \in VbkAncestors[t]
    BY <1>1, <1>4, VbkChainFacts
  <2>2. z \in Vtbs /\ Containing[z] = a
    BY <2>1, <1>4, IdsFacts DEF IdsOk
  <2>3. a # v
    BY <2>2, <1>4 DEF VtbsIndependent
  <2>4. /\ VbkHeight[a] \in Nat /\ VbkHeight[v] \in Nat /\ VbkHeight[a] \in Heights
        /\ VbkHeight[VbkRoot] \in Nat /\ VbkHeight[VbkRoot] <= VbkHeight[a]
        /\ VbkHeight[a] <= VbkHeight[v] /\ VbkHeight[a] # VbkHeight[v]
    BY <1>1, <2>1, <2>3, VbkChainFacts
  <2>5. top \in Int
    BY DEF ChainHeights
  <2>6. VbkHeight[a] \in VbkHeight[VbkRoot] .. top
    BY <2>4, <2>5
  <2>7. VbkBlockAt(t, VbkHeight[a]) = a
    BY <2>1, VbkBlockAtFacts
  <2>8. Referred(s.ids, t, VbkHeight[a], d)
    BY <2>7, <1>4 DEF Referred
  <2> QED
    BY <2>4, <2>6, <2>8, <1>2 DEF InBtc
<1> QED
  BY <1>3, <1>4 DEF Supported

LEMMA AppliedClosed ==
    ASSUME ContextsLinked, VtbsIndependent, NEW s \in VbkStates, IdsOk(s.ids), AllSupported(s.ids),
           NEW t \in VbkBlocks, NEW top \in ChainHeights(t), NEW x, AppliedUpTo(x, s, t, top)
    PROVE  /\ NonNegative(x) /\ BtcClosed(x)
           /\ \A w \in VbkAncestors[t] : VbkHeight[w] <= top + 1 =>
                 \A y \in ToSet(s.ids[w]) : InBtc(x, BtcNeed(y))
<1>1. \A c \in BtcBlocks : \A h \in Heights :
        x.btc[c][h] > 0 <=> \/ c = BtcRoot /\ h = VbkHeight[VbkRoot]
                            \/ h \in VbkHeight[VbkRoot] .. top /\ Referred(s.ids, t, h, c)
  BY AppliedHas
<1>2. ASSUME NEW w \in VbkAncestors[t], VbkHeight[w] <= top + 1, NEW y \in ToSet(s.ids[w])
      PROVE  y \in Vtbs /\ InBtc(x, BtcNeed(y))
  <2>1. w \in VbkBlocks
    BY VbkChainFacts
  <2>2. y \in Vtbs /\ Containing[y] = w /\ Supported(s.ids, y)
    BY <2>1, IdsFacts DEF IdsOk, AllSupported
  <2> QED
    BY <1>2, <2>2, SupportedInBtc
<1>3. ASSUME NEW c \in BtcBlocks \ {BtcRoot}, InBtc(x, c)
      PROVE  InBtc(x, BtcPrev[c])
  <2>1. PICK h \in Heights : x.btc[c][h] > 0
    BY <1>3 DEF InBtc
  <2>2. h \in VbkHeight[VbkRoot] .. top /\ Referred(s.ids, t, h, c)
    BY <2>1, <1>1
  <2> DEFINE w == VbkBlockAt(t, h)
  <2>3. h \in ChainHeights(t) /\ top \in Int
    BY <2>2, VbkChainFacts DEF ChainHeights
  <2>4. w \in VbkAncestors[t] /\ VbkHeight[w] = h /\ h <= top + 1
    BY <2>2, <2>3, VbkBlockAtFacts
  <2>5. PICK y \in ToSet(s.ids[w]) : c \in ToSet(BtcContext[y])
    BY <2>2 DEF Referred
  <2> HIDE DEF w
  <2>6. y \in Vtbs /\ InBtc(x, BtcNeed(y))
    BY <2>4, <1>2
  <2> DEFINE q == BtcContext[y]
  <2>7. DOMAIN q = 1 .. Len(q) /\ \A k \in 1 .. Len(q) : q[k] \in BtcBlocks
    BY <2>6, BtcFacts
  <2>8. PICK k \in 1 .. Len(q) : q[k] = c
    BY <2>5, <2>7 DEF ToSet
  <2>9. BtcPrev[c] = BtcNeed(y) \/ \E l \in 1 .. Len(q) : BtcPrev[c] = q[l]
    BY <2>6, <2>8, LinkedFacts
  <2>10. ASSUME NEW l \in 1 .. Len(q)
         PROVE  InBtc(x, q[l])
    <3>1. q[l] \in BtcBlocks /\ q[l] \in ToSet(BtcContext[y])
      BY <2>7 DEF ToSet
    <3>2. Referred(s.ids, t, h, q[l])
      BY <3>1 DEF Referred, w
    <3> QED
      BY <3>1, <3>2, <2>2, <1>1 DEF InBtc
  <2> QED
    BY <2>6, <2>9, <2>10
<1>4. NonNegative(x)
  BY AppliedHas
<1> QED
  BY <1>2, <1>3, <1>4 DEF BtcClosed

\* Every VBK chain can be made the active one.
LEMMA SetVbkStateOk ==
    ASSUME ContextsLinked, VtbsIndependent, NEW s, Exact(s), s.ok, AllSupported(s.ids), NEW to \in VbkBlocks
    PROVE  SetVbkState(s, to).ok
<1> DEFINE fork == VbkForkHeight(s.tip, to)
           base == VbkHeight[VbkRoot]
           H == VbkHeight[s.tip]
           K == VbkHeight[to]
           b == UnapplyTo(s, fork)
<1>1. /\ s \in VbkStates /\ s.tip \in VbkBlocks /\ IdsOk(s.ids)
      /\ AppliedUpTo(s, s, s.tip, VbkHeight[s.tip])
  BY ExactFacts, StateFacts DEF Exact
<1>2. /\ fork \in ChainHeights(s.tip) /\ fork \in ChainHeights(to)
      /\ \A h \in VbkHeight[VbkRoot] .. fork : VbkBlockAt(s.tip, h) = VbkBlockAt(to, h)
  BY <1>1, VbkForkFacts
<1>3. base \in Nat /\ H \in Nat /\ K \in Nat
  BY <1>1, VbkChainFacts
<1> HIDE DEF fork
<1>4. b.ok /\ AppliedUpTo(b, s, s.tip, fork)
  <2> DEFINE n == H - fork
  <2>1. n \in Nat /\ fork \in Int /\ base <= fork /\ fork <= H
    BY <1>2, <1>3 DEF ChainHeights
  <2>2. PICK f \in [0 .. n -> VbkStates] :
          /\ f[0] = s /\ f[n] = UnapplyTo(s, fork)
          /\ \A i \in 1 .. n : f[i] = UnapplyVbk(f[i - 1], VbkBlockAt(s.tip, H - (i - 1)))
          /\ \A i \in 0 .. n : AppliedUpTo(f[i], s, s.tip, H - i)
    BY <1>1, <1>2, UnapplyToRun
  <2>3. AppliedUpTo(b, s, s.tip, fork)
    BY <1>1, <1>2, UnapplyToEffect
  <2> HIDE DEF b
  <2> DEFINE G == {i \in 0 .. n : f[i].ok}
  <2>4. 0 \in G
    BY <2>1, <2>2
  <2>5. ASSUME NEW i \in 1 .. n, i - 1 \in G
        PROVE  i \in G
    <3> DEFINE w == VbkBlockAt(s.tip, H - (i - 1))
    <3>1. /\ i \in 0 .. n /\ i - 1 \in 0 .. n /\ H - (i - 1) \in ChainHeights(s.tip)
          /\ H - i \in ChainHeights(s.tip) /\ H - (i - 1) = (H - i) + 1
      BY <2>1, <1>3 DEF ChainHeights
    <3>2. w \in VbkAncestors[s.tip] /\ w \in VbkBlocks /\ VbkHeight[w] = (H - i) + 1
      BY <3>1, <1>1, VbkBlockAtFacts
    <3>3. f[i] = UnapplyVbk(f[i - 1], w) /\ AppliedUpTo(f[i], s, s.tip, H - i) /\ f[i - 1] \in VbkStates
      BY <3>1, <2>2
    <3>4. f[i - 1].ids = s.ids /\ f[i - 1].ok
      BY <3>1, <2>2, <2>5 DEF AppliedUpTo
    <3> HIDE DEF w
    <3>5. /\ NonNegative(f[i]) /\ BtcClosed(f[i])
          /\ VbkHeight[w] <= (H - i) + 1 => \A y \in ToSet(s.ids[w]) : InBtc(f[i], BtcNeed(y))
      BY <1>1, <3>1, <3>2, <3>3, AppliedClosed
    <3>6. VbkHeight[w] <= (H - i) + 1
      BY <3>2, <1>3
    <3>7. \A y \in ToSet(f[i - 1].ids[w]) : Containing[y] = w /\ InBtc(f[i], BtcNeed(y))
      BY <1>1, <3>2, <3>4, <3>5, <3>6 DEF IdsOk
    <3>8. f[i].ok
      BY <3>2, <3>3, <3>4, <3>5, <3>7, UnapplyVbkOk
    <3> QED
      BY <3>1, <3>8
  <2> HIDE DEF G, n
  <2>6. \A i \in 0 .. n : i \in G
    BY <2>1, <2>4, <2>5, UpTo
  <2>7. n \in G
    BY <2>1, <2>6
  <2> QED
    BY <2>2, <2>3, <2>7 DEF G, b
<1> HIDE DEF b
<1>5. b \in VbkStates /\ b.ids = s.ids /\ AppliedUpTo(b, b, to, fork)
  <2>1. \A c, h : RefsUpTo(s.ids, s.tip, fork, c, h) = RefsUpTo(s.ids, to, fork, c, h)
    BY <1>2 DEF RefsUpTo
  <2> QED
    BY <1>4, <2>1 DEF AppliedUpTo
<1>6. ApplyFrom(b, fork, to).ok /\ ApplyFrom(b, fork, to) \in VbkStates
  <2> DEFINE n == K - fork
  <2>1. n \in Nat /\ fork \in Int /\ base <= fork /\ fork <= K
    BY <1>2, <1>3 DEF ChainHeights
  <2>2. PICK f \in [0 .. n -> VbkStates] :
          /\ f[0] = b /\ f[n] = ApplyFrom(b, fork, to)
          /\ \A i \in 1 .. n : f[i] = ApplyVbk(f[i - 1], VbkBlockAt(to, fork + i))
          /\ \A i \in 0 .. n : AppliedUpTo(f[i], b, to, fork + i)
    BY <1>1, <1>2, <1>5, ApplyFromRun
  <2> DEFINE G == {i \in 0 .. n : f[i].ok}
  <2>4. 0 \in G
    BY <2>1, <2>2, <1>4
  <2>5. ASSUME NEW i \in 1 .. n, i - 1 \in G
        PROVE  i \in G
    <3> DEFINE w == VbkBlockAt(to, fork + i)
    <3>1. /\ i \in 0 .. n /\ i - 1 \in 0 .. n /\ fork + i \in ChainHeights(to)
          /\ fork + (i - 1) \in ChainHeights(to) /\ fork + i = (fork + (i - 1)) + 1
      BY <2>1, <1>3 DEF ChainHeights
    <3>2. w \in VbkAncestors[to] /\ w \in VbkBlocks /\ VbkHeight[w] = (fork + (i - 1)) + 1
      BY <3>1, <1>1, VbkBlockAtFacts
    <3>3. f[i] = ApplyVbk(f[i - 1], w) /\ AppliedUpTo(f[i - 1], b, to, fork + (i - 1)) /\ f[i - 1] \in VbkStates
      BY <3>1, <2>2
    <3>4. f[i - 1].ids = b.ids /\ f[i - 1].ok
      BY <3>3, <2>5 DEF AppliedUpTo
    <3> HIDE DEF w
    <3>5. /\ NonNegative(f[i - 1])
          /\ VbkHeight[w] <= (fork + (i - 1)) + 1 => \A y \in ToSet(b.ids[w]) : InBtc(f[i - 1], BtcNeed(y))
      BY <1>1, <1>5, <3>1, <3>2, <3>3, AppliedClosed
    <3>6. VbkHeight[w] <= (fork + (i - 1)) + 1
      BY <3>2, <2>1
    <3>7. \A y \in ToSet(f[i - 1].ids[w]) : InBtc(f[i - 1], BtcNeed(y))
      BY <3>4, <3>5, <3>6
    <3>8. f[i].ok
      BY <3>2, <3>3, <3>4, <3>5, <3>7, ApplyVbkOk
    <3> QED
      BY <3>1, <3>8
  <2> HIDE DEF G, n
  <2>6. \A i \in 0 .. n : i \in G
    BY <2>1, <2>4, <2>5, UpTo
  <2>7. n \in G /\ n \in 0 .. n
    BY <2>1, <2>6
  <2> QED
    BY <2>2, <2>7 DEF G
<1>7. SetVbkState(s, to) = [ApplyFrom(b, fork, to) EXCEPT !.tip = to]
  BY DEF SetVbkState, b, fork
<1> QED
  BY <1>6, <1>7, TipMoved

-----------------------------------------------------------------------------
(* When the commands of the altchain are accepted, and that no assertion of *)
(* theirs fails.                                                            *)

\* An exact state in which no assertion has failed and every chain applies.
Sound(s) ==
    /\ Exact(s) /\ s.ok /\ AllSupported(s.ids)
    /\ s.tip \in InVbk(s) /\ \A v \in VbkBlocks : s.refs[v] >= 0

LEMMA SoundFacts ==
    ASSUME NEW s, Sound(s)
    PROVE  /\ s \in VbkStates /\ Exact(s) /\ s.ok /\ AllSupported(s.ids) /\ IdsOk(s.ids)
           /\ s.tip \in VbkBlocks /\ s.refs[s.tip] > 0
           /\ \A v \in VbkBlocks : s.refs[v] \in Int /\ s.refs[v] >= 0
BY ExactFacts, StateFacts DEF Sound, InVbk

LEMMA SetVbkStateSound ==
    ASSUME ContextsLinked, VtbsIndependent, NEW s, Sound(s), NEW t \in InVbk(s)
    PROVE  Sound(SetVbkState(s, t)) /\ Alike(SetVbkState(s, t), s)
<1> DEFINE r == SetVbkState(s, t)
<1>1. t \in VbkBlocks /\ Exact(s) /\ s.ok /\ AllSupported(s.ids)
  BY SoundFacts DEF InVbk
<1>2. Alike(r, s) /\ r.tip = t /\ r.ok
  BY <1>1, SetVbkStateEffect, SetVbkStateOk
<1> HIDE DEF r
<1>3. Exact(r) /\ r.refs = s.refs /\ r.ids = s.ids
  BY <1>2 DEF Alike
<1>4. Sound(r)
  BY <1>1, <1>2, <1>3, SoundFacts DEF Sound, InVbk
<1> QED
  BY <1>2, <1>4 DEF r

LEMMA CandidatesAreIn ==
    ASSUME NEW s, NEW v
    PROVE  VbkTips(s) \in SUBSET InVbk(s) /\ TipsAbove(s, v) \in SUBSET InVbk(s)
BY DEF VbkTips, TipsAbove

LEMMA ResolveSound ==
    ASSUME ContextsLinked, VtbsIndependent, NEW s, Sound(s), NEW candidates \in SUBSET InVbk(s)
    PROVE  /\ Resolve(s, candidates) # {}
           /\ \A r \in Resolve(s, candidates) : Sound(r) /\ Alike(r, s)
<1> DEFINE T == UNION {BestAfter(s.tip, order) : order \in SetToSeqs(candidates)}
<1>1. candidates \in SUBSET VbkBlocks /\ s.tip \in InVbk(s)
  BY DEF InVbk, Sound
<1>2. SetToSeqs(candidates) # {} /\ \A order \in SetToSeqs(candidates) : order \in Seq(InVbk(s))
  <2>1. SetToSeqs(candidates) # {} /\ SetToSeqs(candidates) \subseteq Seq(candidates)
    BY <1>1, OrderFacts
  <2>2. \A order \in Seq(candidates) : order \in Seq(InVbk(s))
    OBVIOUS
  <2> QED
    BY <2>1, <2>2
<1>3. \A order \in SetToSeqs(candidates) :
         BestAfter(s.tip, order) \subseteq InVbk(s) /\ BestAfter(s.tip, order) # {}
  BY <1>1, <1>2, BestAfterFacts
<1>4. T \subseteq InVbk(s) /\ T # {}
  <2>1. PICK order : order \in SetToSeqs(candidates)
    BY <1>2
  <2>2. BestAfter(s.tip, order) \subseteq T /\ BestAfter(s.tip, order) # {}
    BY <2>1, <1>3
  <2>3. T \subseteq InVbk(s)
    BY <1>3
  <2> HIDE DEF T
  <2> QED
    BY <2>2, <2>3
<1> HIDE DEF T
<1>5. Resolve(s, candidates) = {SetVbkState(s, t) : t \in T}
  BY DEF Resolve, T
<1> QED
  BY <1>4, <1>5, SetVbkStateSound

LEMMA AtSound ==
    ASSUME ContextsLinked, VtbsIndependent, NEW s, Sound(s), NEW v \in InVbk(s)
    PROVE  Sound(At(s, v)) /\ Alike(At(s, v), s) /\ v \in VbkAncestors[At(s, v).tip]
<1>1. v \in VbkBlocks /\ Exact(s) /\ Alike(s, s)
  BY SoundFacts, ExactFacts DEF InVbk
<1>2. Alike(At(s, v), s) /\ v \in VbkAncestors[At(s, v).tip]
  BY <1>1, AtEffect
<1>3. Sound(At(s, v))
  BY SetVbkStateSound DEF At
<1> QED
  BY <1>2, <1>3

\* A refused VTB leaves the tree as it was.
LEMMA RefusedSound ==
    ASSUME ContextsLinked, VtbsIndependent, NEW s, Sound(s), NEW c \in Commands
    PROVE  Sound(Refused(s, c))
<1>1. CASE c \in Vtbs /\ s.refs[Containing[c]] > 0
  <2> DEFINE at == At(s, Containing[c])
  <2>1. Containing[c] \in InVbk(s) /\ s.tip \in InVbk(s)
    BY <1>1, VtbFacts DEF InVbk, Sound
  <2>2. Sound(at) /\ Alike(at, s)
    BY <2>1, AtSound
  <2>3. Refused(s, c) = SetVbkState(at, s.tip)
    BY <1>1 DEF Refused
  <2> HIDE DEF at
  <2>4. s.tip \in InVbk(at)
    BY <2>1, <2>2 DEF Alike, InVbk
  <2> QED
    BY <2>2, <2>3, <2>4, SetVbkStateSound
<1>2. CASE ~(c \in Vtbs /\ s.refs[Containing[c]] > 0)
  BY <1>2 DEF Refused
<1> QED
  BY <1>1, <1>2

\* On a chain that has the containing block, validateBTCContext looks for the support.
LEMMA ContextIsSupport ==
    ASSUME NEW s, Exact(s), NEW y \in Vtbs, Containing[y] \in VbkAncestors[s.tip]
    PROVE  /\ validateBTCContext(s, y) <=> Supported(s.ids, y)
           /\ NonNegative(s)
<1> DEFINE v == Containing[y]
           d == BtcNeed(y)
           t == s.tip
           top == VbkHeight[s.tip]
           base == VbkHeight[VbkRoot]
<1>1. /\ s \in VbkStates /\ IdsOk(s.ids) /\ t \in VbkBlocks /\ AppliedUpTo(s, s, t, top)
      /\ v \in VbkBlocks /\ d \in BtcBlocks
  BY ExactFacts, StateFacts, VtbFacts, BtcFacts DEF Exact
<1>2. /\ top \in Nat /\ base \in Nat /\ VbkHeight[v] \in Nat /\ base \in Heights
      /\ base <= VbkHeight[v] /\ VbkHeight[v] <= top /\ top \in ChainHeights(t)
  BY <1>1, VbkChainFacts DEF ChainHeights
<1>3. /\ NonNegative(s)
      /\ \A h \in Heights :
            s.btc[d][h] > 0 <=> \/ d = BtcRoot /\ h = base
                                \/ h \in base .. top /\ Referred(s.ids, t, h, d)
  BY <1>1, <1>2, AppliedHas
<1>4. ASSUME validateBTCContext(s, y), d # BtcRoot
      PROVE  \E a \in VbkAncestors[v] : \E z \in ToSet(s.ids[a]) : d \in ToSet(BtcContext[z])
  <2>1. PICK h \in Heights : h <= VbkHeight[v] /\ s.btc[d][h] > 0
    BY <1>4 DEF validateBTCContext
  <2>2. h \in base .. top /\ Referred(s.ids, t, h, d)
    BY <2>1, <1>3, <1>4
  <2> DEFINE a == VbkBlockAt(t, h)
  <2>3. a \in VbkAncestors[t] /\ VbkHeight[a] = h
    BY <1>1, <2>2, VbkBlockAtFacts DEF ChainHeights
  <2>4. a \in VbkAncestors[v]
    BY <1>1, <2>1, <2>3, VbkChainAssumption
  <2>5. \E z \in ToSet(s.ids[a]) : d \in ToSet(BtcContext[z])
    BY <2>2 DEF Referred
  <2> HIDE DEF a
  <2> QED
    BY <2>4, <2>5
<1>5. ASSUME NEW a \in VbkAncestors[v], NEW z \in ToSet(s.ids[a]), d \in ToSet(BtcContext[z])
      PROVE  validateBTCContext(s, y)
  <2>1. /\ a \in VbkAncestors[t] /\ a \in VbkBlocks /\ VbkHeight[a] \in Nat /\ VbkHeight[a] \in Heights
        /\ base <= VbkHeight[a] /\ VbkHeight[a] <= VbkHeight[v]
    BY <1>1, VbkChainFacts
  <2>2. VbkHeight[a] \in base .. top
    BY <2>1, <1>2
  <2>3. VbkBlockAt(t, VbkHeight[a]) = a
    BY <1>1, <2>1, VbkBlockAtFacts
  <2>4. Referred(s.ids, t, VbkHeight[a], d)
    BY <2>3, <1>5 DEF Referred
  <2>5. s.btc[d][VbkHeight[a]] > 0
    BY <2>1, <2>2, <2>4, <1>3
  <2> QED
    BY <2>1, <2>5 DEF validateBTCContext
<1>6. d = BtcRoot => validateBTCContext(s, y)
  BY <1>2, <1>3 DEF validateBTCContext
<1> QED
  BY <1>3, <1>4, <1>5, <1>6 DEF Supported

LEMMA SupportedMore ==
    ASSUME NEW ids, NEW more, \A v \in VbkBlocks : ToSet(ids[v]) \subseteq ToSet(more[v]),
           NEW y \in Vtbs, Supported(ids, y)
    PROVE  Supported(more, y)
<1>1. \A a \in VbkAncestors[Containing[y]] : a \in VbkBlocks
  BY VtbFacts, VbkChainFacts
<1> QED
  BY <1>1 DEF Supported

\* What makes a VTB acceptable.
VtbAcceptable(s, y) ==
    /\ s.refs[Containing[y]] > 0
    /\ EndorsementFits(y)
    /\ Len(s.ids[Containing[y]]) < MaxVtbs
    /\ Supported(s.ids, y)

LEMMA AddVtbSound ==
    ASSUME ContextsLinked, VtbsIndependent, NEW s, Sound(s), NEW y \in Vtbs
    PROVE  /\ AddVtb(s, y) # {} <=> VtbAcceptable(s, y)
           /\ \A r \in AddVtb(s, y) : Sound(r)
<1> DEFINE v == Containing[y]
           at == At(s, v)
           added == [ExecuteVtb(at, y) EXCEPT !.ids[v] = Append(@, y)]
<1>1. /\ v \in VbkBlocks /\ s \in VbkStates /\ s.tip \in VbkBlocks
      /\ s.refs[v] \in Int /\ s.refs[v] >= 0 /\ AllSupported(s.ids)
  BY VtbFacts, SoundFacts
<1>2. CASE s.refs[v] = 0
  BY <1>2 DEF AddVtb, VtbAcceptable
<1>3. CASE s.refs[v] > 0
  <2>0. v \in InVbk(s)
    BY <1>1, <1>3 DEF InVbk
  <2>1. Sound(at) /\ Alike(at, s) /\ v \in VbkAncestors[at.tip]
    BY <2>0, AtSound
  <2> HIDE DEF at
  <2>2. Exact(at) /\ at.ids = s.ids /\ at.refs = s.refs /\ at \in VbkStates /\ at.ok
    BY <2>1, SoundFacts DEF Alike
  <2>3. (validateBTCContext(at, y) <=> Supported(s.ids, y)) /\ NonNegative(at)
    BY <2>1, <2>2, ContextIsSupport
  <2>4. validateBTCContext(at, y) => InBtc(at, BtcNeed(y))
    BY DEF validateBTCContext, InBtc
  <2>5. validateBTCContext(at, y) => ExecuteVtb(at, y).ok
    BY <2>2, <2>3, <2>4, ExecuteVtbOk DEF StillOk
  <2>6. VtbFits(at, y) <=> VtbAcceptable(s, y)
    BY <1>3, <2>2, <2>3, <2>5 DEF VtbFits, VtbAcceptable
  <2>7. CASE ~VtbFits(at, y)
    BY <2>6, <2>7 DEF AddVtb, at
  <2>8. CASE VtbFits(at, y)
    <3>1. /\ Exact(added) /\ added.refs = s.refs /\ added.ids = [s.ids EXCEPT ![v] = Append(s.ids[v], y)]
          /\ added.tip = at.tip /\ added.ok
      <4>1. /\ Exact(added) /\ added.refs = at.refs /\ added.ids = [at.ids EXCEPT ![v] = Append(at.ids[v], y)]
            /\ added.tip = at.tip /\ added.ok = ExecuteVtb(at, y).ok
        BY <2>1, <2>2, AddedExact
      <4> HIDE DEF added
      <4> QED
        BY <4>1, <2>2, <2>8 DEF VtbFits
    <3>2. AddVtb(s, y) = IF v \in VbkAncestors[s.tip] THEN Resolve(added, TipsAbove(added, v))
                         ELSE UNION {Resolve(r, TipsAbove(r, s.tip)) : r \in Resolve(added, TipsAbove(added, v))}
      BY <1>3, <2>8 DEF AddVtb, at
    <3> HIDE DEF added
    <3>3. AllSupported(added.ids)
      <4> DEFINE more == added.ids
      <4>1. s.ids[v] \in Seq(Vtbs) /\ s.ids \in [VbkBlocks -> Seq(Vtbs)]
        BY <1>1, StateFacts
      <4>2. ToSet(Append(s.ids[v], y)) = ToSet(s.ids[v]) \cup {y}
        BY <4>1, AppendToSet
      <4>3. \A w \in VbkBlocks : ToSet(more[w]) = IF w = v THEN ToSet(s.ids[w]) \cup {y} ELSE ToSet(s.ids[w])
        BY <3>1, <4>1, <4>2
      <4> HIDE DEF more
      <4>4. \A z \in Vtbs : Supported(s.ids, z) => Supported(more, z)
        BY <4>3, SupportedMore
      <4>5. Supported(s.ids, y)
        BY <2>6, <2>8 DEF VtbAcceptable
      <4>6. \A w \in VbkBlocks : \A z \in ToSet(s.ids[w]) : z \in Vtbs
        BY <1>1, IdsFacts
      <4>7. AllSupported(more)
        BY <1>1, <4>3, <4>4, <4>5, <4>6 DEF AllSupported
      <4> QED
        BY <4>7 DEF more
    <3>4. Sound(added)
      <4>1. at.tip \in InVbk(at) /\ \A w \in VbkBlocks : at.refs[w] >= 0
        BY <2>1 DEF Sound
      <4> QED
        BY <3>1, <3>3, <4>1, <2>2 DEF Sound, InVbk
    <3>5. /\ Resolve(added, TipsAbove(added, v)) # {}
          /\ \A r \in Resolve(added, TipsAbove(added, v)) : Sound(r)
      BY <3>4, ResolveSound, CandidatesAreIn
    <3>6. \A r \in Resolve(added, TipsAbove(added, v)) :
             /\ Resolve(r, TipsAbove(r, s.tip)) # {}
             /\ \A x \in Resolve(r, TipsAbove(r, s.tip)) : Sound(x)
      BY <3>5, ResolveSound, CandidatesAreIn
    <3>7. AddVtb(s, y) # {}
      BY <3>2, <3>5, <3>6
    <3>8. \A r \in AddVtb(s, y) : Sound(r)
      BY <3>2, <3>5, <3>6
    <3> QED
      BY <3>7, <3>8, <2>6, <2>8
  <2> QED
    BY <2>7, <2>8
<1> QED
  BY <1>1, <1>2, <1>3

\* The blocks of the tree hang together, and every VTB is in one of them and endorses
\* an ancestor of it.
TreeClosed(s) ==
    /\ \A v \in VbkBlocks \ {VbkRoot} : s.refs[v] > 0 => s.refs[VbkPrev[v]] > 0
    /\ \A v \in VbkBlocks : \A y \in ToSet(s.ids[v]) : s.refs[v] > 0 /\ EndorsementFits(y)

LEMMA PrevFacts ==
    ASSUME NEW v \in VbkBlocks \ {VbkRoot}
    PROVE  /\ VbkPrev[v] \in VbkBlocks /\ VbkPrev[v] # v
           /\ VbkAncestors[v] = VbkAncestors[VbkPrev[v]] \cup {v}
<1>1. /\ VbkPrev[v] \in VbkBlocks /\ VbkHeight[v] = VbkHeight[VbkPrev[v]] + 1
      /\ VbkAncestors[v] = VbkAncestors[VbkPrev[v]] \cup {v}
  BY VbkAssumption, VbkChainAssumption
<1>2. VbkHeight[VbkPrev[v]] \in Nat
  BY <1>1, VbkChainFacts
<1> QED
  BY <1>1, <1>2

\* A tree that hangs together has the ancestors of its blocks.
LEMMA AncestorsIn ==
    ASSUME NEW s, TreeClosed(s), NEW b \in VbkBlocks, s.refs[b] > 0, NEW a \in VbkAncestors[b]
    PROVE  s.refs[a] > 0
<1> DEFINE n == VbkHeight[b] - VbkHeight[a]
           G == {i \in 0 .. n : s.refs[VbkBlockAt(b, VbkHeight[b] - i)] > 0}
<1>1. /\ VbkHeight[b] \in Nat /\ VbkHeight[a] \in Nat /\ VbkHeight[VbkRoot] \in Nat
      /\ VbkHeight[VbkRoot] <= VbkHeight[a] /\ VbkHeight[a] <= VbkHeight[b]
      /\ a \in VbkBlocks /\ b \in VbkAncestors[b]
  BY VbkChainFacts
<1>2. n \in Nat
  BY <1>1
<1>3. 0 \in G
  <2>1. VbkBlockAt(b, VbkHeight[b]) = b
    BY <1>1, VbkBlockAtFacts
  <2>2. VbkHeight[b] - 0 = VbkHeight[b]
    BY <1>1
  <2> QED
    BY <1>2, <2>1, <2>2
<1>4. ASSUME NEW i \in 1 .. n, i - 1 \in G
      PROVE  i \in G
  <2> DEFINE h == VbkHeight[b] - i
             w == VbkBlockAt(b, h + 1)
  <2>1. /\ h \in ChainHeights(b) /\ h + 1 \in ChainHeights(b) /\ VbkHeight[b] - (i - 1) = h + 1
        /\ h + 1 # VbkHeight[VbkRoot] /\ h \in Nat /\ i \in 0 .. n
    BY <1>1, <1>2 DEF ChainHeights
  <2> HIDE DEF h
  <2>2. w \in VbkAncestors[b] /\ w \in VbkBlocks /\ VbkHeight[w] = h + 1
    BY <2>1, VbkBlockAtFacts
  <2>3. s.refs[w] > 0
    BY <1>4, <2>1
  <2> HIDE DEF w
  <2>4. w # VbkRoot
    BY <2>1, <2>2
  <2>5. VbkPrev[w] \in VbkAncestors[b] /\ VbkHeight[VbkPrev[w]] = h
    <3>1. VbkPrev[w] \in VbkBlocks /\ VbkAncestors[w] = VbkAncestors[VbkPrev[w]] \cup {w}
      BY <2>2, <2>4, PrevFacts
    <3>2. VbkPrev[w] \in VbkAncestors[VbkPrev[w]] /\ VbkAncestors[w] \subseteq VbkAncestors[b]
      BY <2>2, <3>1, VbkChainFacts
    <3>3. VbkHeight[w] = VbkHeight[VbkPrev[w]] + 1 /\ VbkHeight[VbkPrev[w]] \in Nat
      BY <2>2, <2>4, <3>1, VbkChainAssumption, VbkChainFacts
    <3> QED
      BY <2>1, <2>2, <3>1, <3>2, <3>3
  <2>6. VbkBlockAt(b, h) = VbkPrev[w]
    BY <2>5, VbkBlockAtFacts
  <2>7. s.refs[VbkPrev[w]] > 0
    BY <2>2, <2>3, <2>4 DEF TreeClosed
  <2> QED
    BY <2>1, <2>6, <2>7 DEF h
<1> HIDE DEF G, n
<1>5. \A i \in 0 .. n : i \in G
  BY <1>2, <1>3, <1>4, UpTo
<1>6. n \in G
  BY <1>2, <1>5
<1>7. VbkHeight[b] - n = VbkHeight[a] /\ VbkBlockAt(b, VbkHeight[a]) = a
  BY <1>1, VbkBlockAtFacts DEF n
<1> QED
  BY <1>6, <1>7 DEF G

\* The state x with n references to the block v.
WithRef(x, v, n) == [x EXCEPT !.refs[v] = n]

OnlyRef(r, x, v, n) ==
    /\ Exact(r) /\ r.ids = x.ids /\ r.ok = x.ok /\ r.tip = x.tip
    /\ \A w \in VbkBlocks : r.refs[w] = IF w = v THEN n ELSE x.refs[w]

LEMMA RefMoved ==
    ASSUME NEW x, Exact(x), NEW v \in VbkBlocks, NEW n \in Int
    PROVE  OnlyRef(WithRef(x, v, n), x, v, n)
<1> DEFINE r == WithRef(x, v, n)
<1>1. Exact(r) /\ r.refs = [x.refs EXCEPT ![v] = n] /\ r.ids = x.ids /\ r.ok = x.ok /\ r.tip = x.tip
  BY OneRefMoved DEF WithRef
<1>2. x.refs \in [VbkBlocks -> Int]
  BY ExactFacts, StateFacts
<1> HIDE DEF r
<1>3. OnlyRef(r, x, v, n)
  BY <1>1, <1>2 DEF OnlyRef
<1> QED
  BY <1>3 DEF r

LEMMA AddVbkBlockSound ==
    ASSUME ContextsLinked, VtbsIndependent, NEW s, Sound(s), TreeClosed(s), NEW v \in VbkBlocks \ {VbkRoot}
    PROVE  /\ AddVbkBlock(s, v) # {} <=> s.refs[VbkPrev[v]] > 0
           /\ \A r \in AddVbkBlock(s, v) : Sound(r)
<1>1. /\ s \in VbkStates /\ s.refs[v] \in Int /\ s.refs[v] >= 0 /\ Exact(s) /\ s.ok /\ AllSupported(s.ids)
      /\ s.tip \in VbkBlocks /\ s.refs[s.tip] > 0 /\ \A w \in VbkBlocks : s.refs[w] \in Int /\ s.refs[w] >= 0
  BY SoundFacts
<1>2. VbkPrev[v] \in VbkBlocks /\ VbkPrev[v] # v
  BY PrevFacts
<1>3. s.refs \in [VbkBlocks -> Int]
  BY <1>1, StateFacts
<1>4. ASSUME NEW n \in Nat \ {0}, NEW x, x = WithRef(s, v, n), n >= s.refs[v]
      PROVE  Sound(x) /\ v \in InVbk(x)
  <2>1. OnlyRef(x, s, v, n)
    BY <1>1, <1>4, RefMoved
  <2> QED
    BY <1>1, <2>1 DEF Sound, InVbk, OnlyRef
<1>5. CASE s.refs[v] > 0
  <2>1. AddVbkBlock(s, v) = {WithRef(s, v, s.refs[v] + 1)}
    BY <1>5 DEF AddVbkBlock, WithRef
  <2>2. s.refs[v] + 1 \in Nat \ {0} /\ s.refs[v] + 1 >= s.refs[v]
    BY <1>1, <1>5
  <2>3. Sound(WithRef(s, v, s.refs[v] + 1))
    BY <1>4, <2>2
  <2>4. s.refs[VbkPrev[v]] > 0
    BY <1>5 DEF TreeClosed
  <2> QED
    BY <2>1, <2>3, <2>4
<1>6. CASE ~(s.refs[v] > 0)
  <2> DEFINE x == WithRef(s, v, 1)
  <2>1. AddVbkBlock(s, v) = IF s.refs[VbkPrev[v]] = 0 THEN {} ELSE Resolve(x, {v})
    BY <1>6 DEF AddVbkBlock, WithRef
  <2>2. 1 \in Nat \ {0} /\ 1 >= s.refs[v]
    BY <1>1, <1>6
  <2>3. Sound(x) /\ v \in InVbk(x)
    BY <1>4, <2>2
  <2> HIDE DEF x
  <2>4. Resolve(x, {v}) # {} /\ \A r \in Resolve(x, {v}) : Sound(r)
    BY <2>3, ResolveSound
  <2> QED
    BY <1>1, <1>2, <2>1, <2>4
<1> QED
  BY <1>5, <1>6

\* A VTB can be removed when those that stay are supported without it.
LEMMA RemoveVtbSound ==
    ASSUME ContextsLinked, VtbsIndependent, NEW s, Sound(s), NEW y \in Vtbs,
           y \in ToSet(s.ids[Containing[y]]), AllSupported(RemoveVtb(s, y).ids)
    PROVE  Sound(RemoveVtb(s, y))
<1> DEFINE v == Containing[y]
           r == RemoveVtb(s, y)
           u == UnExecuteVtb(s, y)
           q == RemoveFirst(s.ids[v], y)
<1>1. /\ s \in VbkStates /\ Exact(s) /\ s.ok /\ IdsOk(s.ids) /\ AllSupported(s.ids)
      /\ s.tip \in VbkBlocks /\ v \in VbkBlocks
  BY SoundFacts, VtbFacts
<1>2. /\ Exact(r) /\ r.refs = s.refs /\ r.tip = s.tip /\ r.ids = [s.ids EXCEPT ![v] = q]
      /\ v \in VbkAncestors[s.tip] => r.btc = u.btc /\ r.ok = u.ok
      /\ v \notin VbkAncestors[s.tip] => r.ok = s.ok
  BY <1>1, RemoveVtbEffect
<1>3. AllSupported(r.ids)
  OBVIOUS
<1> HIDE DEF r, q
<1>4. CASE v \in VbkAncestors[s.tip]
  <2>1. r \in VbkStates /\ IdsOk(r.ids) /\ AppliedUpTo(r, r, r.tip, VbkHeight[r.tip])
    BY <1>2, ExactFacts DEF Exact
  <2>2. VbkHeight[r.tip] \in ChainHeights(r.tip) /\ VbkHeight[v] <= VbkHeight[r.tip] + 1
    BY <1>1, <1>2, <1>4, VbkChainFacts DEF ChainHeights
  <2>3. NonNegative(r) /\ BtcClosed(r)
    BY <1>1, <1>2, <1>3, <2>1, <2>2, AppliedClosed
  <2>4. Supported(r.ids, y)
    <3>1. Supported(s.ids, y)
      BY <1>1 DEF AllSupported
    <3>2. ASSUME NEW a \in VbkAncestors[v], NEW z \in ToSet(s.ids[a]), BtcNeed(y) \in ToSet(BtcContext[z])
          PROVE  z \in ToSet(r.ids[a])
      <4>1. a \in VbkBlocks
        BY <1>1, VbkChainFacts
      <4>2. z \in Vtbs /\ Containing[z] = a
        BY <1>1, <4>1, IdsFacts DEF IdsOk
      <4>3. a # v
        BY <3>2, <4>2 DEF VtbsIndependent
      <4>4. r.ids[a] = s.ids[a]
        BY <1>1, <1>2, <4>1, <4>3, StateFacts
      <4> QED
        BY <4>4
    <3> QED
      BY <3>1, <3>2 DEF Supported
  <2>5. InBtc(r, BtcNeed(y))
    BY <1>1, <1>2, <1>4, <2>1, <2>2, <2>4, SupportedInBtc
  <2>6. NonNegative(u) /\ BtcClosed(u) /\ InBtc(u, BtcNeed(y))
    BY <1>2, <1>4, <2>3, <2>5 DEF NonNegative, BtcClosed, InBtc
  <2>7. u.ok
    BY <1>1, <2>6, UnExecuteVtbOk
  <2>8. r.ok
    BY <1>2, <1>4, <2>7
  <2> HIDE DEF u
  <2>9. Sound(r)
    BY <1>2, <1>3, <2>8 DEF Sound, InVbk
  <2> QED
    BY <2>9 DEF r
<1>5. CASE v \notin VbkAncestors[s.tip]
  <2>1. Sound(r)
    BY <1>1, <1>2, <1>3, <1>5 DEF Sound, InVbk
  <2> QED
    BY <2>1 DEF r
<1> QED
  BY <1>4, <1>5

\* A VBK block can lose its last reference when the tree hangs together without it.
LEMMA RemoveVbkBlockSound ==
    ASSUME ContextsLinked, VtbsIndependent, NEW s, Sound(s), TreeClosed(s), NEW v \in VbkBlocks \ {VbkRoot},
           s.refs[v] > 0, TreeClosed(RemoveVbkBlock(s, v))
    PROVE  Sound(RemoveVbkBlock(s, v))
<1> DEFINE r == RemoveVbkBlock(s, v)
           n == IF s.refs[v] > 1 THEN s.refs[v] - 1 ELSE 0
<1>1. /\ s \in VbkStates /\ Exact(s) /\ s.ok /\ AllSupported(s.ids) /\ IdsOk(s.ids)
      /\ s.tip \in VbkBlocks /\ s.refs[s.tip] > 0 /\ \A w \in VbkBlocks : s.refs[w] \in Int /\ s.refs[w] >= 0
  BY SoundFacts
<1>2. VbkPrev[v] \in VbkBlocks /\ VbkPrev[v] # v /\ s.refs[VbkPrev[v]] > 0
  BY PrevFacts DEF TreeClosed
<1>3. s.refs \in [VbkBlocks -> Int]
  BY <1>1, StateFacts
<1>4. RefsSet(r, s, v, n)
  BY <1>1, RemoveVbkBlockEffect
<1>5. TreeClosed(r)
  OBVIOUS
<1>6. CASE s.refs[v] > 1
  <2>1. r = WithRef(s, v, s.refs[v] - 1)
    BY <1>6 DEF RemoveVbkBlock, WithRef
  <2>2. s.refs[v] - 1 \in Int /\ s.refs[v] - 1 > 0
    BY <1>1, <1>6
  <2> HIDE DEF r
  <2>3. OnlyRef(r, s, v, s.refs[v] - 1)
    BY <1>1, <2>1, <2>2, RefMoved
  <2>5. Sound(r)
    BY <1>1, <2>2, <2>3 DEF Sound, InVbk, OnlyRef
  <2> QED
    BY <2>5 DEF r
<1>7. CASE ~(s.refs[v] > 1)
  <2> DEFINE out == IF v \in VbkAncestors[s.tip] THEN SetVbkState(s, VbkPrev[v]) ELSE s
             unused == /\ v \in VbkTips(s)
                       /\ s.ids[v] = <<>>
                       /\ \A a \in VbkAncestors[s.tip] : \A y \in ToSet(s.ids[a]) : Endorsed[y] # v
             x == WithRef(out, v, 0)
             k == x.ok /\ s.refs[v] = 1 /\ unused
  <2>1. r = [x EXCEPT !.ok = k]
    BY <1>7 DEF RemoveVbkBlock, WithRef
  <2>2. Sound(out) /\ Alike(out, s) /\ out.tip # v
    <3>1. CASE v \in VbkAncestors[s.tip]
      <4>1. VbkPrev[v] \in InVbk(s)
        BY <1>2 DEF InVbk
      <4> QED
        BY <1>1, <1>2, <3>1, <4>1, SetVbkStateSound, SetVbkStateEffect
    <3>2. CASE v \notin VbkAncestors[s.tip]
      <4>1. s.tip # v
        BY <1>1, <3>2, VbkChainFacts
      <4> QED
        BY <1>1, <3>2, <4>1, ExactFacts
    <3> QED
      BY <3>1, <3>2
  <2> HIDE DEF out
  <2>3. /\ Exact(out) /\ out.ids = s.ids /\ out.refs = s.refs /\ out.ok /\ out.tip \in VbkBlocks
        /\ out.refs[out.tip] > 0
    BY <2>2, SoundFacts DEF Alike
  <2>4. Exact(x) /\ x.ids = s.ids /\ x.ok = out.ok /\ x.tip = out.tip
    <3>1. OnlyRef(x, out, v, 0)
      BY <2>3, RefMoved
    <3> HIDE DEF x
    <3> QED
      BY <2>3, <3>1 DEF OnlyRef
  <2> HIDE DEF x
  <2>5. n = 0 /\ s.refs[v] = 1
    BY <1>1, <1>7
  <2>6. \A w \in VbkBlocks : r.refs[w] = IF w = v THEN 0 ELSE s.refs[w]
    BY <1>3, <1>4, <2>5 DEF RefsSet
  <2>7. r.ids = s.ids
    BY <1>4 DEF RefsSet
  <2>8. unused
    <3> HIDE DEF r
    <3>1. \A c \in InVbk(s) \ {VbkRoot} : VbkPrev[c] # v
      <4> SUFFICES ASSUME NEW c \in InVbk(s) \ {VbkRoot}, VbkPrev[c] = v PROVE FALSE
        OBVIOUS
      <4>1. c \in VbkBlocks \ {VbkRoot} /\ s.refs[c] > 0
        BY DEF InVbk
      <4>2. c # v
        BY <4>1, PrevFacts
      <4>3. r.refs[c] > 0
        BY <4>1, <4>2, <2>6
      <4>4. r.refs[v] > 0
        BY <4>1, <4>3, <1>5 DEF TreeClosed
      <4> QED
        BY <4>4, <2>6
    <3>2. v \in VbkTips(s)
      BY <3>1 DEF VbkTips, InVbk
    <3>3. s.ids[v] = <<>>
      <4>1. \A y \in ToSet(s.ids[v]) : FALSE
        BY <1>5, <2>6, <2>7 DEF TreeClosed
      <4>2. s.ids[v] \in Seq(Vtbs) /\ \A i \in 1 .. Len(s.ids[v]) : s.ids[v][i] \in ToSet(s.ids[v])
        BY <1>1, IdsFacts
      <4>3. Len(s.ids[v]) = 0
        BY <4>1, <4>2
      <4> QED
        BY <4>2, <4>3
    <3>4. ASSUME NEW a \in VbkAncestors[s.tip], NEW y \in ToSet(s.ids[a]), Endorsed[y] = v
          PROVE  FALSE
      <4>1. a \in VbkBlocks
        BY <1>1, VbkChainFacts
      <4>2. Containing[y] = a
        BY <1>1, <4>1 DEF IdsOk
      <4>3. r.refs[a] > 0 /\ v \in VbkAncestors[a]
        BY <1>5, <2>7, <3>4, <4>1, <4>2 DEF TreeClosed, EndorsementFits
      <4>4. r.refs[v] > 0
        BY <1>5, <4>1, <4>3, AncestorsIn
      <4> QED
        BY <4>4, <2>6
    <3> QED
      BY <3>2, <3>3, <3>4
  <2>9. k
    BY <2>3, <2>4, <2>5, <2>8
  <2> HIDE DEF k, r
  <2>10. Alike(r, x) /\ r.tip = x.tip /\ r.ok
    <3>1. k = TRUE
      BY <2>9 DEF k
    <3>2. r = [x EXCEPT !.ok = TRUE] /\ x \in VbkStates
      BY <2>1, <2>4, <3>1, ExactFacts
    <3>3. Alike(r, x) /\ r.tip = x.tip
      BY <2>4, <3>2, OkMoved
    <3>4. r.ok
      BY <3>2, StateFacts
    <3> QED
      BY <3>3, <3>4
  <2>11. Sound(r)
    <3>1. r.tip \in InVbk(r)
      BY <2>2, <2>3, <2>4, <2>6, <2>10 DEF InVbk
    <3>2. \A w \in VbkBlocks : r.refs[w] >= 0
      BY <1>1, <2>6
    <3> QED
      BY <1>1, <2>7, <2>10, <3>1, <3>2 DEF Sound, Alike
  <2> QED
    BY <2>11 DEF r
<1> QED
  BY <1>6, <1>7

-----------------------------------------------------------------------------
(* What sequences of commands need.                                         *)

\* What a command needs of the commands before it: more of them do no harm,
NeedsMet(S, c) ==
    LET v == Containing[c]
        vtbs == {z \in S \cap Vtbs : Containing[z] \in VbkAncestors[v]}
    IN  IF c \notin Vtbs THEN VbkPrev[c] \in VbkBase \cup S
        ELSE /\ v \in VbkBase \cup S
             /\ EndorsementFits(c)
             /\ BtcNeed(c) \in {BtcRoot} \cup UNION {ToSet(BtcContext[z]) : z \in vtbs}

\* except that a VBK block holds only so many VTBs.
HasRoom(q, c) == c \in Vtbs => Hits(q, VtbsOf(Containing[c])) < MaxVtbs

LEMMA FollowsParts ==
    ASSUME NEW q, NEW c
    PROVE  FollowsOn(q, c) <=> NeedsMet(ToSet(q), c) /\ HasRoom(q, c)
<1>1. \A v : {i \in DOMAIN q : q[i] \in Vtbs /\ Containing[q[i]] = v} = HitsOf(q, VtbsOf(v))
  BY DEF HitsOf, VtbsOf
<1>2. \A v : Cardinality({i \in DOMAIN q : q[i] \in Vtbs /\ Containing[q[i]] = v}) = Hits(q, VtbsOf(v))
  BY <1>1 DEF Hits
<1>3. CASE c \notin Vtbs
  BY <1>3 DEF FollowsOn, NeedsMet, HasRoom
<1>4. CASE c \in Vtbs
  <2> DEFINE v == Containing[c]
             B == BtcNeed(c) \in {BtcRoot} \cup
                    UNION {ToSet(BtcContext[z]) : z \in {z \in ToSet(q) \cap Vtbs : Containing[z] \in VbkAncestors[v]}}
             N == Cardinality({i \in DOMAIN q : q[i] \in Vtbs /\ Containing[q[i]] = v})
             A == v \in VbkBase \cup ToSet(q)
  <2>1. FollowsOn(q, c) <=> A /\ EndorsementFits(c) /\ N < MaxVtbs /\ B
    BY <1>4 DEF FollowsOn
  <2>2. NeedsMet(ToSet(q), c) <=> A /\ EndorsementFits(c) /\ B
    BY <1>4 DEF NeedsMet
  <2>3. HasRoom(q, c) <=> N < MaxVtbs
    BY <1>2, <1>4 DEF HasRoom
  <2> HIDE DEF A, B, N
  <2> QED
    BY <2>1, <2>2, <2>3
<1> QED
  BY <1>3, <1>4

LEMMA NeedsMore ==
    ASSUME NEW S, NEW T, S \subseteq T, NEW c, NeedsMet(S, c)
    PROVE  NeedsMet(T, c)
<1> DEFINE D(X) == UNION {ToSet(BtcContext[z]) : z \in {z \in X \cap Vtbs : Containing[z] \in VbkAncestors[Containing[c]]}}
<1>1. D(S) \subseteq D(T)
  OBVIOUS
<1>2. CASE c \notin Vtbs
  BY <1>2 DEF NeedsMet
<1>3. CASE c \in Vtbs
  BY <1>1, <1>3 DEF NeedsMet
<1> QED
  BY <1>2, <1>3

LEMMA ToSetConcat ==
    ASSUME NEW X, NEW q \in Seq(X), NEW r \in Seq(X)
    PROVE  ToSet(q \o r) = ToSet(q) \cup ToSet(r)
<1> DEFINE w == q \o r
<1>1. /\ w \in Seq(X) /\ Len(w) = Len(q) + Len(r) /\ DOMAIN w = 1 .. Len(w)
      /\ Len(q) \in Nat /\ Len(r) \in Nat /\ DOMAIN q = 1 .. Len(q) /\ DOMAIN r = 1 .. Len(r)
  BY ConcatFacts
<1>2. /\ \A i \in 1 .. Len(q) : i \in DOMAIN w /\ w[i] = q[i]
      /\ \A i \in 1 .. Len(r) : Len(q) + i \in DOMAIN w /\ w[Len(q) + i] = r[i]
  BY <1>1
<1>3. \A i \in DOMAIN w : i \in 1 .. Len(q) \/ \E j \in 1 .. Len(r) : i = Len(q) + j
  <2> SUFFICES ASSUME NEW i \in DOMAIN w, i \notin 1 .. Len(q) PROVE \E j \in 1 .. Len(r) : i = Len(q) + j
    OBVIOUS
  <2>1. i - Len(q) \in 1 .. Len(r) /\ i = Len(q) + (i - Len(q))
    BY <1>1
  <2> QED
    BY <2>1
<1> HIDE DEF w
<1>4. ToSet(w) \subseteq ToSet(q) \cup ToSet(r)
  <2> SUFFICES ASSUME NEW i \in DOMAIN w PROVE w[i] \in ToSet(q) \cup ToSet(r)
    BY DEF ToSet
  <2>1. CASE i \in 1 .. Len(q)
    BY <2>1, <1>1, <1>2 DEF ToSet
  <2>2. ASSUME NEW j \in 1 .. Len(r), i = Len(q) + j PROVE w[i] \in ToSet(r)
    BY <2>2, <1>1, <1>2 DEF ToSet
  <2> QED
    BY <2>1, <2>2, <1>3
<1>5. ToSet(q) \subseteq ToSet(w)
  BY <1>1, <1>2 DEF ToSet
<1>6. ToSet(r) \subseteq ToSet(w)
  BY <1>1, <1>2 DEF ToSet
<1> QED
  BY <1>4, <1>5, <1>6 DEF w

LEMMA PrefixFacts ==
    ASSUME NEW X, NEW q \in Seq(X), NEW n \in 0 .. Len(q)
    PROVE  /\ SubSeq(q, 1, n) \in Seq(X) /\ Len(SubSeq(q, 1, n)) = n
           /\ \A i \in 1 .. n : SubSeq(q, 1, n)[i] = q[i]
           /\ ToSet(SubSeq(q, 1, n)) \subseteq ToSet(q)
<1>1. Len(q) \in Nat /\ DOMAIN q = 1 .. Len(q) /\ \A i \in 1 .. Len(q) : q[i] \in X
  OBVIOUS
<1>2. /\ SubSeq(q, 1, n) \in Seq(X) /\ Len(SubSeq(q, 1, n)) = n
      /\ \A i \in 1 .. n : SubSeq(q, 1, n)[i] = q[i]
  BY <1>1
<1>3. DOMAIN SubSeq(q, 1, n) = 1 .. n /\ \A i \in 1 .. n : i \in DOMAIN q
  BY <1>1, <1>2
<1> QED
  BY <1>2, <1>3 DEF ToSet

\* Prefixes of a concatenation.
LEMMA PrefixOfConcat ==
    ASSUME NEW X, NEW q \in Seq(X), NEW r \in Seq(X)
    PROVE  /\ \A i \in 1 .. Len(q) : SubSeq(q \o r, 1, i - 1) = SubSeq(q, 1, i - 1) /\ (q \o r)[i] = q[i]
           /\ \A j \in 1 .. Len(r) : /\ SubSeq(q \o r, 1, (Len(q) + j) - 1) = q \o SubSeq(r, 1, j - 1)
                                     /\ (q \o r)[Len(q) + j] = r[j]
<1> DEFINE w == q \o r
<1>1. /\ w \in Seq(X) /\ Len(w) = Len(q) + Len(r) /\ Len(q) \in Nat /\ Len(r) \in Nat
  BY ConcatFacts
<1>2. /\ \A i \in 1 .. Len(q) : w[i] = q[i]
      /\ \A j \in 1 .. Len(r) : w[Len(q) + j] = r[j]
  BY <1>1
<1> HIDE DEF w
<1>3. ASSUME NEW i \in 1 .. Len(q)
      PROVE  SubSeq(w, 1, i - 1) = SubSeq(q, 1, i - 1)
  <2> DEFINE a == SubSeq(w, 1, i - 1)
             b == SubSeq(q, 1, i - 1)
  <2>1. i - 1 \in 0 .. Len(w) /\ i - 1 \in 0 .. Len(q) /\ \A k \in 1 .. i - 1 : k \in 1 .. Len(q)
    BY <1>1
  <2>2. a \in Seq(X) /\ Len(a) = i - 1 /\ \A k \in 1 .. i - 1 : a[k] = w[k]
    BY <1>1, <2>1, PrefixFacts
  <2>3. b \in Seq(X) /\ Len(b) = i - 1 /\ \A k \in 1 .. i - 1 : b[k] = q[k]
    BY <1>1, <2>1, PrefixFacts
  <2> HIDE DEF a, b
  <2>4. \A k \in 1 .. Len(a) : a[k] = b[k]
    BY <1>2, <2>1, <2>2, <2>3
  <2>5. a = b
    BY <2>2, <2>3, <2>4, SeqEqual
  <2> QED
    BY <2>5 DEF a, b
<1>4. ASSUME NEW j \in 1 .. Len(r)
      PROVE  SubSeq(w, 1, (Len(q) + j) - 1) = q \o SubSeq(r, 1, j - 1)
  <2> DEFINE n == (Len(q) + j) - 1
             a == SubSeq(w, 1, n)
             t == SubSeq(r, 1, j - 1)
             b == q \o t
  <2>1. n \in 0 .. Len(w) /\ j - 1 \in 0 .. Len(r) /\ n = Len(q) + (j - 1) /\ j - 1 \in Nat
    BY <1>1
  <2> HIDE DEF n
  <2>2. a \in Seq(X) /\ Len(a) = n /\ \A k \in 1 .. n : a[k] = w[k]
    BY <1>1, <2>1, PrefixFacts
  <2>3. t \in Seq(X) /\ Len(t) = j - 1 /\ \A k \in 1 .. j - 1 : t[k] = r[k]
    BY <1>1, <2>1, PrefixFacts
  <2> HIDE DEF t
  <2>4. b \in Seq(X) /\ Len(b) = n
    <3>1. b \in Seq(X) /\ Len(b) = Len(q) + Len(t)
      BY <2>3, ConcatFacts
    <3> QED
      BY <3>1, <2>1, <2>3
  <2>5. \A k \in 1 .. Len(q) : b[k] = q[k] /\ k \in 1 .. n
    BY <1>1, <2>1, <2>3
  <2>6. \A k \in 1 .. j - 1 : b[Len(q) + k] = t[k]
    BY <1>1, <2>1, <2>3
  <2> HIDE DEF a, b
  <2>7. ASSUME NEW k \in 1 .. n
        PROVE  a[k] = b[k]
    <3>1. CASE k <= Len(q)
      <4>1. k \in 1 .. Len(q)
        BY <3>1, <1>1, <2>1
      <4> QED
        BY <4>1, <1>2, <2>2, <2>5
    <3>2. CASE ~(k <= Len(q))
      <4> DEFINE l == k - Len(q)
      <4>1. l \in 1 .. j - 1 /\ l \in 1 .. Len(r) /\ k = Len(q) + l
        BY <3>2, <1>1, <2>1
      <4> HIDE DEF l
      <4> QED
        BY <4>1, <1>2, <2>2, <2>3, <2>6
    <3> QED
      BY <3>1, <3>2
  <2>8. a = b
    BY <2>2, <2>4, <2>7, SeqEqual
  <2> QED
    BY <2>8 DEF a, b, t, n
<1> QED
  BY <1>2, <1>3, <1>4 DEF w

LEMMA AppliesConcat ==
    ASSUME NEW q \in Seq(Commands), NEW r \in Seq(Commands)
    PROVE  AppliesAlone(q \o r) <=>
              /\ AppliesAlone(q)
              /\ \A j \in 1 .. Len(r) : FollowsOn(q \o SubSeq(r, 1, j - 1), r[j])
<1> DEFINE w == q \o r
           On(i) == FollowsOn(SubSeq(w, 1, i - 1), w[i])
<1>1. /\ Len(w) = Len(q) + Len(r) /\ DOMAIN w = 1 .. Len(w)
      /\ Len(q) \in Nat /\ Len(r) \in Nat /\ DOMAIN q = 1 .. Len(q)
  BY ConcatFacts
<1>2. \A i \in 1 .. Len(q) : On(i) <=> FollowsOn(SubSeq(q, 1, i - 1), q[i])
  BY PrefixOfConcat
<1>3. \A j \in 1 .. Len(r) : On(Len(q) + j) <=> FollowsOn(q \o SubSeq(r, 1, j - 1), r[j])
  <2> TAKE j \in 1 .. Len(r)
  <2>1. SubSeq(w, 1, (Len(q) + j) - 1) = q \o SubSeq(r, 1, j - 1)
    BY PrefixOfConcat
  <2>2. w[Len(q) + j] = r[j]
    BY PrefixOfConcat
  <2> QED
    BY <2>1, <2>2
<1>4. AppliesAlone(w) <=> \A i \in 1 .. Len(w) : On(i)
  BY <1>1 DEF AppliesAlone
<1>5. AppliesAlone(q) <=> \A i \in 1 .. Len(q) : On(i)
  BY <1>1, <1>2 DEF AppliesAlone
<1> HIDE DEF On, w
<1>6. (\A i \in 1 .. Len(w) : On(i)) <=> /\ \A i \in 1 .. Len(q) : On(i)
                                         /\ \A j \in 1 .. Len(r) : On(Len(q) + j)
  <2>1. /\ \A i \in 1 .. Len(q) : i \in 1 .. Len(w)
        /\ \A j \in 1 .. Len(r) : Len(q) + j \in 1 .. Len(w)
    BY <1>1
  <2>2. ASSUME NEW i \in 1 .. Len(w), i \notin 1 .. Len(q)
        PROVE  i - Len(q) \in 1 .. Len(r) /\ Len(q) + (i - Len(q)) = i
    BY <1>1, <2>2
  <2> QED
    BY <2>1, <2>2
<1>7. AppliesAlone(w) <=> AppliesAlone(q) /\ \A j \in 1 .. Len(r) : FollowsOn(q \o SubSeq(r, 1, j - 1), r[j])
  BY <1>3, <1>4, <1>5, <1>6
<1> QED
  BY <1>7 DEF w

LEMMA AppliesAppend ==
    ASSUME NEW q \in Seq(Commands), NEW c \in Commands
    PROVE  AppliesAlone(Append(q, c)) <=> AppliesAlone(q) /\ FollowsOn(q, c)
<1> DEFINE r == <<c>>
<1>1. r \in Seq(Commands) /\ Len(r) = 1 /\ r[1] = c /\ Append(q, c) = q \o r
  BY AppendIsConcat
<1>2. SubSeq(r, 1, 1 - 1) = <<>> /\ q \o <<>> = q
  BY SubSeqEmpty, ConcatEmptySeq
<1> HIDE DEF r
<1>3. AppliesAlone(q \o r) <=> AppliesAlone(q) /\ \A j \in 1 .. Len(r) : FollowsOn(q \o SubSeq(r, 1, j - 1), r[j])
  BY <1>1, AppliesConcat
<1>4. (\A j \in 1 .. Len(r) : FollowsOn(q \o SubSeq(r, 1, j - 1), r[j])) <=> FollowsOn(q \o SubSeq(r, 1, 1 - 1), r[1])
  <2>1. \A j \in 1 .. Len(r) : j = 1
    BY <1>1
  <2>2. 1 \in 1 .. Len(r)
    BY <1>1
  <2> QED
    BY <2>1, <2>2
<1> QED
  BY <1>1, <1>2, <1>3, <1>4

LEMMA AppliesPrefix ==
    ASSUME NEW q \in Seq(Commands), AppliesAlone(q), NEW n \in 0 .. Len(q)
    PROVE  AppliesAlone(SubSeq(q, 1, n))
<1> DEFINE a == SubSeq(q, 1, n)
           b == SubSeq(q, n + 1, Len(q))
<1>1. Len(q) \in Nat /\ n \in Int /\ n + 1 \in Int /\ \A i \in 1 .. Len(q) : q[i] \in Commands
  OBVIOUS
<1>2. a \in Seq(Commands) /\ b \in Seq(Commands)
  <2>1. \A i \in n + 1 .. Len(q) : q[i] \in Commands
    BY <1>1
  <2> QED
    BY <1>1, <2>1, PrefixFacts, SubSeqProperties
<1>3. q = a \o b
  <2>1. 1 \in 1 .. Len(q) + 1 /\ n \in 1 - 1 .. Len(q) /\ Len(q) \in n .. Len(q)
    BY <1>1
  <2>2. a \o b = SubSeq(q, 1, Len(q))
    BY <2>1, ConcatAdjacentSubSeq
  <2> QED
    BY <2>2, SubSeqFull
<1> HIDE DEF a, b
<1>4. AppliesAlone(a)
  BY <1>2, <1>3, AppliesConcat
<1> QED
  BY <1>4 DEF a

LEMMA FrontIsPrefix ==
    ASSUME NEW q \in Seq(Commands), q # <<>>
    PROVE  /\ Len(q) \in Nat \ {0} /\ Front(q) = SubSeq(q, 1, Len(q) - 1) /\ Len(q) - 1 \in 0 .. Len(q)
           /\ Front(q) \in Seq(Commands) /\ Last(q) \in Commands
           /\ q = Append(Front(q), Last(q)) /\ Len(Front(q)) = Len(q) - 1
<1>1. Len(q) \in Nat \ {0} /\ Len(q) - 1 \in 0 .. Len(q)
  <2>1. Len(q) \in Nat /\ Len(q) # 0
    OBVIOUS
  <2> QED
    BY <2>1
<1>2. Front(q) = SubSeq(q, 1, Len(q) - 1) /\ Last(q) = q[Len(q)]
  BY DEF Front, Last
<1>3. Front(q) \in Seq(Commands) /\ Len(Front(q)) = Len(q) - 1 /\ \A i \in 1 .. Len(q) - 1 : Front(q)[i] = q[i]
  <2> DEFINE n == Len(q) - 1
  <2>1. n \in 0 .. Len(q) /\ Front(q) = SubSeq(q, 1, n)
    BY <1>1, <1>2
  <2> HIDE DEF n
  <2>2. Front(q) \in Seq(Commands) /\ Len(Front(q)) = n /\ \A i \in 1 .. n : Front(q)[i] = q[i]
    BY <2>1, PrefixFacts
  <2> QED
    BY <2>2 DEF n
<1>4. Last(q) \in Commands
  BY <1>1, <1>2
<1> DEFINE a == Append(Front(q), Last(q))
<1>5. /\ a \in Seq(Commands) /\ Len(a) = Len(Front(q)) + 1
      /\ \A i \in 1 .. Len(Front(q)) : a[i] = Front(q)[i]
      /\ a[Len(Front(q)) + 1] = Last(q)
  BY <1>3, <1>4, AppendProperties
<1> HIDE DEF a
<1>6. Len(a) = Len(q)
  BY <1>1, <1>3, <1>5
<1>7. \A i \in 1 .. Len(a) : a[i] = q[i]
  <2> SUFFICES ASSUME NEW i \in 1 .. Len(q) PROVE a[i] = q[i]
    BY <1>6
  <2>1. CASE i = Len(q)
    BY <2>1, <1>1, <1>2, <1>3, <1>5
  <2>2. CASE i # Len(q)
    <3>1. i \in 1 .. Len(q) - 1
      BY <2>2, <1>1
    <3> QED
      BY <3>1, <1>3, <1>5
  <2> QED
    BY <2>1, <2>2
<1>8. a = q
  BY <1>5, <1>6, <1>7, SeqEqual
<1> QED
  BY <1>1, <1>2, <1>3, <1>4, <1>8 DEF a

\* A command can be taken out of the middle when what follows does not need it.
LEMMA AppliesMiddle ==
    ASSUME NEW p \in Seq(Commands), p # <<>>, NEW r \in Seq(Commands), NEW f \in 0 .. Len(p) - 1,
           AppliesAlone(p \o r), AppliesAlone(SubSeq(p, 1, f) \o r)
    PROVE  AppliesAlone(Front(p) \o r)
<1> DEFINE a == SubSeq(p, 1, f)
           b == Front(p)
<1>1. /\ Len(p) \in Nat \ {0} /\ b = SubSeq(p, 1, Len(p) - 1) /\ Len(p) - 1 \in 0 .. Len(p)
      /\ b \in Seq(Commands) /\ Len(b) = Len(p) - 1
  BY FrontIsPrefix
<1>2. a \in Seq(Commands) /\ Len(a) = f /\ \A i \in 1 .. f : a[i] = p[i]
  <2>1. f \in 0 .. Len(p)
    BY <1>1
  <2> QED
    BY <2>1, PrefixFacts
<1>3. \A i \in 1 .. Len(p) - 1 : b[i] = p[i]
  BY <1>1, PrefixFacts
<1>4. ToSet(a) \subseteq ToSet(b)
  <2>1. \A i \in 1 .. f : i \in 1 .. Len(p) - 1
    BY <1>1
  <2>2. DOMAIN a = 1 .. f /\ DOMAIN b = 1 .. Len(p) - 1
    BY <1>1, <1>2
  <2> HIDE DEF a, b
  <2> QED
    BY <1>2, <1>3, <2>1, <2>2 DEF ToSet
<1>5. AppliesAlone(p) /\ \A j \in 1 .. Len(r) : FollowsOn(p \o SubSeq(r, 1, j - 1), r[j])
  BY AppliesConcat
<1>6. \A j \in 1 .. Len(r) : FollowsOn(a \o SubSeq(r, 1, j - 1), r[j])
  BY <1>2, AppliesConcat
<1>7. AppliesAlone(b)
  BY <1>1, <1>5, AppliesPrefix
<1>8. \A P : Hits(p, P) = Hits(b, P) + (IF Last(p) \in P THEN 1 ELSE 0)
  BY HitsFront
<1> HIDE DEF a, b
<1>9. ASSUME NEW j \in 1 .. Len(r)
      PROVE  FollowsOn(b \o SubSeq(r, 1, j - 1), r[j])
  <2> DEFINE t == SubSeq(r, 1, j - 1)
             c == r[j]
  <2>1. t \in Seq(Commands)
    <3>1. Len(r) \in Nat /\ j - 1 \in 0 .. Len(r)
      OBVIOUS
    <3> QED
      BY <3>1, PrefixFacts
  <2>2. FollowsOn(p \o t, c) /\ FollowsOn(a \o t, c)
    BY <1>5, <1>6
  <2> HIDE DEF t, c
  <2>3. NeedsMet(ToSet(a \o t), c) /\ HasRoom(p \o t, c)
    BY <2>2, FollowsParts
  <2>4. ToSet(a \o t) \subseteq ToSet(b \o t)
    <3>1. ToSet(a \o t) = ToSet(a) \cup ToSet(t)
      BY <1>2, <2>1, ToSetConcat
    <3>2. ToSet(b \o t) = ToSet(b) \cup ToSet(t)
      BY <1>1, <2>1, ToSetConcat
    <3> QED
      BY <3>1, <3>2, <1>4
  <2>5. NeedsMet(ToSet(b \o t), c)
    BY <2>3, <2>4, NeedsMore
  <2>6. ASSUME NEW P PROVE Hits(b \o t, P) <= Hits(p \o t, P) /\ Hits(b \o t, P) \in Nat /\ Hits(p \o t, P) \in Nat
    <3>1. Hits(b \o t, P) = Hits(b, P) + Hits(t, P) /\ Hits(p \o t, P) = Hits(p, P) + Hits(t, P)
      BY <1>1, <2>1, HitsConcat
    <3>2. Hits(b, P) \in Nat /\ Hits(t, P) \in Nat
      BY <1>1, <2>1, HitsType
    <3> QED
      BY <3>1, <3>2, <1>8
  <2>7. HasRoom(b \o t, c)
    <3>1. CASE c \in Vtbs
      <4>1. MaxVtbs \in Nat
        BY VtbAssumption
      <4> DEFINE P == VtbsOf(Containing[c])
      <4>2. Hits(p \o t, P) < MaxVtbs
        BY <2>3, <3>1 DEF HasRoom
      <4> HIDE DEF P
      <4>3. Hits(b \o t, P) < MaxVtbs
        BY <2>6, <4>1, <4>2
      <4> QED
        BY <4>3 DEF HasRoom, P
    <3>2. CASE c \notin Vtbs
      BY <3>2 DEF HasRoom
    <3> QED
      BY <3>1, <3>2
  <2>8. FollowsOn(b \o t, c)
    BY <2>5, <2>7, FollowsParts
  <2> QED
    BY <2>8 DEF t, c
<1>10. AppliesAlone(b \o r)
  BY <1>1, <1>7, <1>9, AppliesConcat
<1> QED
  BY <1>10 DEF b

-----------------------------------------------------------------------------
(* The VBK tree as a function of the applied commands.                      *)

LEMMA CarriedFacts ==
    ASSUME NEW s, Exact(s), NEW q \in Seq(Commands), Carries(s, q, <<>>)
    PROVE  /\ \A v \in VbkBlocks : /\ s.refs[v] > 0 <=> v \in VbkBase \cup ToSet(q)
                                   /\ s.refs[v] >= 0
           /\ \A y \in Vtbs : y \in ToSet(s.ids[Containing[y]]) <=> y \in ToSet(q)
           /\ \A v \in VbkBlocks : Len(s.ids[v]) = Hits(q, VtbsOf(v))
<1>1. s \in VbkStates /\ IdsOk(s.ids)
  BY ExactFacts
<1>2. \A P : /\ Hits(<<>>, P) = 0 /\ Hits(q, P) \in Nat
             /\ Hits(q, P) > 0 <=> \E y \in ToSet(q) : y \in P
  BY HitsEmpty, HitsPositive
<1>3. ASSUME NEW v \in VbkBlocks
      PROVE  (s.refs[v] > 0 <=> v \in VbkBase \cup ToSet(q)) /\ s.refs[v] >= 0
  <2>1. s.refs[v] = IF v \in VbkBase THEN 1 ELSE Hits(q, {v}) + Hits(<<>>, {v})
    BY DEF Carries
  <2>2. Hits(q, {v}) \in Nat /\ Hits(<<>>, {v}) = 0 /\ (Hits(q, {v}) > 0 <=> v \in ToSet(q))
    BY <1>2
  <2> QED
    BY <2>1, <2>2
<1>4. ASSUME NEW v \in VbkBlocks, NEW P \in SUBSET VtbsOf(v)
      PROVE  Hits(s.ids[v], P) = Hits(q, P)
  <2>1. Hits(s.ids[v], P) = Hits(q, P) + Hits(<<>>, P)
    BY DEF Carries
  <2> QED
    BY <2>1, <1>2
<1>5. ASSUME NEW y \in Vtbs
      PROVE  y \in ToSet(s.ids[Containing[y]]) <=> y \in ToSet(q)
  <2> DEFINE v == Containing[y]
  <2>1. v \in VbkBlocks /\ {y} \in SUBSET VtbsOf(v)
    BY VtbFacts DEF VtbsOf
  <2>2. s.ids[v] \in Seq(Vtbs)
    BY <1>1, <2>1, IdsFacts
  <2>3. Hits(s.ids[v], {y}) > 0 <=> y \in ToSet(s.ids[v])
    BY <2>2, HitsPositive
  <2>4. Hits(q, {y}) > 0 <=> y \in ToSet(q)
    BY <1>2
  <2>5. Hits(s.ids[v], {y}) = Hits(q, {y})
    BY <1>4, <2>1
  <2> QED
    BY <2>3, <2>4, <2>5
<1>6. ASSUME NEW v \in VbkBlocks
      PROVE  Len(s.ids[v]) = Hits(q, VtbsOf(v))
  <2>1. s.ids[v] \in Seq(Vtbs) /\ \A y \in ToSet(s.ids[v]) : y \in VtbsOf(v)
    BY <1>1, IdsFacts DEF IdsOk, VtbsOf
  <2>2. Hits(s.ids[v], VtbsOf(v)) = Len(s.ids[v])
    BY <2>1, HitsInside
  <2>3. VtbsOf(v) \in SUBSET VtbsOf(v)
    OBVIOUS
  <2> QED
    BY <1>4, <2>2, <2>3
<1> QED
  BY <1>3, <1>5, <1>6

\* Whether the tree accepts a command can be read off the applied commands.
Acceptable(s, c) == IF c \in Vtbs THEN VtbAcceptable(s, c) ELSE s.refs[VbkPrev[c]] > 0

LEMMA SupportIsCarried ==
    ASSUME NEW s, Exact(s), NEW q \in Seq(Commands), Carries(s, q, <<>>), NEW y \in Vtbs
    PROVE  LET vtbs == {z \in ToSet(q) \cap Vtbs : Containing[z] \in VbkAncestors[Containing[y]]}
           IN  Supported(s.ids, y) <=>
                 BtcNeed(y) \in {BtcRoot} \cup UNION {ToSet(BtcContext[z]) : z \in vtbs}
<1> DEFINE v == Containing[y]
           d == BtcNeed(y)
<1>1. /\ v \in VbkBlocks /\ \A a \in VbkAncestors[v] : a \in VbkBlocks
      /\ s \in VbkStates /\ IdsOk(s.ids)
  BY VtbFacts, VbkChainFacts, ExactFacts
<1>2. \A z \in Vtbs : z \in ToSet(s.ids[Containing[z]]) <=> z \in ToSet(q)
  BY CarriedFacts
<1>3. \A a \in VbkAncestors[v] : \A z \in ToSet(s.ids[a]) : z \in Vtbs /\ Containing[z] = a
  BY <1>1, IdsFacts DEF IdsOk
<1>4. (\E a \in VbkAncestors[v] : \E z \in ToSet(s.ids[a]) : d \in ToSet(BtcContext[z])) <=>
      (\E z \in Vtbs : z \in ToSet(q) /\ Containing[z] \in VbkAncestors[v] /\ d \in ToSet(BtcContext[z]))
  BY <1>2, <1>3
<1> QED
  BY <1>4 DEF Supported

LEMMA FollowsIsAcceptable ==
    ASSUME NEW s, Exact(s), NEW q \in Seq(Commands), Carries(s, q, <<>>), NEW c \in Commands
    PROVE  FollowsOn(q, c) <=> Acceptable(s, c)
<1>1. FollowsOn(q, c) <=> NeedsMet(ToSet(q), c) /\ HasRoom(q, c)
  BY FollowsParts
<1>2. CASE c \notin Vtbs
  <2>1. VbkPrev[c] \in VbkBlocks
    BY <1>2, CommandFacts, PrevFacts
  <2>2. s.refs[VbkPrev[c]] > 0 <=> VbkPrev[c] \in VbkBase \cup ToSet(q)
    BY <2>1, CarriedFacts
  <2> QED
    BY <1>1, <1>2, <2>2 DEF NeedsMet, HasRoom, Acceptable
<1>3. CASE c \in Vtbs
  <2> DEFINE v == Containing[c]
             B == BtcNeed(c) \in {BtcRoot} \cup
                    UNION {ToSet(BtcContext[z]) : z \in {z \in ToSet(q) \cap Vtbs : Containing[z] \in VbkAncestors[v]}}
  <2>1. v \in VbkBlocks
    BY <1>3, VtbFacts
  <2>2. (s.refs[v] > 0 <=> v \in VbkBase \cup ToSet(q)) /\ Len(s.ids[v]) = Hits(q, VtbsOf(v))
    BY <2>1, CarriedFacts
  <2>3. Supported(s.ids, c) <=> B
    BY <1>3, SupportIsCarried
  <2>4. NeedsMet(ToSet(q), c) <=> v \in VbkBase \cup ToSet(q) /\ EndorsementFits(c) /\ B
    BY <1>3 DEF NeedsMet
  <2>5. HasRoom(q, c) <=> Len(s.ids[v]) < MaxVtbs
    BY <1>3, <2>2 DEF HasRoom
  <2> HIDE DEF B
  <2>6. Acceptable(s, c) <=> /\ s.refs[v] > 0 /\ EndorsementFits(c)
                             /\ Len(s.ids[v]) < MaxVtbs /\ Supported(s.ids, c)
    BY <1>3 DEF Acceptable, VtbAcceptable
  <2> QED
    BY <1>1, <2>2, <2>3, <2>4, <2>5, <2>6
<1> QED
  BY <1>2, <1>3

\* The tree that a valid sequence of commands leaves.
LEMMA CarriedClosed ==
    ASSUME NEW s, Exact(s), NEW q \in Seq(Commands), Carries(s, q, <<>>), AppliesAlone(q)
    PROVE  TreeClosed(s) /\ AllSupported(s.ids)
<1>1. ASSUME NEW c \in ToSet(q)
      PROVE  c \in Commands /\ NeedsMet(ToSet(q), c)
  <2>1. Len(q) \in Nat /\ DOMAIN q = 1 .. Len(q) /\ \A i \in 1 .. Len(q) : q[i] \in Commands
    OBVIOUS
  <2>2. PICK i \in 1 .. Len(q) : q[i] = c
    BY <2>1 DEF ToSet
  <2>3. FollowsOn(SubSeq(q, 1, i - 1), c)
    BY <2>1, <2>2 DEF AppliesAlone
  <2>4. ToSet(SubSeq(q, 1, i - 1)) \subseteq ToSet(q)
    <3>1. i - 1 \in 0 .. Len(q)
      BY <2>1
    <3> QED
      BY <3>1, PrefixFacts
  <2>5. NeedsMet(ToSet(SubSeq(q, 1, i - 1)), c)
    BY <2>3, FollowsParts
  <2> QED
    BY <2>1, <2>2, <2>4, <2>5, NeedsMore
<1>2. ASSUME NEW v \in VbkBlocks
      PROVE  s.refs[v] > 0 <=> v \in VbkBase \cup ToSet(q)
  BY CarriedFacts
<1>3. ASSUME NEW v \in VbkBlocks \ {VbkRoot}, s.refs[v] > 0
      PROVE  s.refs[VbkPrev[v]] > 0
  <2>1. VbkPrev[v] \in VbkBlocks /\ VbkAncestors[v] = VbkAncestors[VbkPrev[v]] \cup {v}
    BY PrevFacts
  <2>2. CASE v \in VbkBase
    <3>1. VbkAncestors[v] \subseteq VbkBase /\ VbkPrev[v] \in VbkAncestors[VbkPrev[v]]
      BY <2>1, <2>2, VbkAssumption, VbkChainFacts
    <3> QED
      BY <2>1, <3>1, <1>2
  <2>3. CASE v \notin VbkBase
    <3>1. v \in ToSet(q)
      BY <1>2, <1>3, <2>3
    <3>2. v \notin Vtbs /\ NeedsMet(ToSet(q), v)
      BY <3>1, <1>1, VtbAssumption
    <3>3. VbkPrev[v] \in VbkBase \cup ToSet(q)
      BY <3>2 DEF NeedsMet
    <3> QED
      BY <2>1, <3>3, <1>2
  <2> QED
    BY <2>2, <2>3
<1>4. ASSUME NEW v \in VbkBlocks, NEW y \in ToSet(s.ids[v])
      PROVE  s.refs[v] > 0 /\ EndorsementFits(y) /\ Supported(s.ids, y)
  <2>1. y \in Vtbs /\ Containing[y] = v
    BY ExactFacts, IdsFacts DEF IdsOk
  <2>2. y \in ToSet(q)
    BY <2>1, CarriedFacts
  <2> DEFINE B == BtcNeed(y) \in {BtcRoot} \cup
                    UNION {ToSet(BtcContext[z]) : z \in {z \in ToSet(q) \cap Vtbs : Containing[z] \in VbkAncestors[Containing[y]]}}
  <2>3. v \in VbkBase \cup ToSet(q) /\ EndorsementFits(y) /\ B
    BY <2>1, <2>2, <1>1 DEF NeedsMet
  <2>4. Supported(s.ids, y) <=> B
    BY <2>1, SupportIsCarried
  <2> HIDE DEF B
  <2> QED
    BY <2>3, <2>4, <1>2
<1> QED
  BY <1>3, <1>4 DEF TreeClosed, AllSupported

\* An accepted command: the verdict is that of the commands alone, and nothing fails.
LEMMA ExecuteSound ==
    ASSUME ContextsLinked, VtbsIndependent, NEW s, Sound(s), NEW q \in Seq(Commands),
           Carries(s, q, <<>>), AppliesAlone(q), NEW c \in Commands
    PROVE  /\ Execute(s, c) # {} <=> FollowsOn(q, c)
           /\ \A r \in Execute(s, c) : Sound(r)
<1>1. Exact(s)
  BY SoundFacts
<1>2. FollowsOn(q, c) <=> Acceptable(s, c)
  BY <1>1, FollowsIsAcceptable
<1>3. CASE c \in Vtbs
  BY <1>2, <1>3, AddVtbSound DEF Execute, Acceptable
<1>4. CASE c \notin Vtbs
  <2>1. c \in VbkBlocks \ {VbkRoot} /\ TreeClosed(s)
    BY <1>1, <1>4, CommandFacts, CarriedClosed
  <2> QED
    BY <1>2, <1>4, <2>1, AddVbkBlockSound DEF Execute, Acceptable
<1> QED
  BY <1>3, <1>4

\* A command can be undone when what remains is valid without it.
LEMMA UnExecuteSound ==
    ASSUME ContextsLinked, VtbsIndependent, NEW s, Sound(s), NEW q \in Seq(Commands), NEW p \in Seq(Commands),
           NEW c \in Commands, c \in ToSet(q), Carries(s, q, <<>>), AppliesAlone(q),
           AppliesAlone(p), Carries(UnExecute(s, c), p, <<>>), Exact(UnExecute(s, c))
    PROVE  Sound(UnExecute(s, c))
<1>1. Exact(s) /\ TreeClosed(s)
  BY SoundFacts, CarriedClosed
<1>2. TreeClosed(UnExecute(s, c)) /\ AllSupported(UnExecute(s, c).ids)
  BY CarriedClosed
<1>3. CASE c \in Vtbs
  <2>1. c \in ToSet(s.ids[Containing[c]])
    BY <1>1, <1>3, CarriedFacts
  <2> QED
    BY <1>2, <1>3, <2>1, RemoveVtbSound DEF UnExecute
<1>4. CASE c \notin Vtbs
  <2>1. c \in VbkBlocks \ {VbkRoot}
    BY <1>4, CommandFacts
  <2>2. s.refs[c] > 0
    BY <1>1, <2>1, CarriedFacts
  <2> QED
    BY <1>1, <1>2, <1>4, <2>1, <2>2, RemoveVbkBlockSound DEF UnExecute
<1> QED
  BY <1>3, <1>4

-----------------------------------------------------------------------------
(* The applied branches are valid, so that no assertion fails.              *)

\* The chain that a failed operation applies again is valid, its VBK tip was in the
\* tree, and what is left of it is a prefix.
Held(o, m) ==
    /\ AppliesAlone(o.was) /\ o.before.tip \in InVbk(o.before)
    /\ Len(m) <= Len(o.was) /\ m = SubSeq(o.was, 1, Len(m))

\* The old chain is there until the candidate has been trimmed to a part that needs
\* only the commands below the fork.
Pending(o, m, r) ==
    /\ Held(o, m)
    /\ o.phase \in {"beside", "trim"} => m = o.was
    /\ o.phase = "beside" => o.fork <= Len(o.was)
    /\ o.phase = "clear" => AppliesAlone(SubSeq(o.was, 1, o.fork) \o r)

ValidInv ==
    /\ VbkInv /\ Sound(vbk) /\ AppliesAlone(main \o rival)
    /\ op.phase # "idle" => Pending(op, main, rival)

\* The state after a step is sound and its commands are valid.
ValidNow == Sound(vbk) /\ AppliesAlone(main \o rival)

LEMMA ValidFacts ==
    ASSUME ValidInv
    PROVE  /\ Sound(vbk) /\ Exact(vbk) /\ main \in Seq(Commands) /\ rival \in Seq(Commands)
           /\ main \o rival \in Seq(Commands) /\ Carries(vbk, main \o rival, <<>>)
           /\ AppliesAlone(main \o rival)
BY JoinedCarries DEF ValidInv, VbkInv

LEMMA OperationFacts ==
    ASSUME NEW o, Saved(o)
    PROVE  /\ \A p : LET n == [o EXCEPT !.phase = p]
                     IN  n.was = o.was /\ n.before = o.before /\ n.fork = o.fork /\ n.phase = p
           /\ \A p : LET n == Chosen(o, p)
                     IN  n.was = o.was /\ n.before = o.before /\ n.fork = o.fork /\ n.phase = p
           /\ \A q : LET n == [o EXCEPT !.rest = q]
                     IN  n.was = o.was /\ n.before = o.before /\ n.fork = o.fork /\ n.phase = o.phase
BY DEF Saved, Operations, Chosen

LEMMA HeldMoved ==
    ASSUME NEW o, NEW n, NEW m, Held(o, m), n.was = o.was, n.before = o.before
    PROVE  Held(n, m)
BY DEF Held

LEMMA PushValid ==
    ASSUME ContextsLinked, VtbsIndependent, ValidInv, NEW c \in Commands, Push(c)
    PROVE  ValidNow'
<1> DEFINE q == main \o rival
<1>1. /\ Sound(vbk) /\ main \in Seq(Commands) /\ rival \in Seq(Commands)
      /\ q \in Seq(Commands) /\ Carries(vbk, q, <<>>) /\ AppliesAlone(q)
  BY ValidFacts
<1>2. vbk' \in Execute(vbk, c) /\ rival' = Append(rival, c) /\ main' = main
  BY DEF Push
<1>3. main \o Append(rival, c) = Append(q, c)
  <2>1. <<c>> \in Seq(Commands)
    OBVIOUS
  <2>2. Append(rival, c) = rival \o <<c>> /\ Append(q, c) = q \o <<c>>
    BY <1>1, AppendIsConcat
  <2>3. main \o (rival \o <<c>>) = (main \o rival) \o <<c>>
    BY <1>1, <2>1, ConcatAssociative
  <2> QED
    BY <2>2, <2>3
<1> HIDE DEF q
<1>4. (Execute(vbk, c) # {} <=> FollowsOn(q, c)) /\ \A r \in Execute(vbk, c) : Sound(r)
  BY <1>1, ExecuteSound
<1>5. AppliesAlone(Append(q, c))
  BY <1>1, <1>2, <1>4, AppliesAppend
<1> QED
  BY <1>2, <1>3, <1>4, <1>5 DEF ValidNow

LEMMA RefuseValid ==
    ASSUME ContextsLinked, VtbsIndependent, ValidInv, NEW c \in Commands, Refuse(c)
    PROVE  ValidNow'
BY ValidFacts, RefusedSound DEF Refuse, ValidNow

\* Undoing a command, for the branches m and r that are left.
LEMMA PopValid ==
    ASSUME ContextsLinked, VtbsIndependent, ValidInv, VbkInv', NEW c \in ToSet(main \o rival),
           vbk' = UnExecute(vbk, c), AppliesAlone(main' \o rival')
    PROVE  ValidNow'
<1>1. /\ Sound(vbk) /\ main \o rival \in Seq(Commands) /\ Carries(vbk, main \o rival, <<>>)
      /\ AppliesAlone(main \o rival)
  BY ValidFacts
<1>2. Exact(vbk') /\ main' \in Seq(Commands) /\ rival' \in Seq(Commands) /\ Carries(vbk', main', rival')
  BY DEF VbkInv
<1>3. main' \o rival' \in Seq(Commands) /\ Carries(vbk', main' \o rival', <<>>)
  BY <1>2, JoinedCarries
<1>4. c \in Commands
  <2>1. \A i \in DOMAIN (main \o rival) : (main \o rival)[i] \in Commands
    BY <1>1
  <2> QED
    BY <2>1 DEF ToSet
<1> DEFINE q == main \o rival
           p == main' \o rival'
           x == UnExecute(vbk, c)
<1>5. Sound(x)
  <2>1. /\ q \in Seq(Commands) /\ Carries(vbk, q, <<>>) /\ AppliesAlone(q) /\ c \in ToSet(q)
        /\ p \in Seq(Commands) /\ AppliesAlone(p) /\ Carries(UnExecute(vbk, c), p, <<>>)
        /\ Exact(UnExecute(vbk, c))
    BY <1>1, <1>2, <1>3
  <2> HIDE DEF q, p
  <2> QED
    BY <1>1, <1>4, <2>1, UnExecuteSound
<1> QED
  BY <1>5 DEF ValidNow

LEMMA LastIn ==
    ASSUME NEW X, NEW m \in Seq(X), NEW r \in Seq(X)
    PROVE  /\ m # <<>> => Last(m) \in ToSet(m \o r)
           /\ r # <<>> => Last(r) \in ToSet(m \o r)
<1>1. ToSet(m \o r) = ToSet(m) \cup ToSet(r)
  BY ToSetConcat
<1>2. ASSUME NEW q \in Seq(X), q # <<>> PROVE Last(q) \in ToSet(q)
  <2>1. Len(q) \in DOMAIN q
    BY <1>2
  <2> QED
    BY <2>1 DEF Last, ToSet
<1> QED
  BY <1>1, <1>2

LEMMA PopRivalValid ==
    ASSUME ContextsLinked, VtbsIndependent, ValidInv, VbkInv', rival # <<>>, Pop(Last(rival)),
           rival' = Front(rival), main' = main
    PROVE  ValidNow'
<1> DEFINE c == Last(rival)
           f == Front(rival)
<1>1. main \in Seq(Commands) /\ rival \in Seq(Commands) /\ AppliesAlone(main \o rival)
  BY ValidFacts
<1>2. rival = Append(f, c) /\ f \in Seq(Commands) /\ c \in Commands
  BY <1>1, FrontIsPrefix
<1>3. c \in ToSet(main \o rival) /\ vbk' = UnExecute(vbk, c)
  BY <1>1, LastIn DEF Pop
<1> HIDE DEF c, f
<1>4. main \o rival = Append(main \o f, c) /\ main \o f \in Seq(Commands)
  <2>1. <<c>> \in Seq(Commands) /\ main \o f \in Seq(Commands)
    BY <1>1, <1>2, ConcatFacts
  <2>2. rival = f \o <<c>> /\ Append(main \o f, c) = (main \o f) \o <<c>>
    BY <1>2, <2>1, AppendIsConcat
  <2>3. main \o (f \o <<c>>) = (main \o f) \o <<c>>
    BY <1>1, <1>2, <2>1, ConcatAssociative
  <2> QED
    BY <2>1, <2>2, <2>3
<1>5. AppliesAlone(main \o f)
  BY <1>1, <1>2, <1>4, AppliesAppend
<1>6. main' \o rival' = main \o f
  BY DEF f
<1> QED
  BY <1>3, <1>5, <1>6, PopValid

LEMMA ValidKept ==
    ASSUME VbkInv', ValidNow', op'.phase # "idle" => Pending(op, main, rival)'
    PROVE  ValidInv'
BY DEF ValidInv, ValidNow

\* A step that changes neither the trees nor the branches.
LEMMA SamePlace ==
    ASSUME ValidInv, vbk' = vbk, main' = main, rival' = rival
    PROVE  ValidNow'
BY DEF ValidInv, ValidNow

LEMMA WholeIsPrefix ==
    ASSUME NEW q \in Seq(Commands)
    PROVE  q = SubSeq(q, 1, Len(q)) /\ Len(q) <= Len(q) /\ q \o <<>> = q
<1>1. Len(q) \in Nat /\ q \o <<>> = q
  BY ConcatEmptySeq
<1>2. q = SubSeq(q, 1, Len(q))
  BY SubSeqFull
<1> QED
  BY <1>1, <1>2

LEMMA BeginValid ==
    ASSUME ValidInv, VbkInv', NEW phase \in {"clear", "beside"}, NEW n \in 0 .. Len(main), NEW free \in BOOLEAN,
           Begin(phase, n, free)
    PROVE  ValidInv'
<1>1. Sound(vbk) /\ main \in Seq(Commands) /\ rival = <<>> /\ AppliesAlone(main \o rival)
  BY ValidFacts DEF ValidInv, VbkInv, Begin
<1>2. /\ op'.phase = phase /\ op'.was = main /\ op'.before = vbk /\ op'.fork = n
      /\ vbk' = vbk /\ main' = main /\ rival' = rival
  BY DEF Begin
<1>3. AppliesAlone(main) /\ main = SubSeq(main, 1, Len(main)) /\ Len(main) <= Len(main)
  BY <1>1, WholeIsPrefix
<1>4. Held(op', main)
  BY <1>1, <1>2, <1>3 DEF Held, Sound
<1>5. AppliesAlone(SubSeq(main, 1, n) \o <<>>)
  <2>1. SubSeq(main, 1, n) \in Seq(Commands) /\ AppliesAlone(SubSeq(main, 1, n))
    BY <1>1, <1>3, PrefixFacts, AppliesPrefix
  <2> QED
    BY <2>1, WholeIsPrefix
<1>6. Pending(op', main, rival)
  BY <1>1, <1>2, <1>4, <1>5 DEF Pending
<1>7. ValidNow'
  BY <1>2, SamePlace
<1> QED
  BY <1>2, <1>6, <1>7, ValidKept

\* A command of the candidate is accepted or refused; the old chain stays.
LEMMA CommandValid ==
    ASSUME ContextsLinked, VtbsIndependent, ValidInv, VbkInv', op.phase \in {"beside", "apply"},
           NEW c \in Commands,
           Refuse(c) \/ (Push(c) /\ (op' = op \/ \E q : op' = [op EXCEPT !.rest = q]))
    PROVE  ValidInv'
<1>1. Saved(op) /\ Pending(op, main, rival) /\ Held(op, main)
  BY DEF ValidInv, VbkInv, Pending
<1>2. CASE Refuse(c)
  <2>1. op' = [op EXCEPT !.phase = "drop"] /\ main' = main /\ rival' = rival
    BY <1>2 DEF Refuse
  <2>2. op'.phase = "drop" /\ op'.was = op.was /\ op'.before = op.before
    BY <1>1, <2>1, OperationFacts
  <2>3. Pending(op', main, rival)
    BY <1>1, <2>2, HeldMoved DEF Pending
  <2>4. ValidNow'
    BY <1>2, RefuseValid
  <2>5. Pending(op', main', rival')
    BY <2>1, <2>3
  <2> QED
    BY <2>4, <2>5, ValidKept
<1>3. CASE Push(c) /\ (op' = op \/ \E q : op' = [op EXCEPT !.rest = q])
  <2>1. /\ op'.phase = op.phase /\ op'.was = op.was /\ op'.before = op.before /\ main' = main
        /\ op'.fork = op.fork
    <3>1. main' = main
      BY <1>3 DEF Push
    <3>2. CASE op' = op
      BY <3>1, <3>2
    <3>3. CASE \E q : op' = [op EXCEPT !.rest = q]
      BY <1>1, <3>1, <3>3, OperationFacts
    <3> QED
      BY <1>3, <3>2, <3>3
  <2>2. Held(op', main)
    BY <1>1, <2>1, HeldMoved
  <2>3. Pending(op', main, rival')
    BY <1>1, <2>1, <2>2 DEF Pending
  <2>4. ValidNow'
    BY <1>3, PushValid
  <2> QED
    BY <2>1, <2>3, <2>4, ValidKept
<1> QED
  BY <1>2, <1>3

LEMMA DecideValid ==
    ASSUME ValidInv, VbkInv', Decide
    PROVE  ValidInv'
<1>1. Saved(op) /\ Pending(op, main, rival) /\ Held(op, main) /\ main = op.was
  BY DEF ValidInv, VbkInv, Pending, Decide
<1>2. PICK phase \in {"drop", "trim"} : op' = Chosen(op, phase)
  BY DEF Decide, Chosen
<1>3. op'.phase = phase /\ op'.was = op.was /\ op'.before = op.before
  BY <1>1, <1>2, OperationFacts
<1>4. Held(op', main)
  BY <1>1, <1>3, HeldMoved
<1>5. vbk' = vbk /\ main' = main /\ rival' = rival
  BY DEF Decide
<1>6. Pending(op', main', rival')
  BY <1>1, <1>3, <1>4, <1>5 DEF Pending
<1> QED
  BY <1>5, <1>6, SamePlace, ValidKept

LEMMA TrimValid ==
    ASSUME ContextsLinked, VtbsIndependent, ValidInv, VbkInv', Trim
    PROVE  ValidInv'
<1>1. Saved(op) /\ op.phase = "trim" /\ Held(op, main) /\ main = op.was
  BY DEF ValidInv, VbkInv, Pending, Trim
<1>2. CASE /\ rival # <<>> /\ Pop(Last(rival)) /\ rival' = Front(rival)
           /\ op' = [op EXCEPT !.rest = <<Last(rival)>> \o @] /\ main' = main
  <2>1. \E q : op' = [op EXCEPT !.rest = q]
    BY <1>2
  <2>2. op'.phase = op.phase /\ op'.was = op.was /\ op'.before = op.before
    BY <1>1, <2>1, OperationFacts
  <2>3. Held(op', main)
    BY <1>1, <2>2, HeldMoved
  <2>4. Pending(op', main', rival')
    BY <1>1, <1>2, <2>2, <2>3 DEF Pending
  <2>5. ValidNow'
    BY <1>2, PopRivalValid
  <2> QED
    BY <2>4, <2>5, ValidKept
<1>3. CASE /\ AppliesAlone(SubSeq(main, 1, op.fork) \o rival)
           /\ op' = [op EXCEPT !.phase = "clear"] /\ UNCHANGED <<vbk, deferred, main, rival>>
  <2>1. op'.phase = "clear" /\ op'.was = op.was /\ op'.before = op.before /\ op'.fork = op.fork
    BY <1>1, <1>3, OperationFacts
  <2>2. Held(op', main)
    BY <1>1, <2>1, HeldMoved
  <2>3. Pending(op', main', rival')
    BY <1>1, <1>3, <2>1, <2>2 DEF Pending
  <2> QED
    BY <1>3, <2>3, SamePlace, ValidKept
<1> QED
  BY <1>2, <1>3 DEF Trim

\* A part of the old chain that is a prefix stays one without its last command.
LEMMA HeldFront ==
    ASSUME NEW o, Saved(o), NEW m \in Seq(Commands), m # <<>>, Held(o, m)
    PROVE  Held(o, Front(m))
<1> DEFINE n == Len(m)
           f == Front(m)
           w == o.was
<1>1. w \in Seq(Commands) /\ n <= Len(w) /\ m = SubSeq(w, 1, n)
  BY SavedFacts DEF Held
<1>2. n \in Nat \ {0} /\ f \in Seq(Commands) /\ Len(f) = n - 1 /\ f = SubSeq(m, 1, n - 1)
  BY FrontIsPrefix
<1>3. Len(w) \in Nat /\ n - 1 \in 0 .. Len(w) /\ n \in 0 .. Len(w) /\ n - 1 \in 0 .. n
  <2>1. Len(w) \in Nat
    BY <1>1
  <2> QED
    BY <1>1, <1>2, <2>1
<1> HIDE DEF n, w, f
<1>4. /\ \A i \in 1 .. n : m[i] = w[i]
      /\ SubSeq(w, 1, n - 1) \in Seq(Commands) /\ Len(SubSeq(w, 1, n - 1)) = n - 1
      /\ \A i \in 1 .. n - 1 : SubSeq(w, 1, n - 1)[i] = w[i]
  <2>1. \A i \in 1 .. n : SubSeq(w, 1, n)[i] = w[i]
    BY <1>1, <1>3, PrefixFacts
  <2>2. /\ SubSeq(w, 1, n - 1) \in Seq(Commands) /\ Len(SubSeq(w, 1, n - 1)) = n - 1
        /\ \A i \in 1 .. n - 1 : SubSeq(w, 1, n - 1)[i] = w[i]
    BY <1>1, <1>3, PrefixFacts
  <2> QED
    BY <1>1, <2>1, <2>2
<1>5. \A i \in 1 .. n - 1 : f[i] = m[i]
  <2>1. Len(m) = n
    BY DEF n
  <2>2. \A i \in 1 .. n - 1 : SubSeq(m, 1, n - 1)[i] = m[i]
    BY <1>3, <2>1, PrefixFacts
  <2> QED
    BY <1>2, <2>2
<1>6. f = SubSeq(w, 1, n - 1)
  <2>1. \A i \in 1 .. n - 1 : f[i] = SubSeq(w, 1, n - 1)[i]
    BY <1>2, <1>4, <1>5
  <2> QED
    BY <1>2, <1>4, <2>1, SeqEqual
<1>7. Len(f) <= Len(w) /\ f = SubSeq(w, 1, Len(f))
  BY <1>2, <1>3, <1>6
<1> QED
  BY <1>7 DEF Held, f, w

\* and ends where the old chain's own prefix ends.
LEMMA HeldPrefix ==
    ASSUME NEW o, Saved(o), NEW m \in Seq(Commands), Held(o, m), NEW k \in 0 .. Len(m)
    PROVE  SubSeq(o.was, 1, k) = SubSeq(m, 1, k)
<1> DEFINE n == Len(m)
           w == o.was
<1>1. w \in Seq(Commands) /\ n <= Len(w) /\ m = SubSeq(w, 1, n)
  BY SavedFacts DEF Held
<1>2. n \in Nat /\ Len(w) \in Nat /\ k \in 0 .. Len(w) /\ n \in 0 .. Len(w) /\ k \in Nat
  <2>1. n \in Nat /\ Len(w) \in Nat
    BY <1>1
  <2> QED
    BY <1>1, <2>1
<1>3. \A i \in 1 .. n : m[i] = w[i]
  <2>1. \A i \in 1 .. n : SubSeq(w, 1, n)[i] = w[i]
    BY <1>1, <1>2, PrefixFacts
  <2> QED
    BY <1>1, <2>1
<1> HIDE DEF w
<1>4. /\ SubSeq(w, 1, k) \in Seq(Commands) /\ Len(SubSeq(w, 1, k)) = k
      /\ \A i \in 1 .. k : SubSeq(w, 1, k)[i] = w[i]
  BY <1>1, <1>2, PrefixFacts
<1>5. /\ SubSeq(m, 1, k) \in Seq(Commands) /\ Len(SubSeq(m, 1, k)) = k
      /\ \A i \in 1 .. k : SubSeq(m, 1, k)[i] = m[i]
  BY PrefixFacts
<1>6. \A i \in 1 .. k : SubSeq(w, 1, k)[i] = SubSeq(m, 1, k)[i]
  BY <1>2, <1>3, <1>4, <1>5
<1>7. SubSeq(w, 1, k) = SubSeq(m, 1, k)
  BY <1>4, <1>5, <1>6, SeqEqual
<1> QED
  BY <1>7 DEF w

LEMMA ClearValid ==
    ASSUME ContextsLinked, VtbsIndependent, ValidInv, VbkInv', Clear
    PROVE  ValidInv'
<1>1. /\ Saved(op) /\ op.phase = "clear" /\ Held(op, main) /\ main \in Seq(Commands) /\ rival \in Seq(Commands)
      /\ AppliesAlone(SubSeq(op.was, 1, op.fork) \o rival) /\ AppliesAlone(main \o rival)
  BY DEF ValidInv, VbkInv, Pending, Clear
<1>2. op.fork \in Nat /\ Len(main) \in Nat
  BY <1>1, SavedFacts
<1>3. CASE Len(main) > op.fork /\ Pop(Last(main)) /\ main' = Front(main) /\ UNCHANGED <<rival, op>>
  <2>1. main # <<>> /\ op.fork \in 0 .. Len(main) - 1 /\ op.fork \in 0 .. Len(main)
    BY <1>1, <1>2, <1>3
  <2>2. SubSeq(op.was, 1, op.fork) = SubSeq(main, 1, op.fork)
    BY <1>1, <2>1, HeldPrefix
  <2>3. AppliesAlone(Front(main) \o rival)
    BY <1>1, <2>1, <2>2, AppliesMiddle
  <2>4. Last(main) \in ToSet(main \o rival) /\ vbk' = UnExecute(vbk, Last(main))
    BY <1>1, <1>3, <2>1, LastIn DEF Pop
  <2>5. ValidNow'
    BY <1>3, <2>3, <2>4, PopValid
  <2>6. Held(op, Front(main))
    BY <1>1, <2>1, HeldFront
  <2>7. Pending(op', main', rival')
    BY <1>1, <1>3, <2>6 DEF Pending
  <2> QED
    BY <2>5, <2>7, ValidKept
<1>4. CASE op' = [op EXCEPT !.phase = "apply"] /\ UNCHANGED <<vbk, deferred, main, rival>>
  <2>1. op'.phase = "apply" /\ op'.was = op.was /\ op'.before = op.before
    BY <1>1, <1>4, OperationFacts
  <2>2. Held(op', main)
    BY <1>1, <2>1, HeldMoved
  <2>3. Pending(op', main', rival')
    BY <1>4, <2>1, <2>2 DEF Pending
  <2> QED
    BY <1>4, <2>3, SamePlace, ValidKept
<1> QED
  BY <1>3, <1>4 DEF Clear

LEMMA ApplyValid ==
    ASSUME ContextsLinked, VtbsIndependent, ValidInv, VbkInv', Apply
    PROVE  ValidInv'
<1>1. op.phase = "apply" /\ op.rest \in Seq(Commands)
  BY SavedFacts DEF Apply, ValidInv, VbkInv
<1>2. CASE \E c \in Commands : Refuse(c) \/ (Push(c) /\ UNCHANGED op)
  BY <1>1, <1>2, CommandValid
<1>3. CASE /\ op.rest # <<>>
           /\ \/ Refuse(Head(op.rest))
              \/ Push(Head(op.rest)) /\ op' = [op EXCEPT !.rest = Tail(@)]
  <2>1. Head(op.rest) \in Commands
    BY <1>1, <1>3
  <2>2. op' = [op EXCEPT !.rest = Tail(@)] => \E q : op' = [op EXCEPT !.rest = q]
    OBVIOUS
  <2> QED
    BY <1>1, <1>3, <2>1, <2>2, CommandValid
<1> QED
  BY <1>2, <1>3 DEF Apply

LEMMA FinishValid ==
    ASSUME ContextsLinked, VtbsIndependent, ValidInv, VbkInv', Finish
    PROVE  ValidInv'
<1>1. Sound(vbk) /\ main \o rival \in Seq(Commands) /\ AppliesAlone(main \o rival)
  BY ValidFacts
<1>2. /\ vbk' \in Resolve(vbk, VbkTips(vbk)) \/ vbk' = vbk
      /\ main' = main \o rival /\ rival' = <<>> /\ op'.phase = "idle"
  BY DEF Finish
<1>3. Sound(vbk')
  BY <1>1, <1>2, ResolveSound, CandidatesAreIn
<1>4. (main \o rival) \o <<>> = main \o rival
  BY <1>1, WholeIsPrefix
<1>5. ValidNow'
  BY <1>1, <1>2, <1>3, <1>4 DEF ValidNow
<1> QED
  BY <1>2, <1>5, ValidKept

LEMMA DropValid ==
    ASSUME ContextsLinked, VtbsIndependent, ValidInv, VbkInv', Drop
    PROVE  ValidInv'
<1>1. Saved(op) /\ op.phase = "drop" /\ Held(op, main) /\ Pending(op, main, rival)
  BY DEF ValidInv, VbkInv, Pending, Drop
<1>2. CASE rival # <<>> /\ Pop(Last(rival)) /\ rival' = Front(rival) /\ UNCHANGED <<main, op>>
  <2>1. ValidNow'
    BY <1>2, PopRivalValid
  <2>2. Pending(op', main', rival')
    BY <1>1, <1>2 DEF Pending
  <2> QED
    BY <2>1, <2>2, ValidKept
<1>3. CASE op' = [op EXCEPT !.phase = "redo"] /\ UNCHANGED <<vbk, deferred, main, rival>>
  <2>1. op'.phase = "redo" /\ op'.was = op.was /\ op'.before = op.before
    BY <1>1, <1>3, OperationFacts
  <2>2. Held(op', main)
    BY <1>1, <2>1, HeldMoved
  <2>3. Pending(op', main', rival')
    BY <1>3, <2>1, <2>2 DEF Pending
  <2> QED
    BY <1>3, <2>3, SamePlace, ValidKept
<1> QED
  BY <1>2, <1>3 DEF Drop

\* The next command of the old chain follows on what is left of it.
LEMMA NextOfOld ==
    ASSUME ContextsLinked, VtbsIndependent, ValidInv, op.phase = "redo", Len(main) < Len(op.was)
    PROVE  LET c == op.was[Len(main) + 1]
           IN  /\ c \in Commands /\ Execute(vbk, c) # {} /\ \A x \in Execute(vbk, c) : Sound(x)
               /\ AppliesAlone(Append(main, c)) /\ Append(main, c) \in Seq(Commands) /\ rival = <<>>
               /\ Held(op, Append(main, c))
<1> DEFINE n == Len(main)
           w == op.was
           c == w[n + 1]
           a == Append(main, c)
           b == SubSeq(w, 1, n + 1)
<1>1. /\ Saved(op) /\ Held(op, main) /\ Sound(vbk) /\ rival = <<>> /\ main \in Seq(Commands)
      /\ AppliesAlone(main \o rival) /\ Carries(vbk, main, <<>>)
  BY DEF ValidInv, VbkInv, Pending
<1>2. AppliesAlone(main)
  BY <1>1, WholeIsPrefix
<1>3. w \in Seq(Commands) /\ AppliesAlone(w) /\ main = SubSeq(w, 1, n)
  BY <1>1, SavedFacts DEF Held
<1>4. n \in Nat /\ Len(w) \in Nat /\ n < Len(w)
  BY <1>1, <1>3
<1>5. n + 1 \in 1 .. Len(w) /\ n + 1 \in 0 .. Len(w) /\ n \in 0 .. Len(w) /\ DOMAIN w = 1 .. Len(w)
  BY <1>3, <1>4
<1>6. c \in Commands
  BY <1>3, <1>5
<1>7. a \in Seq(Commands) /\ Len(a) = n + 1 /\ a[n + 1] = c /\ \A i \in 1 .. n : a[i] = main[i]
  BY <1>1, <1>6
<1>8. b \in Seq(Commands) /\ Len(b) = n + 1 /\ \A i \in 1 .. n + 1 : b[i] = w[i]
  BY <1>3, <1>5, PrefixFacts
<1>9. \A i \in 1 .. n : main[i] = w[i]
  <2>1. \A i \in 1 .. n : SubSeq(w, 1, n)[i] = w[i]
    BY <1>3, <1>5, PrefixFacts
  <2> QED
    BY <1>3, <2>1
<1>10. a = b
  <2>1. ASSUME NEW i \in 1 .. n + 1 PROVE a[i] = b[i]
    <3>1. CASE i = n + 1
      BY <1>7, <1>8, <3>1
    <3>2. CASE i \in 1 .. n
      BY <1>7, <1>8, <1>9, <3>2
    <3> QED
      BY <1>4, <3>1, <3>2
  <2> HIDE DEF a, b
  <2> QED
    BY <1>7, <1>8, <2>1, SeqEqual
<1>11. AppliesAlone(b)
  BY <1>3, <1>5, AppliesPrefix
<1> HIDE DEF c, b
<1>12. FollowsOn(main, c)
  BY <1>1, <1>6, <1>10, <1>11, AppliesAppend
<1>13. Execute(vbk, c) # {} /\ \A x \in Execute(vbk, c) : Sound(x)
  BY <1>1, <1>2, <1>6, <1>12, ExecuteSound
<1>14. Held(op, a)
  <2>1. Len(a) <= Len(w) /\ a = SubSeq(w, 1, Len(a))
    <3>1. a = SubSeq(w, 1, n + 1)
      BY <1>10 DEF b
    <3> HIDE DEF a
    <3> QED
      BY <1>4, <1>7, <3>1
  <2> QED
    BY <1>1, <2>1 DEF Held
<1> QED
  BY <1>1, <1>6, <1>7, <1>10, <1>11, <1>13, <1>14 DEF c

LEMMA RedoValid ==
    ASSUME ContextsLinked, VtbsIndependent, ValidInv, VbkInv', Redo
    PROVE  ValidInv'
<1> DEFINE c == op.was[Len(main) + 1]
<1>1. /\ op.phase = "redo" /\ Len(main) < Len(op.was) /\ vbk' \in Execute(vbk, c)
      /\ main' = Append(main, c) /\ rival' = rival /\ op' = op
  BY DEF Redo
<1>2. /\ \A x \in Execute(vbk, c) : Sound(x)
      /\ AppliesAlone(Append(main, c)) /\ Append(main, c) \in Seq(Commands) /\ rival = <<>>
      /\ Held(op, Append(main, c))
  BY <1>1, NextOfOld
<1> HIDE DEF c
<1>3. Append(main, c) \o <<>> = Append(main, c)
  BY <1>2, WholeIsPrefix
<1>4. ValidNow'
  BY <1>1, <1>2, <1>3 DEF ValidNow
<1>5. Pending(op', main', rival')
  BY <1>1, <1>2 DEF Pending
<1> QED
  BY <1>4, <1>5, ValidKept

\* The VBK tip seen before a failed operation is in the tree again.
LEMMA OverrideValid ==
    ASSUME ContextsLinked, VtbsIndependent, ValidInv, VbkInv', Override
    PROVE  ValidInv'
<1> DEFINE t == op.before.tip
           x == SetVbkState(vbk, t)
<1>1. /\ Saved(op) /\ Held(op, main) /\ Sound(vbk) /\ main = op.was /\ rival = <<>> /\ Carries(vbk, main, <<>>)
      /\ AppliesAlone(main \o rival)
  BY DEF ValidInv, VbkInv, Pending, Override
<1>2. /\ t \in InVbk(op.before) /\ Carries(op.before, op.was, <<>>)
  BY <1>1 DEF Held, Saved
<1>3. t \in InVbk(vbk)
  <2>1. t \in VbkBlocks /\ op.before.refs[t] > 0
    BY <1>2 DEF InVbk
  <2>2. op.before.refs[t] = vbk.refs[t]
    <3>1. Carries(vbk, op.was, <<>>)
      BY <1>1
    <3> HIDE DEF t
    <3>2. op.before.refs[t] = IF t \in VbkBase THEN 1 ELSE Hits(op.was, {t}) + Hits(<<>>, {t})
      BY <1>2, <2>1 DEF Carries
    <3>3. vbk.refs[t] = IF t \in VbkBase THEN 1 ELSE Hits(op.was, {t}) + Hits(<<>>, {t})
      BY <2>1, <3>1 DEF Carries
    <3> QED
      BY <3>2, <3>3
  <2> QED
    BY <2>1, <2>2 DEF InVbk
<1>4. Sound(x)
  BY <1>1, <1>3, SetVbkStateSound
<1>5. /\ vbk' = [x EXCEPT !.ok = x.ok /\ t \in InVbk(vbk)]
      /\ main' = main /\ rival' = rival /\ op'.phase = "idle"
  BY DEF Override
<1> HIDE DEF x, t
<1>6. vbk' = x
  <2>1. x \in VbkStates /\ x.ok
    BY <1>4, SoundFacts
  <2>2. x.ok \in BOOLEAN /\ x = [refs |-> x.refs, ids |-> x.ids, tip |-> x.tip, btc |-> x.btc, ok |-> x.ok]
    BY <2>1, StateFacts
  <2>3. (x.ok /\ t \in InVbk(vbk)) = TRUE /\ x.ok = TRUE
    BY <1>3, <2>1, <2>2
  <2>4. vbk' = [x EXCEPT !.ok = TRUE]
    BY <1>5, <2>3
  <2> QED
    BY <2>2, <2>3, <2>4
<1>7. ValidNow'
  BY <1>1, <1>4, <1>5, <1>6 DEF ValidNow
<1> QED
  BY <1>5, <1>7, ValidKept

LEMMA InitValid ==
    ASSUME ContextsLinked, VtbsIndependent, VbkInit
    PROVE  ValidInv
<1>1. PICK t \in VbkBase : vbk = SetVbkState(Bootstrap, t)
  BY InitFacts
<1>2. main = <<>> /\ rival = <<>> /\ op.phase = "idle"
  BY InitFacts
<1>3. /\ Exact(Bootstrap) /\ Bootstrap.ok /\ Bootstrap.tip = VbkRoot
      /\ \A v \in VbkBlocks : /\ Bootstrap.refs[v] = (IF v \in VbkBase THEN 1 ELSE 0)
                              /\ Bootstrap.ids[v] = <<>>
  BY BootstrapFacts
<1>4. AllSupported(Bootstrap.ids)
  BY <1>3 DEF AllSupported, ToSet
<1>5. VbkRoot \in VbkBase /\ VbkBase \subseteq VbkBlocks
  BY VbkAssumption
<1>6. Bootstrap.tip \in InVbk(Bootstrap) /\ t \in InVbk(Bootstrap)
  BY <1>3, <1>5 DEF InVbk
<1>7. \A v \in VbkBlocks : Bootstrap.refs[v] >= 0
  BY <1>3
<1>8. Sound(Bootstrap)
  BY <1>3, <1>4, <1>6, <1>7 DEF Sound
<1>9. Sound(vbk)
  BY <1>1, <1>6, <1>8, SetVbkStateSound
<1>10. AppliesAlone(main \o rival)
  <2>1. main \o rival = <<>>
    BY <1>2
  <2>2. DOMAIN <<>> = {}
    OBVIOUS
  <2> QED
    BY <2>1, <2>2 DEF AppliesAlone
<1> QED
  BY <1>2, <1>9, <1>10, InitKeeps DEF ValidInv

LEMMA VbkNextValid ==
    ASSUME ContextsLinked, VtbsIndependent, ValidInv, [VbkNext]_vbkVars
    PROVE  ValidInv'
<1>0. VbkInv'
  BY VbkNextKeeps DEF ValidInv
<1>1. CASE UNCHANGED vbkVars
  <2>1. vbk' = vbk /\ main' = main /\ rival' = rival /\ op' = op
    BY <1>1 DEF vbkVars
  <2> QED
    BY <1>0, <2>1 DEF ValidInv
<1>2. CASE VbkNext
  <2>0. main \in Seq(Commands) /\ Len(main) \in Nat
    BY ValidFacts
  <2>1. CASE BeginSetState
    <3>1. PICK n \in 0 .. Len(main) : Begin("clear", n, TRUE)
      BY <2>1 DEF BeginSetState
    <3>2. "clear" \in {"clear", "beside"} /\ TRUE \in BOOLEAN
      OBVIOUS
    <3> QED
      BY <1>0, <3>1, <3>2, BeginValid
  <2>2. CASE BeginCompare
    <3>1. PICK n \in 0 .. Len(main) - 1 : Begin("beside", n, TRUE)
      BY <2>2 DEF BeginCompare
    <3>2. n \in 0 .. Len(main) /\ "beside" \in {"clear", "beside"} /\ TRUE \in BOOLEAN
      BY <2>0
    <3> QED
      BY <1>0, <3>1, <3>2, BeginValid
  <2>3. CASE Beside
    <3>1. PICK c \in Commands : Refuse(c) \/ (Push(c) /\ op' = op)
      BY <2>3 DEF Beside
    <3>2. op.phase \in {"beside", "apply"}
      BY <2>3 DEF Beside
    <3> QED
      BY <1>0, <3>1, <3>2, CommandValid
  <2>4. CASE Decide
    BY <1>0, <2>4, DecideValid
  <2>5. CASE Trim
    BY <1>0, <2>5, TrimValid
  <2>6. CASE Clear
    BY <1>0, <2>6, ClearValid
  <2>7. CASE Apply
    BY <1>0, <2>7, ApplyValid
  <2>8. CASE Finish
    BY <1>0, <2>8, FinishValid
  <2>9. CASE Drop
    BY <1>0, <2>9, DropValid
  <2>10. CASE Redo
    BY <1>0, <2>10, RedoValid
  <2>11. CASE Override
    BY <1>0, <2>11, OverrideValid
  <2> QED
    BY <1>2, <2>1, <2>2, <2>3, <2>4, <2>5, <2>6, <2>7, <2>8, <2>9, <2>10, <2>11 DEF VbkNext
<1> QED
  BY <1>1, <1>2

\* When the BTC blocks of a VTB are a chain and no VTB needs another VTB of its own
\* VBK block, the commands of the applied branches are valid in their order whatever
\* was applied and undone before them, and no assertion has failed.
THEOREM BranchesStayValid ==
    ASSUME ContextsLinked, VtbsIndependent
    PROVE  VbkSpec => []ValidInv
<1>1. VbkInit => ValidInv
  BY InitValid
<1>2. ValidInv /\ [VbkNext]_vbkVars => ValidInv'
  BY VbkNextValid
<1> QED
  BY <1>1, <1>2, PTL DEF VbkSpec

\* AssertionsHold, under the same two conditions on the VTBs: assertBlockCanBeRemoved,
\* removePayloadId and removeRef never fail, overrideDeferredForkResolution finds its
\* tip, and the former best chain can always be applied again.
THEOREM NoAssertionFails ==
    ASSUME ContextsLinked, VtbsIndependent
    PROVE  VbkSpec => []AssertionsHold
<1>1. ValidInv => AssertionsHold
  <2> SUFFICES ASSUME ValidInv PROVE AssertionsHold
    OBVIOUS
  <2>1. vbk.ok
    BY ValidFacts, SoundFacts
  <2>2. op.phase = "redo" /\ Len(main) < Len(op.was) => Execute(vbk, op.was[Len(main) + 1]) # {}
    BY NextOfOld
  <2> QED
    BY <2>1, <2>2 DEF AssertionsHold
<1> QED
  BY <1>1, BranchesStayValid, PTL

\* ChainsApply, under the same two conditions: every VBK chain in the tree applies
\* from the root, so BLOCK_FAILED_POP is never needed (VbkBlockTree::setState).
THEOREM EveryVbkChainApplies ==
    ASSUME ContextsLinked, VtbsIndependent
    PROVE  VbkSpec => []ChainsApply
<1>1. ASSUME ValidInv PROVE ChainsApply
  <2> DEFINE fresh == [vbk EXCEPT !.tip = VbkRoot,
                                  !.btc = [c \in BtcBlocks |-> [h \in Heights |->
                                             IF c = BtcRoot /\ h = VbkHeight[VbkRoot] THEN 1 ELSE 0]]]
  <2>1. /\ vbk \in VbkStates /\ IdsOk(vbk.ids) /\ vbk.ok /\ AllSupported(vbk.ids)
    BY <1>1, ValidFacts, SoundFacts
  <2>2. BootstrapBtc \in [BtcBlocks -> [Heights -> Int]] /\ VbkRoot \in VbkBlocks
    BY VbkChainFacts DEF BootstrapBtc, Bootstrapped
  <2>3. fresh = [vbk EXCEPT !.tip = VbkRoot, !.btc = BootstrapBtc]
    BY DEF BootstrapBtc, Bootstrapped
  <2> HIDE DEF fresh
  <2>4. fresh = [refs |-> vbk.refs, ids |-> vbk.ids, tip |-> VbkRoot, btc |-> BootstrapBtc, ok |-> vbk.ok]
    <3>1. vbk = [refs |-> vbk.refs, ids |-> vbk.ids, tip |-> vbk.tip, btc |-> vbk.btc, ok |-> vbk.ok]
      BY <2>1, StateFacts
    <3> QED
      BY <2>3, <3>1
  <2>5. /\ fresh \in VbkStates /\ fresh.ids = vbk.ids /\ fresh.tip = VbkRoot /\ fresh.btc = BootstrapBtc
        /\ fresh.ok
    BY <2>1, <2>2, <2>4 DEF VbkStates
  <2>6. Exact(fresh) /\ AllSupported(fresh.ids)
    BY <2>1, <2>5, RootIsExact
  <2>7. \A v \in VbkBlocks : SetVbkState(fresh, v).ok
    BY <2>5, <2>6, SetVbkStateOk
  <2> QED
    BY <2>7 DEF ChainsApply, InVbk, fresh
<1> QED
  BY <1>1, BranchesStayValid, PTL

\* VerdictExact, under the same two conditions: AddVTB and AddVbkBlock accept a
\* command exactly when it is valid after the applied ones of both branches, whatever
\* VBK chain happens to be active.
THEOREM VerdictsAgree ==
    ASSUME ContextsLinked, VtbsIndependent
    PROVE  VbkSpec => []VerdictExact
<1>1. ASSUME ValidInv PROVE VerdictExact
  <2> DEFINE q == main \o rival
  <2>1. Sound(vbk) /\ q \in Seq(Commands) /\ Carries(vbk, q, <<>>) /\ AppliesAlone(q)
    BY <1>1, ValidFacts
  <2> HIDE DEF q
  <2>2. ASSUME NEW c \in Commands PROVE (Execute(vbk, c) # {}) <=> FollowsOn(q, c)
    BY <2>1, ExecuteSound
  <2> QED
    BY <2>1, <2>2 DEF VerdictExact, q
<1> QED
  BY <1>1, BranchesStayValid, PTL

\* RefusedBesideAtLimit, under the same two conditions: the commands of the active
\* chain above the fork can only help a candidate that is applied beside it, except
\* that their VTBs count to the limit of a VBK block.
THEOREM OnlyTheLimitRefuses ==
    ASSUME ContextsLinked, VtbsIndependent
    PROVE  VbkSpec => []RefusedBesideAtLimit
<1>1. ASSUME ValidInv PROVE RefusedBesideAtLimit
  <2> DEFINE below == SubSeq(main, 1, op.fork)
             p == below \o rival
             q == main \o rival
  <2> SUFFICES ASSUME NEW c \in Commands, op.phase = "beside", FollowsOn(p, c),
                      Execute(vbk, c) = {}
               PROVE  c \in Vtbs /\ Len(vbk.ids[Containing[c]]) >= MaxVtbs
    BY DEF RefusedBesideAtLimit
  <2>1. /\ Sound(vbk) /\ Exact(vbk) /\ main \in Seq(Commands) /\ rival \in Seq(Commands)
        /\ q \in Seq(Commands) /\ Carries(vbk, q, <<>>) /\ AppliesAlone(q)
    BY <1>1, ValidFacts
  <2>2. op.fork \in 0 .. Len(main)
    <3>1. Saved(op) /\ Pending(op, main, rival)
      BY <1>1 DEF ValidInv, VbkInv
    <3>2. op.was = main /\ op.fork <= Len(op.was)
      BY <3>1 DEF Pending
    <3>3. op.fork \in Nat /\ Len(main) \in Nat
      BY <2>1, <3>1, SavedFacts
    <3> QED
      BY <3>2, <3>3
  <2>3. below \in Seq(Commands) /\ ToSet(below) \subseteq ToSet(main)
    BY <2>1, <2>2, PrefixFacts
  <2> HIDE DEF below
  <2>4. p \in Seq(Commands) /\ ToSet(p) \subseteq ToSet(q)
    <3>1. p \in Seq(Commands)
      BY <2>1, <2>3, ConcatFacts
    <3>2. ToSet(p) = ToSet(below) \cup ToSet(rival)
      BY <2>1, <2>3, ToSetConcat
    <3>3. ToSet(q) = ToSet(main) \cup ToSet(rival)
      BY <2>1, ToSetConcat
    <3> QED
      BY <2>3, <3>1, <3>2, <3>3
  <2> HIDE DEF p, q
  <2>5. NeedsMet(ToSet(q), c)
    <3>1. NeedsMet(ToSet(p), c)
      BY FollowsParts
    <3> QED
      BY <2>4, <3>1, NeedsMore
  <2>6. ~FollowsOn(q, c)
    BY <2>1, ExecuteSound
  <2>7. ~HasRoom(q, c)
    BY <2>5, <2>6, FollowsParts
  <2>8. c \in Vtbs /\ ~(Hits(q, VtbsOf(Containing[c])) < MaxVtbs)
    BY <2>7 DEF HasRoom
  <2>9. Containing[c] \in VbkBlocks /\ MaxVtbs \in Nat
    BY <2>8, VtbFacts, VtbAssumption
  <2>10. Len(vbk.ids[Containing[c]]) = Hits(q, VtbsOf(Containing[c]))
    BY <2>1, <2>9, CarriedFacts
  <2>11. Hits(q, VtbsOf(Containing[c])) \in Nat
    BY <2>1, HitsType
  <2> QED
    BY <2>8, <2>9, <2>10, <2>11
<1> QED
  BY <1>1, BranchesStayValid, PTL

\* FailedSwitchRestores, under the same two conditions and with nothing assumed of
\* the assertions.
THEOREM FailedSwitchAlwaysUndone ==
    ASSUME ContextsLinked, VtbsIndependent
    PROVE  VbkSpec => FailedSwitchRestores
BY NoAssertionFails, FailedSwitchIsUndone, PTL

=============================================================================
