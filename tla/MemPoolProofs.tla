---------------------------- MODULE MemPoolProofs ----------------------------
(***************************************************************************)
(* What the mempool promises, for every set of payloads and their sizes and *)
(* every sequence of submissions, blocks and reorganisations: the PopData   *)
(* it generates applies and leaves out no ATV that fits, and no payload is  *)
(* lost.                                                                    *)
(***************************************************************************)
EXTENDS MemPool, FiniteSetTheorems, WellFoundedInduction, TLAPS

-----------------------------------------------------------------------------
(* Loops over the positions of a sequence.                                  *)

\* The good positions start at 0 and each is followed by another.
LEMMA UpTo ==
    ASSUME NEW n \in Nat, NEW G, 0 \in G, \A i \in 1 .. n : i - 1 \in G => i \in G
    PROVE  \A i \in 0 .. n : i \in G
<1> DEFINE bad == {i \in 0 .. n : i \notin G}
<1> SUFFICES ASSUME bad # {} PROVE FALSE
  OBVIOUS
<1>1. bad \in SUBSET Nat
  OBVIOUS
<1>2. PICK k \in bad : \A m \in bad : ~(<<m, k>> \in OpToRel(<, Nat))
  BY <1>1, NatLessThanWellFounded, WFMin
<1>3. \A m \in bad : ~(m < k)
  BY <1>1, <1>2 DEF OpToRel
<1>4. k \in 0 .. n /\ k \notin G
  OBVIOUS
<1>5. k \in 1 .. n /\ k - 1 \in 0 .. n /\ k - 1 < k
  BY <1>4
<1>6. k - 1 \in G
  BY <1>3, <1>5
<1> QED
  BY <1>4, <1>5, <1>6

AreSteps(S, n, step) == step \in [1 .. n -> [S -> S]]

IsRun(f, S, n, x, step) ==
    /\ f \in [0 .. n -> S]
    /\ f[0] = x
    /\ \A i \in 1 .. n : f[i] = step[i][f[i - 1]]

Follows(u, f, n) == u[0] = f[0] /\ \A i \in 1 .. n : u[i - 1] = f[i - 1] => u[i] = f[i]

\* Steps that stay within S can be made one after the other, ...
LEMMA Steps ==
    ASSUME NEW S, NEW n \in Nat, NEW x \in S, NEW step, AreSteps(S, n, step)
    PROVE  \E f : IsRun(f, S, n, x, step)
<1> USE DEF AreSteps
<1> DEFINE Fits(f, k) == f[0] = x /\ \A i \in 1 .. k : f[i] = step[i][f[i - 1]]
           G == {k \in 0 .. n : \E f \in [0 .. k -> S] : Fits(f, k)}
<1>1. 0 \in G
  <2> DEFINE f == [i \in 0 .. 0 |-> x]
  <2>1. f \in [0 .. 0 -> S] /\ Fits(f, 0)
    OBVIOUS
  <2> HIDE DEF f, Fits
  <2> QED
    BY <2>1
<1>2. ASSUME NEW k \in 1 .. n, k - 1 \in G PROVE k \in G
  <2>1. PICK f \in [0 .. k - 1 -> S] : Fits(f, k - 1)
    BY <1>2
  <2> DEFINE g == [i \in 0 .. k |-> IF i = k THEN step[k][f[k - 1]] ELSE f[i]]
  <2>2. k \in Nat /\ k - 1 \in 0 .. k - 1 /\ k - 1 \in Nat
    OBVIOUS
  <2>3. step[k][f[k - 1]] \in S
    BY <2>1, <2>2
  <2>4. g \in [0 .. k -> S]
    BY <2>2, <2>3
  <2>5. g[0] = x
    BY <2>1, <2>2
  <2>6. ASSUME NEW i \in 1 .. k PROVE g[i] = step[i][g[i - 1]]
    <3>1. i - 1 \in 0 .. k /\ i - 1 # k /\ g[i - 1] = f[i - 1] /\ i \in 0 .. k
      BY <2>2
    <3>2. CASE i = k
      BY <3>1, <3>2
    <3>3. CASE i # k
      <4>1. i \in 1 .. k - 1
        BY <3>3, <2>2
      <4> QED
        BY <4>1, <3>1, <3>3, <2>1
    <3> QED
      BY <3>2, <3>3
  <2> HIDE DEF g
  <2>7. Fits(g, k)
    BY <2>5, <2>6
  <2> HIDE DEF Fits
  <2> QED
    BY <2>4, <2>7
<1>3. n \in G
  <2> HIDE DEF G
  <2>1. \A i \in 0 .. n : i \in G
    BY <1>1, <1>2, UpTo
  <2> QED
    BY <2>1
<1>4. PICK f \in [0 .. n -> S] : Fits(f, n)
  BY <1>3
<1> QED
  BY <1>4 DEF IsRun

\* ... in one way.
LEMMA StepsSame ==
    ASSUME NEW n \in Nat, NEW f, NEW u, Follows(u, f, n)
    PROVE  u[n] = f[n]
<1> DEFINE E == {i \in 0 .. n : u[i] = f[i]}
<1>1. 0 \in E /\ \A i \in 1 .. n : i - 1 \in E => i \in E
  BY DEF Follows
<1>2. \A i \in 0 .. n : i \in E
  <2> HIDE DEF E
  <2> QED
    BY <1>1, UpTo
<1> QED
  BY <1>2

-----------------------------------------------------------------------------
(* Bodies.                                                                  *)

AllPayloads == VbkBlocks \cup Vtbs \cup Atvs

LEMMA KindFacts ==
    /\ "context" \in Kinds /\ "vtbs" \in Kinds /\ "atvs" \in Kinds
    /\ \A k \in Kinds : k = "context" \/ k = "vtbs" \/ k = "atvs"
    /\ Payloads["context"] = VbkBlocks /\ Payloads["vtbs"] = Vtbs /\ Payloads["atvs"] = Atvs
    /\ Limit["context"] = MaxVbkBlocksInAltBlock /\ Limit["vtbs"] = MaxVTBsInAltBlock
    /\ Limit["atvs"] = MaxATVsInAltBlock
    /\ \A k \in Kinds : Limit[k] \in Nat /\ Payloads[k] \subseteq AllPayloads
    /\ Before["context"] = {} /\ Before["vtbs"] = {"context"} /\ Before["atvs"] = {"context", "vtbs"}
<1>1. /\ "context" \in Kinds /\ "vtbs" \in Kinds /\ "atvs" \in Kinds
      /\ \A k \in Kinds : k = "context" \/ k = "vtbs" \/ k = "atvs"
  BY DEF Kinds
<1>2. Payloads["context"] = VbkBlocks /\ Payloads["vtbs"] = Vtbs /\ Payloads["atvs"] = Atvs
  BY DEF Payloads
<1>3. /\ Limit["context"] = MaxVbkBlocksInAltBlock /\ Limit["vtbs"] = MaxVTBsInAltBlock
      /\ Limit["atvs"] = MaxATVsInAltBlock
  BY DEF Limit
<1>4. Before["context"] = {} /\ Before["vtbs"] = {"context"} /\ Before["atvs"] = {"context", "vtbs"}
  BY DEF Before
<1>5. \A k \in Kinds : Limit[k] \in Nat /\ Payloads[k] \subseteq AllPayloads
  BY <1>1, <1>2, <1>3, MemPoolAssumption DEF AllPayloads
<1> QED
  BY <1>1, <1>2, <1>3, <1>4, <1>5

\* Which kinds come before which.
LEMMA BeforeFacts ==
    ASSUME NEW j \in Kinds, NEW k \in Kinds, j \in Before[k]
    PROVE  /\ j # k /\ k \notin Before[j]
           /\ \A l \in Before[j] : l # k
  BY KindFacts

LEMMA PopFacts ==
    ASSUME NEW pop \in Pops
    PROVE  /\ pop \in [Kinds -> Seq(AllPayloads)]
           /\ \A k \in Kinds : pop[k] \in Seq(Payloads[k])
           /\ pop["context"] \in Seq(VbkBlocks) /\ pop["vtbs"] \in Seq(Vtbs) /\ pop["atvs"] \in Seq(Atvs)
<1>1. pop \in [Kinds -> Seq(AllPayloads)] /\ \A k \in Kinds : pop[k] \in Seq(Payloads[k])
  BY DEF Pops, AllPayloads
<1> QED
  BY <1>1, KindFacts

LEMMA IsPop ==
    ASSUME NEW pop, pop \in [Kinds -> Seq(AllPayloads)], \A k \in Kinds : pop[k] \in Seq(Payloads[k])
    PROVE  pop \in Pops
  BY DEF Pops, AllPayloads

LEMMA NoPopFacts ==
    /\ NoPop \in Pops
    /\ \A k \in Kinds : NoPop[k] = <<>>
<1>1. \A k \in Kinds : NoPop[k] = <<>>
  BY DEF NoPop
<1>2. NoPop \in [Kinds -> Seq(AllPayloads)]
  BY DEF NoPop
<1> QED
  BY <1>1, <1>2, IsPop

LEMMA SeqIn ==
    ASSUME NEW X, NEW Y, X \subseteq Y, NEW s \in Seq(X)
    PROVE  s \in Seq(Y)
  OBVIOUS

LEMMA AppendFacts ==
    ASSUME NEW X, NEW s \in Seq(X), NEW e \in X
    PROVE  /\ Append(s, e) \in Seq(X) /\ Len(s) \in Nat /\ Len(Append(s, e)) = Len(s) + 1
           /\ \A i \in 1..Len(s) : Append(s, e)[i] = s[i]
           /\ Append(s, e)[Len(s) + 1] = e
  OBVIOUS

LEMMA ToSetAppend ==
    ASSUME NEW X, NEW s \in Seq(X), NEW e \in X
    PROVE  ToSet(Append(s, e)) = ToSet(s) \cup {e}
<1>1. /\ Len(s) \in Nat /\ DOMAIN Append(s, e) = 1..Len(s) + 1 /\ DOMAIN s = 1..Len(s)
      /\ \A i \in 1..Len(s) : Append(s, e)[i] = s[i]
      /\ Append(s, e)[Len(s) + 1] = e
  OBVIOUS
<1>2. \A i : i \in 1..Len(s) + 1 <=> i \in 1..Len(s) \/ i = Len(s) + 1
  BY <1>1
<1> QED
  BY <1>1, <1>2 DEF ToSet

LEMMA PrefixOfAppend ==
    ASSUME NEW X, NEW s \in Seq(X), NEW e \in X, NEW n \in 0..Len(s)
    PROVE  SubSeq(Append(s, e), 1, n) = SubSeq(s, 1, n)
  BY AppendFacts

LEMMA WholePrefix ==
    ASSUME NEW X, NEW s \in Seq(X)
    PROVE  SubSeq(s, 1, Len(s)) = s
  OBVIOUS

\* A payload of its kind added to a body.
LEMMA AppendToPop ==
    ASSUME NEW b \in Pops, NEW k \in Kinds, NEW p \in Payloads[k]
    PROVE  /\ [b EXCEPT ![k] = Append(@, p)] \in Pops
           /\ [b EXCEPT ![k] = Append(@, p)][k] = Append(b[k], p)
           /\ \A j \in Kinds \ {k} : [b EXCEPT ![k] = Append(@, p)][j] = b[j]
<1> DEFINE c == [b EXCEPT ![k] = Append(@, p)]
<1>1. c[k] = Append(b[k], p) /\ \A j \in Kinds \ {k} : c[j] = b[j]
  BY PopFacts
<1>2. ASSUME NEW j \in Kinds PROVE c[j] \in Seq(Payloads[j]) /\ c[j] \in Seq(AllPayloads)
  <2> HIDE DEF c
  <2>1. b[j] \in Seq(Payloads[j]) /\ b[k] \in Seq(Payloads[k])
    BY PopFacts
  <2>2. Append(b[k], p) \in Seq(Payloads[k])
    BY <2>1, AppendFacts
  <2>3. c[j] \in Seq(Payloads[j])
    BY <2>1, <2>2, <1>1
  <2>4. Payloads[j] \subseteq AllPayloads
    BY KindFacts
  <2> QED
    BY <2>3, <2>4, SeqIn
<1>3. \A j \in Kinds : c[j] \in Seq(AllPayloads)
  BY <1>2
<1>4. c \in [Kinds -> Seq(AllPayloads)]
  <2>1. c = [j \in Kinds |-> c[j]]
    BY PopFacts
  <2> HIDE DEF c
  <2> QED
    BY <2>1, <1>3
<1> QED
  BY <1>1, <1>2, <1>4, IsPop

\* The payloads are of three distinct kinds.
LEMMA PayloadFacts ==
    ASSUME NEW p \in AllPayloads
    PROVE  /\ Kind(p) \in Kinds /\ p \in Payloads[Kind(p)] /\ BlockOf(p) \in VbkBlocks
           /\ p \in VbkBlocks => p \notin Vtbs \cup Atvs /\ Kind(p) = "context" /\ BlockOf(p) = p
           /\ p \in Vtbs => p \notin VbkBlocks \cup Atvs /\ Kind(p) = "vtbs" /\ BlockOf(p) = Containing[p]
           /\ p \in Atvs => p \notin VbkBlocks \cup Vtbs /\ Kind(p) = "atvs" /\ BlockOf(p) = Containing[p]
<1>1. /\ p \in VbkBlocks => p \notin Vtbs \cup Atvs
      /\ p \in Vtbs => p \notin VbkBlocks \cup Atvs
      /\ p \in Atvs => p \notin VbkBlocks \cup Vtbs
      /\ p \in VbkBlocks \/ p \in Vtbs \/ p \in Atvs
      /\ Containing \in [Vtbs \cup Atvs -> VbkBlocks]
  BY MemPoolAssumption DEF AllPayloads
<1> QED
  BY <1>1, KindFacts DEF Kind, BlockOf

LEMMA KindOf ==
    ASSUME NEW k \in Kinds, NEW p \in Payloads[k]
    PROVE  Kind(p) = k /\ p \in AllPayloads /\ Size[p] \in Nat
<1>1. p \in AllPayloads
  BY KindFacts
<1>2. Kind(p) = k
  BY <1>1, KindFacts, PayloadFacts
<1> QED
  BY <1>1, <1>2, MemPoolAssumption DEF AllPayloads

-----------------------------------------------------------------------------
(* The size of a body.                                                      *)

IsSizes(f, s) ==
    /\ f \in [0..Len(s) -> Nat]
    /\ f[0] = 0
    /\ \A i \in 1..Len(s) : f[i] = f[i - 1] + Size[s[i]]

LEMMA SizeLoop ==
    ASSUME NEW s \in Seq(AllPayloads)
    PROVE  \E f : IsSizes(f, s) /\ SizeOf(s) = f[Len(s)]
<1> DEFINE n == Len(s)
           step == [i \in 1..n |-> [t \in Nat |-> t + Size[s[i]]]]
           u == CHOOSE g : g = [i \in 0..n |-> IF i = 0 THEN 0 ELSE g[i - 1] + Size[s[i]]]
<1>1. n \in Nat /\ \A i \in 1..n : s[i] \in AllPayloads /\ i - 1 \in 0..n /\ i \in 0..n /\ i # 0
  OBVIOUS
<1>2. SizeOf(s) = u[n]
  BY DEF SizeOf
<1>3. \A i \in 1..n : Size[s[i]] \in Nat
  BY <1>1, MemPoolAssumption DEF AllPayloads
<1> HIDE DEF n
<1>4. AreSteps(Nat, n, step)
  BY <1>3 DEF AreSteps
<1>5. PICK f \in [0..n -> Nat] : f[0] = 0 /\ \A i \in 1..n : f[i] = step[i][f[i - 1]]
  <2> HIDE DEF step
  <2>1. 0 \in Nat
    OBVIOUS
  <2>2. \E f : IsRun(f, Nat, n, 0, step)
    BY <1>1, <1>4, <2>1, Steps
  <2> QED
    BY <2>2 DEF IsRun
<1>6. \A i \in 1..n : f[i] = f[i - 1] + Size[s[i]]
  BY <1>1, <1>5
<1> HIDE DEF step
<1>7. u = [i \in 0..n |-> IF i = 0 THEN 0 ELSE u[i - 1] + Size[s[i]]]
  <2>1. \A i \in 0..n : i = 0 \/ i \in 1..n
    BY <1>1
  <2>2. \A i \in 0..n : f[i] = IF i = 0 THEN 0 ELSE f[i - 1] + Size[s[i]]
    BY <2>1, <1>1, <1>5, <1>6
  <2>3. f = [i \in 0..n |-> IF i = 0 THEN 0 ELSE f[i - 1] + Size[s[i]]]
    BY <2>2
  <2> QED
    BY <2>3
<1> HIDE DEF u
<1>8. u[n] = f[n]
  <2>1. u[0] = 0 /\ \A i \in 1..n : u[i] = u[i - 1] + Size[s[i]]
    BY <1>1, <1>7
  <2>2. Follows(u, f, n)
    BY <2>1, <1>5, <1>6 DEF Follows
  <2> QED
    BY <1>1, <2>2, StepsSame
<1> QED
  BY <1>2, <1>5, <1>6, <1>8 DEF IsSizes, n

LEMMA SizeOfFacts ==
    /\ SizeOf(<<>>) = 0
    /\ \A s \in Seq(AllPayloads) : SizeOf(s) \in Nat
<1>1. ASSUME NEW s \in Seq(AllPayloads) PROVE SizeOf(s) \in Nat
  <2>1. PICK f : IsSizes(f, s) /\ SizeOf(s) = f[Len(s)]
    BY SizeLoop
  <2>2. Len(s) \in 0..Len(s)
    OBVIOUS
  <2> QED
    BY <2>1, <2>2 DEF IsSizes
<1>2. SizeOf(<<>>) = 0
  <2>1. <<>> \in Seq(AllPayloads) /\ Len(<<>>) = 0
    OBVIOUS
  <2>2. PICK f : IsSizes(f, <<>>) /\ SizeOf(<<>>) = f[Len(<<>>)]
    BY <2>1, SizeLoop
  <2> QED
    BY <2>1, <2>2 DEF IsSizes
<1> QED
  BY <1>1, <1>2

LEMMA SizeOfAppend ==
    ASSUME NEW s \in Seq(AllPayloads), NEW p \in AllPayloads
    PROVE  SizeOf(Append(s, p)) = SizeOf(s) + Size[p]
<1> DEFINE t == Append(s, p)
           n == Len(s)
<1>1. /\ t \in Seq(AllPayloads) /\ n \in Nat /\ Len(t) = n + 1 /\ t[n + 1] = p
      /\ \A i \in 1..n : t[i] = s[i]
  BY AppendFacts
<1> HIDE DEF t, n
<1>2. PICK f : IsSizes(f, s) /\ SizeOf(s) = f[n]
  BY SizeLoop DEF n
<1>3. PICK g : IsSizes(g, t) /\ SizeOf(t) = g[n + 1]
  BY <1>1, SizeLoop
<1>4. \A i \in 1..n : i \in 1..(n + 1)
  BY <1>1
<1>5. g[0] = f[0] /\ \A i \in 1..n : f[i] = f[i - 1] + Size[s[i]] /\ g[i] = g[i - 1] + Size[s[i]]
  BY <1>1, <1>2, <1>3, <1>4 DEF IsSizes, n
<1>6. Follows(g, f, n)
  BY <1>5 DEF Follows
<1>7. g[n] = f[n]
  BY <1>1, <1>6, StepsSame
<1>8. n + 1 \in 1..(n + 1) /\ (n + 1) - 1 = n
  BY <1>1
<1>9. g[n + 1] = g[n] + Size[p]
  BY <1>1, <1>3, <1>8 DEF IsSizes
<1> QED
  BY <1>2, <1>3, <1>7, <1>9 DEF t

LEMMA PartAppend ==
    ASSUME NEW s \in Seq(AllPayloads), NEW p \in AllPayloads
    PROVE  /\ PartSize(s) \in Nat /\ PartSize(Append(s, p)) \in Nat
           /\ PartSize(s) + Size[p] <= PartSize(Append(s, p))
           /\ Len(s) + 1 < 256 => PartSize(Append(s, p)) = PartSize(s) + Size[p]
<1> DEFINE a == SizeOf(s)
           d == Size[p]
           n == Len(s)
<1>1. SizeOf(Append(s, p)) = a + d /\ a \in Nat
  BY SizeOfAppend, SizeOfFacts
<1>2. d \in Nat /\ n \in Nat /\ Len(Append(s, p)) = n + 1
  BY MemPoolAssumption, AppendFacts DEF AllPayloads
<1>3. PartSize(s) = singleBEValueSize(n) + a /\ PartSize(Append(s, p)) = singleBEValueSize(n + 1) + (a + d)
  BY <1>1, <1>2 DEF PartSize
<1> HIDE DEF a, d, n
<1>4. /\ singleBEValueSize(n) \in Nat /\ singleBEValueSize(n + 1) \in Nat
      /\ singleBEValueSize(n) <= singleBEValueSize(n + 1)
      /\ n + 1 < 256 => singleBEValueSize(n) = singleBEValueSize(n + 1)
  BY <1>2 DEF singleBEValueSize
<1>5. /\ PartSize(s) \in Nat /\ PartSize(Append(s, p)) \in Nat
      /\ PartSize(s) + d <= PartSize(Append(s, p))
      /\ n + 1 < 256 => PartSize(Append(s, p)) = PartSize(s) + d
  BY <1>1, <1>2, <1>3, <1>4
<1> QED
  BY <1>5 DEF d, n

\* A payload adds its own bytes and, where its count needs a further byte, that one.
LEMMA EstimateAppend ==
    ASSUME NEW b \in Pops, NEW k \in Kinds, NEW p \in Payloads[k],
           NEW c, c[k] = Append(b[k], p), \A j \in Kinds \ {k} : c[j] = b[j]
    PROVE  /\ estimateSize(b) \in Nat /\ estimateSize(c) \in Nat
           /\ estimateSize(b) + Size[p] <= estimateSize(c)
           /\ Len(b[k]) + 1 < 256 => estimateSize(c) = estimateSize(b) + Size[p]
<1>1. p \in AllPayloads /\ Size[p] \in Nat
  BY KindOf
<1>2. \A j \in Kinds : b[j] \in Seq(AllPayloads)
  BY PopFacts, KindFacts, SeqIn
<1>3. \A j \in Kinds : PartSize(b[j]) \in Nat
  BY <1>1, <1>2, PartAppend
<1>4. /\ PartSize(c[k]) \in Nat /\ PartSize(b[k]) + Size[p] <= PartSize(c[k])
      /\ Len(b[k]) + 1 < 256 => PartSize(c[k]) = PartSize(b[k]) + Size[p]
  BY <1>1, <1>2, PartAppend
<1>5. \A j \in Kinds \ {k} : PartSize(c[j]) = PartSize(b[j])
  OBVIOUS
<1> DEFINE d == Size[p]
           short == Len(b[k]) + 1 < 256
           bx == PartSize(b["context"])
           by == PartSize(b["vtbs"])
           bz == PartSize(b["atvs"])
           cx == PartSize(c["context"])
           cy == PartSize(c["vtbs"])
           cz == PartSize(c["atvs"])
<1>6. estimateSize(b) = 4 + bx + by + bz /\ estimateSize(c) = 4 + cx + cy + cz
  BY DEF estimateSize
<1>7. bx \in Nat /\ by \in Nat /\ bz \in Nat /\ d \in Nat
  BY <1>1, <1>3, KindFacts
<1>8. CASE k = "context"
  <2>1. cx \in Nat /\ bx + d <= cx /\ (short => cx = bx + d) /\ cy = by /\ cz = bz
    BY <1>4, <1>5, <1>8, KindFacts
  <2> HIDE DEF d, short, bx, by, bz, cx, cy, cz
  <2>2. /\ estimateSize(b) \in Nat /\ estimateSize(c) \in Nat /\ estimateSize(b) + d <= estimateSize(c)
        /\ short => estimateSize(c) = estimateSize(b) + d
    BY <1>6, <1>7, <2>1
  <2> QED
    BY <2>2 DEF d, short
<1>9. CASE k = "vtbs"
  <2>1. cy \in Nat /\ by + d <= cy /\ (short => cy = by + d) /\ cx = bx /\ cz = bz
    BY <1>4, <1>5, <1>9, KindFacts
  <2> HIDE DEF d, short, bx, by, bz, cx, cy, cz
  <2>2. /\ estimateSize(b) \in Nat /\ estimateSize(c) \in Nat /\ estimateSize(b) + d <= estimateSize(c)
        /\ short => estimateSize(c) = estimateSize(b) + d
    BY <1>6, <1>7, <2>1
  <2> QED
    BY <2>2 DEF d, short
<1>10. CASE k = "atvs"
  <2>1. cz \in Nat /\ bz + d <= cz /\ (short => cz = bz + d) /\ cx = bx /\ cy = by
    BY <1>4, <1>5, <1>10, KindFacts
  <2> HIDE DEF d, short, bx, by, bz, cx, cy, cz
  <2>2. /\ estimateSize(b) \in Nat /\ estimateSize(c) \in Nat /\ estimateSize(b) + d <= estimateSize(c)
        /\ short => estimateSize(c) = estimateSize(b) + d
    BY <1>6, <1>7, <2>1
  <2> QED
    BY <2>2 DEF d, short
<1> QED
  BY <1>8, <1>9, <1>10, KindFacts

LEMMA EmptySize == estimateSize(NoPop) <= MaxPopDataSize
<1>1. \A k \in Kinds : NoPop[k] = <<>>
  BY NoPopFacts
<1>2. PartSize(<<>>) = 2
  <2>1. Len(<<>>) = 0 /\ SizeOf(<<>>) = 0
    BY SizeOfFacts
  <2> QED
    BY <2>1 DEF PartSize, singleBEValueSize
<1>3. estimateSize(NoPop) = 10
  BY <1>1, <1>2, KindFacts DEF estimateSize
<1> QED
  BY <1>3, MemPoolAssumption

-----------------------------------------------------------------------------
(* Filling a body.                                                          *)

LEMMA AddToBodyType ==
    ASSUME NEW ch, NEW b \in Pops, NEW k \in Kinds, NEW p \in Payloads[k]
    PROVE  AddToBody(ch, b, k, p) \in Pops
  BY AppendToPop DEF AddToBody

\* The bodies that applyPayloadsOrRemoveIfInvalid goes through.
IsFilter(f, ch, b, k, s) ==
    /\ f \in [0..Len(s) -> Pops]
    /\ f[0] = b
    /\ \A i \in 1..Len(s) : f[i] = AddToBody(ch, f[i - 1], k, s[i])

LEMMA FilterLoop ==
    ASSUME NEW ch, NEW b \in Pops, NEW k \in Kinds, NEW s \in Seq(Payloads[k])
    PROVE  \E f : /\ IsFilter(f, ch, b, k, s)
                  /\ applyPayloadsOrRemoveIfInvalid(ch, b, k, s) = f[Len(s)]
<1> DEFINE n == Len(s)
           step == [i \in 1..n |-> [c \in Pops |-> AddToBody(ch, c, k, s[i])]]
           u == CHOOSE g : g = [i \in 0..n |-> IF i = 0 THEN b ELSE AddToBody(ch, g[i - 1], k, s[i])]
<1>1. n \in Nat /\ \A i \in 1..n : s[i] \in Payloads[k] /\ i - 1 \in 0..n /\ i \in 0..n /\ i # 0
  OBVIOUS
<1>2. applyPayloadsOrRemoveIfInvalid(ch, b, k, s) = u[n]
  BY DEF applyPayloadsOrRemoveIfInvalid
<1>3. AreSteps(Pops, n, step)
  BY <1>1, AddToBodyType DEF AreSteps
<1> HIDE DEF n
<1>4. PICK f \in [0..n -> Pops] : f[0] = b /\ \A i \in 1..n : f[i] = step[i][f[i - 1]]
  <2> HIDE DEF step
  <2>1. \E f : IsRun(f, Pops, n, b, step)
    BY <1>1, <1>3, Steps
  <2> QED
    BY <2>1 DEF IsRun
<1>5. \A i \in 1..n : f[i] = AddToBody(ch, f[i - 1], k, s[i])
  BY <1>1, <1>4
<1> HIDE DEF step
<1>6. u = [i \in 0..n |-> IF i = 0 THEN b ELSE AddToBody(ch, u[i - 1], k, s[i])]
  <2>1. \A i \in 0..n : i = 0 \/ i \in 1..n
    BY <1>1
  <2>2. \A i \in 0..n : f[i] = IF i = 0 THEN b ELSE AddToBody(ch, f[i - 1], k, s[i])
    BY <2>1, <1>1, <1>4, <1>5
  <2>3. f = [i \in 0..n |-> IF i = 0 THEN b ELSE AddToBody(ch, f[i - 1], k, s[i])]
    BY <2>2
  <2> QED
    BY <2>3
<1> HIDE DEF u
<1>7. u[0] = b /\ \A i \in 1..n : u[i] = AddToBody(ch, u[i - 1], k, s[i])
  BY <1>1, <1>6
<1>8. Follows(u, f, n)
  BY <1>4, <1>5, <1>7 DEF Follows
<1>9. u[n] = f[n]
  BY <1>1, <1>8, StepsSame
<1> QED
  BY <1>2, <1>4, <1>5, <1>9 DEF IsFilter, n

-----------------------------------------------------------------------------
(* filterInvalidPayloads leaves a body that applies.  canFit counts the      *)
(* bytes before the payload is added, so this needs counts of one byte.     *)

LEMMA BeforeTotal ==
    ASSUME NEW j \in Kinds, NEW k \in Kinds, j # k, k \notin Before[j]
    PROVE  j \in Before[k]
  BY KindFacts

\* The body applies and has no payload of a kind that comes after k.
AppliesUpTo(ch, b, k) ==
    /\ Applies(ch, b)
    /\ \A j \in Kinds : k \in Before[j] => b[j] = <<>>

LEMMA AddToBodyApplies ==
    ASSUME ShortLimits,
           NEW ch, NEW b \in Pops, NEW k \in Kinds, NEW p \in Payloads[k], AppliesUpTo(ch, b, k)
    PROVE  AppliesUpTo(ch, AddToBody(ch, b, k, p), k)
<1> DEFINE added == /\ canFit(b, p)
                    /\ p \notin ToSet(b[k])
                    /\ ~isStatefulDuplicate(ch, p)
                    /\ Executes(Append(ch, b), p)
           c == [b EXCEPT ![k] = Append(@, p)]
<1>1. CASE ~added
  BY <1>1 DEF AddToBody
<1>2. CASE added
  <2>1. AddToBody(ch, b, k, p) = c
    BY <1>2 DEF AddToBody
  <2>2. c \in Pops /\ c[k] = Append(b[k], p) /\ \A j \in Kinds \ {k} : c[j] = b[j]
    BY AppendToPop
  <2>3. b[k] \in Seq(Payloads[k]) /\ Len(b[k]) \in Nat /\ Limit[k] \in Nat /\ Len(b[k]) < Limit[k]
    BY <1>2, PopFacts, KindFacts, KindOf DEF canFit
  <2>4. /\ Len(c[k]) = Len(b[k]) + 1 /\ c[k][Len(b[k]) + 1] = p
        /\ \A i \in 1..Len(b[k]) : c[k][i] = b[k][i]
    BY <2>2, <2>3, AppendFacts
  <2>5. ASSUME NEW j \in Kinds, k \in Before[j] PROVE c[j] = <<>>
    <3>1. j # k
      BY <2>5, BeforeFacts
    <3> QED
      BY <3>1, <2>2, <2>5 DEF AppliesUpTo
  <2>6. ASSUME NEW j \in Kinds, k \notin Before[j], NEW n \in 0..Len(b[j])
        PROVE  Executed(c, j, n) = Executed(b, j, n)
    <3>1. \A l \in Before[j] : l \in Kinds => c[l] = b[l]
      BY <2>2, <2>6
    <3>2. SubSeq(c[j], 1, n) = SubSeq(b[j], 1, n)
      <4>1. CASE j = k
        BY <4>1, <2>2, <2>3, PrefixOfAppend
      <4>2. CASE j # k
        BY <4>2, <2>2
      <4> QED
        BY <4>1, <4>2
    <3> HIDE DEF c
    <3> QED
      BY <3>1, <3>2 DEF Executed
  <2>7. Executed(c, k, Len(b[k])) = b
    <3>1. SubSeq(c[k], 1, Len(b[k])) = b[k]
      BY <2>2, <2>3, PrefixOfAppend, WholePrefix
    <3>2. ASSUME NEW l \in Kinds
          PROVE  (IF l \in Before[k] THEN c[l] ELSE IF l = k THEN SubSeq(c[k], 1, Len(b[k])) ELSE <<>>) = b[l]
      <4>1. CASE l \in Before[k]
        BY <4>1, <2>2, BeforeFacts
      <4>2. CASE l = k
        BY <4>2, <3>1, BeforeFacts
      <4>3. CASE l \notin Before[k] /\ l # k
        <5>1. k \in Before[l]
          BY <4>3, BeforeTotal
        <5> QED
          BY <4>3, <5>1 DEF AppliesUpTo
      <4> QED
        BY <4>1, <4>2, <4>3
    <3>3. b = [l \in Kinds |-> b[l]]
      BY PopFacts
    <3> HIDE DEF c
    <3> QED
      BY <3>2, <3>3 DEF Executed
  <2> HIDE DEF c
  <2>8. ASSUME NEW j \in Kinds
        PROVE  /\ IsInjective(c[j])
               /\ Len(c[j]) <= Limit[j]
               /\ \A i \in 1..Len(c[j]) :
                    /\ ~isStatefulDuplicate(ch, c[j][i])
                    /\ Executes(Append(ch, Executed(c, j, i - 1)), c[j][i])
    <3>1. /\ IsInjective(b[j])
          /\ Len(b[j]) <= Limit[j]
          /\ \A i \in 1..Len(b[j]) :
                /\ ~isStatefulDuplicate(ch, b[j][i])
                /\ Executes(Append(ch, Executed(b, j, i - 1)), b[j][i])
      BY DEF AppliesUpTo, Applies
    <3>2. b[j] \in Seq(Payloads[j]) /\ Len(b[j]) \in Nat
      BY PopFacts
    <3>3. CASE j = k
      <4>1. IsInjective(c[k])
        <5>1. DOMAIN c[k] = 1..Len(b[k]) + 1 /\ DOMAIN b[k] = 1..Len(b[k])
          BY <2>2, <2>3, <2>4, AppendFacts
        <5>2. \A i \in 1..Len(b[k]) : c[k][i] # p
          BY <1>2, <2>4, <5>1 DEF ToSet
        <5>3. \A i \in 1..Len(b[k]) + 1 : i \in 1..Len(b[k]) \/ i = Len(b[k]) + 1
          BY <2>3
        <5> QED
          BY <5>1, <5>2, <5>3, <2>4, <3>1, <3>3 DEF IsInjective
      <4>2. Len(c[k]) <= Limit[k]
        BY <2>3, <2>4
      <4>3. ASSUME NEW i \in 1..Len(c[k])
            PROVE  /\ ~isStatefulDuplicate(ch, c[k][i])
                   /\ Executes(Append(ch, Executed(c, k, i - 1)), c[k][i])
        <5>1. CASE i = Len(b[k]) + 1
          <6>1. i - 1 = Len(b[k]) /\ c[k][i] = p
            BY <5>1, <2>3, <2>4
          <6> QED
            BY <6>1, <1>2, <2>7
        <5>2. CASE i # Len(b[k]) + 1
          <6>1. i \in 1..Len(b[k]) /\ i - 1 \in 0..Len(b[k])
            BY <5>2, <2>3, <2>4
          <6>2. Executed(c, k, i - 1) = Executed(b, k, i - 1)
            BY <6>1, <2>6, KindFacts
          <6> QED
            BY <6>1, <6>2, <2>4, <3>1, <3>3
        <5> QED
          BY <5>1, <5>2
      <4> QED
        BY <3>3, <4>1, <4>2, <4>3
    <3>4. CASE j # k
      <4>1. c[j] = b[j]
        BY <3>4, <2>2
      <4>2. ASSUME NEW i \in 1..Len(b[j]) PROVE Executed(c, j, i - 1) = Executed(b, j, i - 1)
        <5>1. k \notin Before[j]
          <6>1. b[j] # <<>>
            BY <3>2
          <6> QED
            BY <6>1 DEF AppliesUpTo
        <5>2. i - 1 \in 0..Len(b[j])
          BY <3>2
        <5> QED
          BY <5>1, <5>2, <2>6
      <4> QED
        BY <4>1, <4>2, <3>1
    <3> QED
      BY <3>3, <3>4
  <2>9. estimateSize(c) <= MaxPopDataSize
    <3>1. Limit[k] < 256
      BY DEF ShortLimits
    <3>2. Len(b[k]) + 1 < 256
      BY <3>1, <2>3
    <3>3. estimateSize(c) = estimateSize(b) + Size[p]
      BY <2>2, <3>2, EstimateAppend
    <3>4. estimateSize(b) + Size[p] <= MaxPopDataSize
      BY <1>2 DEF canFit
    <3> QED
      BY <3>3, <3>4
  <2>10. Applies(ch, c)
    BY <2>8, <2>9 DEF Applies
  <2> QED
    BY <2>1, <2>5, <2>10 DEF AppliesUpTo
<1> QED
  BY <1>1, <1>2

\* What applyPayloadsOrRemoveIfInvalid leaves applies, if what it began with did.
LEMMA FilterApplies ==
    ASSUME ShortLimits,
           NEW ch, NEW b \in Pops, NEW k \in Kinds, NEW s \in Seq(Payloads[k]), AppliesUpTo(ch, b, k)
    PROVE  AppliesUpTo(ch, applyPayloadsOrRemoveIfInvalid(ch, b, k, s), k)
<1>1. PICK f : /\ IsFilter(f, ch, b, k, s)
               /\ applyPayloadsOrRemoveIfInvalid(ch, b, k, s) = f[Len(s)]
  BY FilterLoop
<1>2. Len(s) \in Nat /\ \A i \in 1..Len(s) : s[i] \in Payloads[k] /\ i - 1 \in 0..Len(s)
  OBVIOUS
<1> DEFINE G == {i \in 0..Len(s) : AppliesUpTo(ch, f[i], k)}
<1>3. 0 \in G /\ \A i \in 1..Len(s) : i - 1 \in G => i \in G
  <2>1. 0 \in G
    BY <1>1, <1>2 DEF IsFilter
  <2>2. ASSUME NEW i \in 1..Len(s), i - 1 \in G PROVE i \in G
    <3>1. f[i - 1] \in Pops /\ f[i] = AddToBody(ch, f[i - 1], k, s[i]) /\ AppliesUpTo(ch, f[i - 1], k)
      BY <1>1, <1>2, <2>2 DEF IsFilter
    <3> QED
      BY <3>1, <1>2, AddToBodyApplies
  <2> QED
    BY <2>1, <2>2
<1>4. \A i \in 0..Len(s) : i \in G
  <2> HIDE DEF G
  <2> QED
    BY <1>2, <1>3, UpTo
<1> QED
  BY <1>1, <1>2, <1>4 DEF IsFilter

LEMMA FilterType ==
    ASSUME NEW ch, NEW b \in Pops, NEW k \in Kinds, NEW s \in Seq(Payloads[k])
    PROVE  applyPayloadsOrRemoveIfInvalid(ch, b, k, s) \in Pops
<1>1. PICK f : /\ IsFilter(f, ch, b, k, s)
               /\ applyPayloadsOrRemoveIfInvalid(ch, b, k, s) = f[Len(s)]
  BY FilterLoop
<1>2. Len(s) \in 0..Len(s)
  OBVIOUS
<1> QED
  BY <1>1, <1>2 DEF IsFilter

LEMMA NoPopApplies ==
    ASSUME NEW ch, NEW k \in Kinds
    PROVE  AppliesUpTo(ch, NoPop, k)
<1>1. \A j \in Kinds : NoPop[j] = <<>> /\ Limit[j] \in Nat
  BY NoPopFacts, KindFacts
<1> QED
  BY <1>1, EmptySize DEF AppliesUpTo, Applies, IsInjective

\* The three loops of filterInvalidPayloads.
LEMMA FilterInvalidFacts ==
    ASSUME NEW ch, NEW pop \in Pops, NEW context, NEW vtbs, NEW atvs,
           context = applyPayloadsOrRemoveIfInvalid(ch, NoPop, "context", pop["context"]),
           vtbs = applyPayloadsOrRemoveIfInvalid(ch, context, "vtbs", pop["vtbs"]),
           atvs = applyPayloadsOrRemoveIfInvalid(ch, vtbs, "atvs", pop["atvs"])
    PROVE  /\ filterInvalidPayloads(ch, pop) = atvs
           /\ context \in Pops /\ vtbs \in Pops /\ atvs \in Pops
<1>1. \A k \in Kinds : pop[k] \in Seq(Payloads[k])
  BY PopFacts
<1>2. context \in Pops
  BY <1>1, NoPopFacts, KindFacts, FilterType
<1>3. vtbs \in Pops
  BY <1>1, <1>2, KindFacts, FilterType
<1>4. atvs \in Pops
  BY <1>1, <1>3, KindFacts, FilterType
<1>5. filterInvalidPayloads(ch, pop) = atvs
  BY DEF filterInvalidPayloads
<1> QED
  BY <1>2, <1>3, <1>4, <1>5

LEMMA FilteredPopType ==
    ASSUME NEW ch, NEW pop \in Pops
    PROVE  filterInvalidPayloads(ch, pop) \in Pops
<1> DEFINE context == applyPayloadsOrRemoveIfInvalid(ch, NoPop, "context", pop["context"])
           vtbs == applyPayloadsOrRemoveIfInvalid(ch, context, "vtbs", pop["vtbs"])
           atvs == applyPayloadsOrRemoveIfInvalid(ch, vtbs, "atvs", pop["atvs"])
<1> QED
  BY FilterInvalidFacts

\* generatePopData only returns a body that applies, whatever the candidates.
LEMMA FilteredPopApplies ==
    ASSUME ShortLimits, NEW ch, NEW pop \in Pops
    PROVE  Applies(ch, filterInvalidPayloads(ch, pop))
<1> DEFINE context == applyPayloadsOrRemoveIfInvalid(ch, NoPop, "context", pop["context"])
           vtbs == applyPayloadsOrRemoveIfInvalid(ch, context, "vtbs", pop["vtbs"])
           atvs == applyPayloadsOrRemoveIfInvalid(ch, vtbs, "atvs", pop["atvs"])
<1>1. \A k \in Kinds : pop[k] \in Seq(Payloads[k])
  BY PopFacts
<1>2. context \in Pops /\ vtbs \in Pops /\ filterInvalidPayloads(ch, pop) = atvs
  BY FilterInvalidFacts
<1>3. AppliesUpTo(ch, context, "context")
  BY <1>1, NoPopFacts, NoPopApplies, KindFacts, FilterApplies
<1>4. AppliesUpTo(ch, vtbs, "vtbs")
  <2>1. AppliesUpTo(ch, context, "vtbs")
    <3> HIDE DEF context
    <3> QED
      BY <1>3, KindFacts DEF AppliesUpTo
  <2> QED
    BY <1>1, <1>2, <2>1, KindFacts, FilterApplies
<1>5. AppliesUpTo(ch, atvs, "atvs")
  <2>1. AppliesUpTo(ch, vtbs, "atvs")
    <3> HIDE DEF vtbs
    <3> QED
      BY <1>4, KindFacts DEF AppliesUpTo
  <2> QED
    BY <1>1, <1>2, <2>1, KindFacts, FilterApplies
<1> QED
  BY <1>2, <1>5 DEF AppliesUpTo

-----------------------------------------------------------------------------
(* The maps of payloads in flight.                                          *)

Flights(X) == [map : SUBSET X, sorted : Seq(X)]

LEMMA EraseValueType ==
    ASSUME NEW X, NEW s \in Seq(X), NEW p
    PROVE  EraseValue(s, p) \in Seq(X)
<1> DEFINE I == {i \in 1..Len(s) : BlockOf(s[i]) = BlockOf(p)}
           found == IF I # {} THEN Min(I) ELSE 0
<1>1. EraseValue(s, p) = RemoveAt(s, found)
  BY DEF EraseValue, SelectInSeq
<1>2. Len(s) \in Nat /\ I \subseteq 1..Len(s) /\ I \in SUBSET Nat
  OBVIOUS
<1> HIDE DEF I
<1>3. ASSUME I # {} PROVE Min(I) \in I
  <2>1. PICK k \in I : \A m \in I : ~(<<m, k>> \in OpToRel(<, Nat))
    BY <1>2, <1>3, NatLessThanWellFounded, WFMin
  <2>2. \A m \in I : ~(m < k)
    BY <1>2, <2>1 DEF OpToRel
  <2>3. \A m \in I : k <= m
    BY <1>2, <2>2
  <2> QED
    BY <2>3 DEF Min
<1>4. found \in 0..Len(s)
  <2>1. CASE I # {}
    <3>1. Min(I) \in 1..Len(s) /\ found = Min(I)
      BY <2>1, <1>2, <1>3
    <3> HIDE DEF found
    <3> QED
      BY <3>1
  <2>2. CASE I = {}
    BY <2>2, <1>2
  <2> QED
    BY <2>1, <2>2
<1> HIDE DEF found
<1>5. SubSeq(s, 1, found - 1) \in Seq(X) /\ SubSeq(s, found + 1, Len(s)) \in Seq(X)
  BY <1>2, <1>4
<1> QED
  BY <1>1, <1>5 DEF RemoveAt

LEMMA InsertValueType ==
    ASSUME NEW X, NEW s \in Seq(X), NEW p \in X
    PROVE  InsertValue(s, p) \in Seq(X)
<1> DEFINE lower == {i \in DOMAIN s : BlockOf(s[i]) <= BlockOf(p)}
           n == Cardinality(lower)
<1>1. IsFiniteSet(1..Len(s)) /\ Cardinality(1..Len(s)) = Len(s) /\ lower \subseteq 1..Len(s) /\ Len(s) \in Nat
  BY FS_Interval
<1>2. n \in 0..Len(s)
  BY <1>1, FS_Subset, FS_CardinalityType
<1>3. InsertValue(s, p) = InsertAt(s, 1 + n, p)
  BY DEF InsertValue
<1> HIDE DEF n
<1>4. SubSeq(s, 1, (1 + n) - 1) \in Seq(X) /\ SubSeq(s, 1 + n, Len(s)) \in Seq(X) /\ <<p>> \in Seq(X)
  BY <1>1, <1>2
<1> QED
  BY <1>3, <1>4 DEF InsertAt

LEMMA EraseFacts ==
    ASSUME NEW X, NEW f \in Flights(X), NEW p
    PROVE  erase(f, p) \in Flights(X) /\ erase(f, p).map = f.map \ {p}
<1>1. EraseValue(f.sorted, p) \in Seq(X)
  BY EraseValueType DEF Flights
<1> QED
  BY <1>1 DEF erase, Flights

LEMMA InsertFacts ==
    ASSUME NEW X, NEW f \in Flights(X), NEW p \in X
    PROVE  insert(f, p) \in Flights(X) /\ insert(f, p).map = f.map \cup {p}
<1> DEFINE s == IF p \in f.map THEN EraseValue(f.sorted, p) ELSE f.sorted
<1>1. s \in Seq(X)
  BY EraseValueType DEF Flights
<1>2. InsertValue(s, p) \in Seq(X)
  BY <1>1, InsertValueType
<1>3. insert(f, p) = [map |-> f.map \cup {p}, sorted |-> InsertValue(s, p)]
  BY DEF insert
<1> HIDE DEF s
<1> QED
  BY <1>2, <1>3 DEF Flights

LEMMA SetToSeqFacts ==
    ASSUME NEW S, IsFiniteSet(S)
    PROVE  /\ Cardinality(S) \in Nat
           /\ SetToSeq(S) \in [1..Cardinality(S) -> S]
           /\ \A x \in S : \E i \in 1..Cardinality(S) : SetToSeq(S)[i] = x
<1> DEFINE n == Cardinality(S)
<1>1. n \in Nat /\ ExistsBijection(1..n, S)
  BY FS_CardinalityType
<1>2. \E f \in [1..n -> S] : IsInjective(f)
  BY <1>1 DEF ExistsBijection, Bijection, Injection
<1>3. SetToSeq(S) \in [1..n -> S] /\ IsInjective(SetToSeq(S))
  BY <1>2 DEF SetToSeq
<1>4. SetToSeq(S) \in Injection(1..n, S)
  BY <1>3 DEF Injection
<1>5. IsFiniteSet(1..n) /\ Cardinality(1..n) = n
  BY <1>1, FS_Interval
<1>6. SetToSeq(S) \in Surjection(1..n, S)
  BY <1>4, <1>5, FS_Injection
<1> QED
  BY <1>1, <1>3, <1>6 DEF Surjection

LEMMA EraseAllFacts ==
    ASSUME NEW X, NEW f \in Flights(X), NEW gone, gone \subseteq f.map, IsFiniteSet(gone)
    PROVE  EraseAll(f, gone) \in Flights(X) /\ EraseAll(f, gone).map = f.map \ gone
<1> DEFINE n == Cardinality(gone)
           order == SetToSeq(gone)
           step == [i \in 1..n |-> [c \in Flights(X) |-> erase(c, order[i])]]
           u == CHOOSE g : g = [i \in 0..n |-> IF i = 0 THEN f ELSE erase(g[i - 1], order[i])]
<1>1. /\ n \in Nat /\ order \in [1..n -> gone] /\ \A x \in gone : \E i \in 1..n : order[i] = x
  BY SetToSeqFacts
<1>2. \A i \in 1..n : i - 1 \in 0..n /\ i \in 0..n /\ i # 0
  BY <1>1
<1>3. EraseAll(f, gone) = u[n]
  BY DEF EraseAll
<1> HIDE DEF n, order
<1>4. AreSteps(Flights(X), n, step)
  BY <1>1, EraseFacts DEF AreSteps
<1>5. PICK e \in [0..n -> Flights(X)] : e[0] = f /\ \A i \in 1..n : e[i] = step[i][e[i - 1]]
  <2> HIDE DEF step
  <2>1. \E e : IsRun(e, Flights(X), n, f, step)
    BY <1>1, <1>4, Steps
  <2> QED
    BY <2>1 DEF IsRun
<1>6. \A i \in 1..n : e[i] = erase(e[i - 1], order[i])
  BY <1>2, <1>5
<1> HIDE DEF step
<1>7. u = [i \in 0..n |-> IF i = 0 THEN f ELSE erase(u[i - 1], order[i])]
  <2>1. \A i \in 0..n : i = 0 \/ i \in 1..n
    BY <1>1
  <2>2. \A i \in 0..n : e[i] = IF i = 0 THEN f ELSE erase(e[i - 1], order[i])
    BY <2>1, <1>2, <1>5, <1>6
  <2>3. e = [i \in 0..n |-> IF i = 0 THEN f ELSE erase(e[i - 1], order[i])]
    BY <2>2
  <2> QED
    BY <2>3
<1> HIDE DEF u
<1>8. u[n] = e[n]
  <2>1. u[0] = f /\ \A i \in 1..n : u[i] = erase(u[i - 1], order[i])
    BY <1>1, <1>2, <1>7
  <2>2. Follows(u, e, n)
    BY <2>1, <1>5, <1>6 DEF Follows
  <2> QED
    BY <1>1, <2>2, StepsSame
<1> DEFINE G == {i \in 0..n : e[i].map = f.map \ {order[j] : j \in 1..i}}
<1>9. 0 \in G
  BY <1>1, <1>5
<1>10. ASSUME NEW i \in 1..n, i - 1 \in G PROVE i \in G
  <2>1. e[i].map = e[i - 1].map \ {order[i]}
    BY <1>2, <1>5, <1>6, EraseFacts
  <2>2. {order[j] : j \in 1..i} = {order[j] : j \in 1..(i - 1)} \cup {order[i]}
    <3>1. 1..i = (1..(i - 1)) \cup {i}
      BY <1>1
    <3> QED
      BY <3>1
  <2> QED
    BY <1>10, <1>2, <2>1, <2>2
<1>11. n \in G
  <2> HIDE DEF G
  <2>1. \A i \in 0..n : i \in G
    BY <1>1, <1>9, <1>10, UpTo
  <2> QED
    BY <1>1, <2>1
<1>12. {order[j] : j \in 1..n} = gone
  BY <1>1
<1>13. e[n] \in Flights(X)
  BY <1>1, <1>5
<1> QED
  BY <1>3, <1>8, <1>11, <1>12, <1>13

-----------------------------------------------------------------------------
(* The states of the pool.                                                  *)

BlockSets == SUBSET VbkBlocks

AtvMaps == [VbkBlocks -> SUBSET Atvs]

VtbMaps == [VbkBlocks -> Seq(Vtbs)]

StoredSets == SUBSET (Vtbs \cup Atvs)

FlightMaps == [Kinds -> Flights(AllPayloads)]

BtcSets == SUBSET Nat

PoolRecords ==
    [blocks : BlockSets, atvs : AtvMaps, vtbs : VtbMaps, stored : StoredSets, flight : FlightMaps,
     vbk : BlockSets, btc : BtcSets]

WithVbk(m, f) == [m EXCEPT !.vbk = f]

LEMMA WithVbkFacts ==
    ASSUME NEW m \in PoolRecords, NEW f \in BlockSets,
           NEW n, n = WithVbk(m, f)
    PROVE  /\ n \in PoolRecords
           /\ n.blocks = m.blocks /\ n.atvs = m.atvs /\ n.vtbs = m.vtbs /\ n.stored = m.stored
           /\ n.flight = m.flight /\ n.vbk = f /\ n.btc = m.btc
  BY DEF PoolRecords, WithVbk

WithBtc(m, g) == [m EXCEPT !.btc = g]

LEMMA WithBtcFacts ==
    ASSUME NEW m \in PoolRecords, NEW g \in BtcSets,
           NEW n, n = WithBtc(m, g)
    PROVE  /\ n \in PoolRecords
           /\ n.blocks = m.blocks /\ n.atvs = m.atvs /\ n.vtbs = m.vtbs /\ n.stored = m.stored
           /\ n.flight = m.flight /\ n.vbk = m.vbk /\ n.btc = g
  BY DEF PoolRecords, WithBtc

WithFlight(m, e) == [m EXCEPT !.flight = e]

LEMMA WithFlightFacts ==
    ASSUME NEW m \in PoolRecords, NEW e \in FlightMaps,
           NEW n, n = WithFlight(m, e)
    PROVE  /\ n \in PoolRecords
           /\ n.blocks = m.blocks /\ n.atvs = m.atvs /\ n.vtbs = m.vtbs /\ n.stored = m.stored
           /\ n.flight = e /\ n.vbk = m.vbk /\ n.btc = m.btc
  BY DEF PoolRecords, WithFlight

WithRelation(m, a, b, c, d, e) == [m EXCEPT !.blocks = a, !.atvs = b, !.vtbs = c, !.stored = d, !.flight = e]

LEMMA WithRelationFacts ==
    ASSUME NEW m \in PoolRecords, NEW a \in BlockSets, NEW b \in AtvMaps, NEW c \in VtbMaps,
           NEW d \in StoredSets, NEW e \in FlightMaps,
           NEW n, n = WithRelation(m, a, b, c, d, e)
    PROVE  /\ n \in PoolRecords
           /\ n.blocks = a /\ n.atvs = b /\ n.vtbs = c /\ n.stored = d
           /\ n.flight = e /\ n.vbk = m.vbk /\ n.btc = m.btc
  BY DEF PoolRecords, WithRelation

WithRelations(m, a, b, c) == [m EXCEPT !.blocks = a, !.atvs = b, !.vtbs = c]

LEMMA WithRelationsFacts ==
    ASSUME NEW m \in PoolRecords, NEW a \in BlockSets, NEW b \in AtvMaps, NEW c \in VtbMaps,
           NEW n, n = WithRelations(m, a, b, c)
    PROVE  /\ n \in PoolRecords
           /\ n.blocks = a /\ n.atvs = b /\ n.vtbs = c /\ n.stored = m.stored
           /\ n.flight = m.flight /\ n.vbk = m.vbk /\ n.btc = m.btc
  BY DEF PoolRecords, WithRelations

WithFewer(m, b, c, d) == [m EXCEPT !.atvs = b, !.vtbs = c, !.stored = d]

LEMMA WithFewerFacts ==
    ASSUME NEW m \in PoolRecords, NEW b \in AtvMaps, NEW c \in VtbMaps, NEW d \in StoredSets,
           NEW n, n = WithFewer(m, b, c, d)
    PROVE  /\ n \in PoolRecords
           /\ n.blocks = m.blocks /\ n.atvs = b /\ n.vtbs = c /\ n.stored = d
           /\ n.flight = m.flight /\ n.vbk = m.vbk /\ n.btc = m.btc
  BY DEF PoolRecords, WithFewer

WithTemp(m, e, f, g) == [m EXCEPT !.flight = e, !.vbk = f, !.btc = g]

LEMMA WithTempFacts ==
    ASSUME NEW m \in PoolRecords, NEW e \in FlightMaps, NEW f \in BlockSets, NEW g \in BtcSets,
           NEW n, n = WithTemp(m, e, f, g)
    PROVE  /\ n \in PoolRecords
           /\ n.blocks = m.blocks /\ n.atvs = m.atvs /\ n.vtbs = m.vtbs /\ n.stored = m.stored
           /\ n.flight = e /\ n.vbk = f /\ n.btc = g
  BY DEF PoolRecords, WithTemp

\* The payloads in flight are of their kind, and an ATV is in the relation of
\* its VBK block.
PoolStates ==
    {m \in PoolRecords :
        /\ \A k \in Kinds : m.flight[k] \in Flights(Payloads[k])
        /\ \A b \in VbkBlocks : \A a \in m.atvs[b] : Containing[a] = b}

LEMMA PoolFacts ==
    ASSUME NEW m \in PoolStates
    PROVE  /\ m \in PoolRecords
           /\ m.blocks \subseteq VbkBlocks /\ m.atvs \in [VbkBlocks -> SUBSET Atvs]
           /\ m.vtbs \in [VbkBlocks -> Seq(Vtbs)] /\ m.stored \subseteq Vtbs \cup Atvs
           /\ m.flight \in [Kinds -> Flights(AllPayloads)]
           /\ m.vbk \subseteq VbkBlocks /\ m.btc \subseteq Nat
           /\ \A k \in Kinds : m.flight[k] \in Flights(Payloads[k])
           /\ \A b \in VbkBlocks : \A a \in m.atvs[b] : Containing[a] = b
  BY DEF PoolStates, PoolRecords, BlockSets, AtvMaps, VtbMaps, StoredSets, FlightMaps, BtcSets

LEMMA IsPoolState ==
    ASSUME NEW m, m \in PoolRecords,
           \A k \in Kinds : m.flight[k] \in Flights(Payloads[k]),
           \A b \in VbkBlocks : \A a \in m.atvs[b] : Containing[a] = b
    PROVE  m \in PoolStates
  BY DEF PoolStates

LEMMA FlightsIn ==
    ASSUME NEW X, NEW Y, X \subseteq Y
    PROVE  Flights(X) \subseteq Flights(Y)
<1>1. ASSUME NEW f \in Flights(X) PROVE f \in Flights(Y)
  <2>1. f.sorted \in Seq(Y)
    BY SeqIn DEF Flights
  <2> QED
    BY <2>1 DEF Flights
<1> QED
  BY <1>1

LEMMA EmptyPoolFacts == EmptyPool \in PoolStates
<1>1. \A X : Nothing \in Flights(X)
  BY DEF Nothing, Flights
<1>2. EmptyPool \in PoolRecords
  BY <1>1 DEF EmptyPool, PoolRecords, BlockSets, AtvMaps, VtbMaps, StoredSets, FlightMaps, BtcSets
<1>3. \A k \in Kinds : EmptyPool.flight[k] = Nothing
  BY DEF EmptyPool
<1>4. \A b \in VbkBlocks : EmptyPool.atvs[b] = {}
  BY DEF EmptyPool
<1> QED
  BY <1>1, <1>2, <1>3, <1>4, IsPoolState

\* What accepting a payload changes: the temporary trees only.
SameButTemp(n, m) ==
    /\ n \in PoolStates
    /\ n.blocks = m.blocks /\ n.atvs = m.atvs /\ n.vtbs = m.vtbs
    /\ n.stored = m.stored /\ n.flight = m.flight

LEMMA AcceptFacts ==
    ASSUME NEW m \in PoolStates, NEW ch, NEW p \in AllPayloads
    PROVE  /\ SameButTemp(accept(m, ch, p).pool, m)
           /\ accept(m, ch, p).ok \in BOOLEAN
<1> DEFINE b == BlockOf(p)
           known == b - 1 \in KnownVbk(m, ch)
           connects == p \in Vtbs => FirstBtc[p] - 1 \in KnownBtc(m, ch)
           valid == p \in VbkBlocks \/ checkContextually(ch, p)
           withBlock == IF valid /\ known THEN acceptVbkBlock(m, ch, b) ELSE m
           brought == IF p \in Vtbs THEN (FirstBtc[p]..LastBtc[p]) \ BtcOf(ch, MaxVbkHeight) ELSE {}
           ok == valid /\ known /\ connects
           after == IF ok THEN [withBlock EXCEPT !.btc = @ \cup brought] ELSE withBlock
<1>1. accept(m, ch, p) = [ok |-> ok, pool |-> after]
  BY DEF accept
<1>2. b \in VbkBlocks
  BY PayloadFacts
<1>3. brought \subseteq Nat
  BY MemPoolAssumption
<1> HIDE DEF known, connects, valid, brought, b
<1>4. SameButTemp(withBlock, m)
  <2>1. ASSUME NEW n, n = [m EXCEPT !.vbk = IF b \in VbkOf(ch) THEN @ ELSE @ \cup {b}] PROVE SameButTemp(n, m)
    <3>1. n \in PoolRecords /\ n.blocks = m.blocks /\ n.atvs = m.atvs /\ n.vtbs = m.vtbs
          /\ n.stored = m.stored /\ n.flight = m.flight
      <4> DEFINE v == IF b \in VbkOf(ch) THEN m.vbk ELSE m.vbk \cup {b}
      <4>1. v \in BlockSets
        BY <1>2, PoolFacts DEF BlockSets
      <4>2. n = WithVbk(m, v)
        BY <2>1 DEF WithVbk
      <4> HIDE DEF v
      <4> QED
        BY <4>1, <4>2, PoolFacts, WithVbkFacts
    <3>2. n \in PoolStates
      BY <3>1, PoolFacts, IsPoolState
    <3> QED
      BY <3>1, <3>2 DEF SameButTemp
  <2>2. SameButTemp(acceptVbkBlock(m, ch, b), m)
    BY <2>1 DEF acceptVbkBlock
  <2>3. SameButTemp(m, m)
    BY DEF SameButTemp
  <2> QED
    BY <2>2, <2>3
<1> HIDE DEF withBlock
<1>5. ASSUME NEW n, n = [withBlock EXCEPT !.btc = @ \cup brought] PROVE SameButTemp(n, m)
  <2>1. withBlock \in PoolStates
    BY <1>4 DEF SameButTemp
  <2>2. n \in PoolRecords /\ n.blocks = withBlock.blocks /\ n.atvs = withBlock.atvs /\ n.vtbs = withBlock.vtbs
        /\ n.stored = withBlock.stored /\ n.flight = withBlock.flight
    <3> DEFINE v == withBlock.btc \cup brought
    <3>1. v \in BtcSets
      BY <1>3, <2>1, PoolFacts DEF BtcSets
    <3>2. n = WithBtc(withBlock, v)
      BY <1>5 DEF WithBtc
    <3> HIDE DEF v
    <3> QED
      BY <2>1, <3>1, <3>2, PoolFacts, WithBtcFacts
  <2>3. n \in PoolStates
    BY <2>1, <2>2, PoolFacts, IsPoolState
  <2> QED
    BY <2>2, <2>3, <1>4 DEF SameButTemp
<1>6. SameButTemp(after, m)
  BY <1>4, <1>5
<1> HIDE DEF after
<1> QED
  BY <1>1, <1>6

\* A change of what is in flight.
LEMMA FlightChanged ==
    ASSUME NEW m \in PoolStates, NEW k \in Kinds, NEW f \in Flights(Payloads[k]),
           NEW e, e = [m.flight EXCEPT ![k] = f], NEW n, n = WithFlight(m, e)
    PROVE  /\ n \in PoolStates
           /\ n.blocks = m.blocks /\ n.atvs = m.atvs /\ n.vtbs = m.vtbs /\ n.stored = m.stored
           /\ n.flight[k] = f /\ \A j \in Kinds \ {k} : n.flight[j] = m.flight[j]
<1>1. f \in Flights(AllPayloads)
  BY KindFacts, FlightsIn
<1>2. n \in PoolRecords /\ n.blocks = m.blocks /\ n.atvs = m.atvs /\ n.vtbs = m.vtbs /\ n.stored = m.stored
      /\ n.flight = [m.flight EXCEPT ![k] = f]
  <2>1. e \in FlightMaps
    BY <1>1, PoolFacts DEF FlightMaps
  <2>2. m \in PoolRecords
    BY PoolFacts
  <2> QED
    BY <2>1, <2>2, WithFlightFacts
<1>3. n.flight[k] = f /\ \A j \in Kinds \ {k} : n.flight[j] = m.flight[j]
  BY <1>2, PoolFacts
<1>4. \A j \in Kinds : n.flight[j] \in Flights(Payloads[j])
  BY <1>3, PoolFacts
<1> QED
  BY <1>2, <1>3, <1>4, PoolFacts, IsPoolState

-----------------------------------------------------------------------------
(* Submitting a payload.                                                    *)

\* No payload of m is lost in n, with the active chain ch.
Keeps(n, m, ch) ==
    /\ n \in PoolStates
    /\ \A q \in Retained(m) : q \in Retained(n) \/ Droppable(ch, q)

LEMMA RetainedFacts ==
    ASSUME NEW m
    PROVE  \A q : q \in Retained(m) <=> \/ q \in m.blocks \/ q \in Listed(m)
                                        \/ \E k \in Kinds : q \in m.flight[k].map
  BY DEF Retained

LEMMA ListedFacts ==
    ASSUME NEW m
    PROVE  \A q : q \in Listed(m) <=> \E b \in VbkBlocks : q \in m.atvs[b] \/ q \in ToSet(m.vtbs[b])
  BY DEF Listed

LEMMA SameListed ==
    ASSUME NEW m, NEW n, n.atvs = m.atvs, n.vtbs = m.vtbs
    PROVE  Listed(n) = Listed(m)
  BY DEF Listed

LEMMA KeepsTransitive ==
    ASSUME NEW m, NEW n, NEW r, NEW ch, Keeps(n, m, ch), Keeps(r, n, ch)
    PROVE  Keeps(r, m, ch)
  BY DEF Keeps

LEMMA ConnectFacts ==
    ASSUME NEW m \in PoolStates, NEW p \in AllPayloads
    PROVE  /\ Connect(m, p) \in PoolStates
           /\ Connect(m, p).blocks = m.blocks \cup {BlockOf(p)}
           /\ Listed(m) \cup ({p} \ VbkBlocks) \subseteq Listed(Connect(m, p))
           /\ \A k \in Kinds : m.flight[k].map \subseteq Connect(m, p).flight[k].map \cup {p}
<1> DEFINE b == BlockOf(p)
           k == Kind(p)
           blocks == m.blocks \cup {b}
           atvs == [c \in VbkBlocks |-> IF c = b /\ p \in Atvs THEN m.atvs[c] \cup {p} ELSE m.atvs[c]]
           vtbs == [c \in VbkBlocks |-> IF c = b /\ p \in Vtbs /\ ~Contains(m.vtbs[c], p)
                                        THEN Append(m.vtbs[c], p) ELSE m.vtbs[c]]
           stored == m.stored \cup ({p} \ VbkBlocks)
           flight == [j \in Kinds |-> IF j = k THEN erase(m.flight[j], p) ELSE m.flight[j]]
           n == Connect(m, p)
<1>1. b \in VbkBlocks /\ k \in Kinds /\ p \in Payloads[k] /\ (p \in Atvs => b = Containing[p])
  BY PayloadFacts
<1>2. n = WithRelation(m, blocks, atvs, vtbs, stored, flight)
  BY DEF Connect, WithRelation
<1>3. blocks \in BlockSets /\ stored \in StoredSets
  BY <1>1, PoolFacts DEF BlockSets, StoredSets, AllPayloads
<1>4. atvs \in AtvMaps /\ \A c \in VbkBlocks : \A a \in atvs[c] : Containing[a] = c
  <2> HIDE DEF b, k
  <2>1. atvs \in AtvMaps
    BY <1>1, PoolFacts DEF AtvMaps
  <2>2. \A c \in VbkBlocks : \A a \in atvs[c] : a \in m.atvs[c] \/ (c = b /\ a = p /\ p \in Atvs)
    BY <1>1, PoolFacts
  <2> HIDE DEF atvs
  <2> QED
    BY <2>1, <2>2, <1>1, PoolFacts
<1>5. vtbs \in VtbMaps
  <2> HIDE DEF b, k
  <2>1. ASSUME NEW c \in VbkBlocks PROVE vtbs[c] \in Seq(Vtbs)
    <3>1. m.vtbs[c] \in Seq(Vtbs)
      BY PoolFacts
    <3> QED
      BY <3>1, AppendFacts
  <2> QED
    BY <2>1 DEF VtbMaps
<1>6. /\ flight \in FlightMaps
      /\ \A j \in Kinds : flight[j] \in Flights(Payloads[j]) /\ m.flight[j].map \subseteq flight[j].map \cup {p}
  <2> HIDE DEF b, k
  <2>1. ASSUME NEW j \in Kinds
        PROVE  /\ flight[j] \in Flights(Payloads[j]) /\ flight[j] \in Flights(AllPayloads)
               /\ m.flight[j].map \subseteq flight[j].map \cup {p}
    <3>1. m.flight[j] \in Flights(Payloads[j])
      BY PoolFacts
    <3>2. erase(m.flight[j], p) \in Flights(Payloads[j]) /\ erase(m.flight[j], p).map = m.flight[j].map \ {p}
      BY <3>1, EraseFacts
    <3>3. Flights(Payloads[j]) \subseteq Flights(AllPayloads)
      BY KindFacts, FlightsIn
    <3> QED
      BY <3>1, <3>2, <3>3
  <2> QED
    BY <2>1 DEF FlightMaps
<1>7. \A c \in VbkBlocks : m.atvs[c] \subseteq atvs[c] /\ (c = b /\ p \in Atvs => p \in atvs[c])
  OBVIOUS
<1>8. ASSUME NEW c \in VbkBlocks
      PROVE  ToSet(m.vtbs[c]) \subseteq ToSet(vtbs[c]) /\ (c = b /\ p \in Vtbs => p \in ToSet(vtbs[c]))
  <2>1. m.vtbs[c] \in Seq(Vtbs)
    BY PoolFacts
  <2>2. CASE c = b /\ p \in Vtbs /\ ~Contains(m.vtbs[c], p)
    <3>1. vtbs[c] = Append(m.vtbs[c], p)
      BY <2>2
    <3> QED
      BY <2>1, <2>2, <3>1, ToSetAppend
  <2>3. CASE ~(c = b /\ p \in Vtbs /\ ~Contains(m.vtbs[c], p))
    <3>1. vtbs[c] = m.vtbs[c]
      BY <2>3
    <3>2. c = b /\ p \in Vtbs => p \in ToSet(m.vtbs[c])
      BY <2>1, <2>3 DEF Contains, ToSet
    <3> QED
      BY <3>1, <3>2
  <2> QED
    BY <2>2, <2>3
<1> HIDE DEF blocks, atvs, vtbs, stored, flight, n
<1>9. n \in PoolRecords /\ n.blocks = blocks /\ n.atvs = atvs /\ n.vtbs = vtbs /\ n.flight = flight
  <2>1. m \in PoolRecords
    BY PoolFacts
  <2> QED
    BY <2>1, <1>2, <1>3, <1>4, <1>5, <1>6, WithRelationFacts
<1>10. n \in PoolStates
  BY <1>4, <1>6, <1>9, IsPoolState
<1>11. Listed(m) \subseteq Listed(n)
  BY <1>7, <1>8, <1>9, ListedFacts
<1>12. p \in VbkBlocks \/ p \in Listed(n)
  <2>1. p \in VbkBlocks \/ p \in Vtbs \/ p \in Atvs
    BY DEF AllPayloads
  <2> QED
    BY <1>1, <1>7, <1>8, <1>9, <2>1, ListedFacts
<1> QED
  BY <1>6, <1>9, <1>10, <1>11, <1>12 DEF blocks, n

\* A block of the VBK tree may leave the pool.
LEMMA VbkBlockDroppable ==
    ASSUME NEW ch, NEW b \in VbkBlocks, b \in VbkOf(ch)
    PROVE  Droppable(ch, b)
<1>1. b \notin Vtbs /\ b \notin Atvs
  BY MemPoolAssumption
<1> QED
  BY <1>1 DEF Droppable, checkContextually

LEMMA SubmitKeeps ==
    ASSUME NEW m \in PoolStates, NEW ch, NEW p \in AllPayloads
    PROVE  Keeps(submit(m, ch, p), m, ch)
<1> DEFINE r == accept(m, ch, p)
           rp == r.pool
           kd == Kind(p)
           n == submit(m, ch, p)
<1>1. SameButTemp(rp, m)
  BY AcceptFacts
<1>2. rp \in PoolStates /\ \A q : q \in Retained(m) <=> q \in Retained(rp)
  BY <1>1, RetainedFacts, SameListed DEF SameButTemp
<1>3. kd \in Kinds /\ p \in Payloads[kd]
  BY PayloadFacts
<1>4. \A k \in Kinds : rp.flight[k] \in Flights(Payloads[k])
  BY <1>2, PoolFacts
<1>5. CASE ~r.ok
  <2> DEFINE f == insert(rp.flight[kd], p)
  <2>1. n = [rp EXCEPT !.flight[kd] = f]
    BY <1>5 DEF submit
  <2>2. f \in Flights(Payloads[kd]) /\ f.map = rp.flight[kd].map \cup {p}
    BY <1>3, <1>4, InsertFacts
  <2> HIDE DEF f, n, r, rp, kd
  <2>3. /\ n \in PoolStates /\ n.blocks = rp.blocks /\ n.atvs = rp.atvs /\ n.vtbs = rp.vtbs
        /\ n.flight[kd] = f /\ \A j \in Kinds \ {kd} : n.flight[j] = rp.flight[j]
    <3> DEFINE e == [rp.flight EXCEPT ![kd] = f]
    <3>1. n = WithFlight(rp, e)
      BY <2>1 DEF WithFlight
    <3>2. e = [rp.flight EXCEPT ![kd] = f]
      OBVIOUS
    <3> HIDE DEF e
    <3> QED
      BY <1>2, <1>3, <2>2, <3>1, <3>2, FlightChanged
  <2>4. \A q : q \in Retained(rp) => q \in Retained(n)
    BY <1>3, <2>2, <2>3, RetainedFacts, SameListed
  <2> QED
    BY <1>2, <2>3, <2>4 DEF Keeps, n
<1>6. CASE r.ok /\ p \in VbkBlocks \cap VbkOf(ch)
  <2> DEFINE f == erase(rp.flight["context"], p)
  <2>1. n = [rp EXCEPT !.flight["context"] = f]
    BY <1>6 DEF submit
  <2>2. f \in Flights(Payloads["context"]) /\ f.map = rp.flight["context"].map \ {p}
    BY <1>4, EraseFacts, KindFacts
  <2> HIDE DEF f, n, r, rp, kd
  <2>3. /\ n \in PoolStates /\ n.blocks = rp.blocks /\ n.atvs = rp.atvs /\ n.vtbs = rp.vtbs
        /\ n.flight["context"] = f /\ \A j \in Kinds \ {"context"} : n.flight[j] = rp.flight[j]
    <3> DEFINE e == [rp.flight EXCEPT !["context"] = f]
    <3>1. n = WithFlight(rp, e)
      BY <2>1 DEF WithFlight
    <3>2. e = [rp.flight EXCEPT !["context"] = f]
      OBVIOUS
    <3> HIDE DEF e
    <3> QED
      BY <1>2, <2>2, <3>1, <3>2, FlightChanged, KindFacts
  <2>4. \A q : q \in Retained(rp) => q \in Retained(n) \/ q = p
    BY <2>2, <2>3, RetainedFacts, SameListed, KindFacts
  <2>5. Droppable(ch, p)
    BY <1>6, VbkBlockDroppable
  <2> QED
    BY <1>2, <2>3, <2>4, <2>5 DEF Keeps, n
<1>7. CASE r.ok /\ p \notin VbkBlocks \cap VbkOf(ch)
  <2>1. n = Connect(rp, p)
    BY <1>7 DEF submit
  <2> HIDE DEF n, r, rp, kd
  <2>2. /\ n \in PoolStates /\ n.blocks = rp.blocks \cup {BlockOf(p)}
        /\ Listed(rp) \cup ({p} \ VbkBlocks) \subseteq Listed(n)
        /\ \A k \in Kinds : rp.flight[k].map \subseteq n.flight[k].map \cup {p}
    BY <1>2, <2>1, ConnectFacts
  <2>3. p \in n.blocks \/ p \in Listed(n)
    BY <2>2, PayloadFacts
  <2>4. \A q : q \in Retained(rp) => q \in Retained(n)
    BY <2>2, <2>3, RetainedFacts
  <2> QED
    BY <1>2, <2>2, <2>4 DEF Keeps, n
<1>8. r.ok \in BOOLEAN
  BY AcceptFacts
<1> QED
  BY <1>5, <1>6, <1>7, <1>8

LEMMA KeepsReflexive ==
    ASSUME NEW m \in PoolStates, NEW ch
    PROVE  Keeps(m, m, ch)
  BY DEF Keeps

LEMMA ResubmitKeeps ==
    ASSUME NEW m \in PoolStates, NEW ch, NEW s \in Seq(AllPayloads)
    PROVE  Keeps(resubmit(m, ch, s), m, ch)
<1> DEFINE n == Len(s)
           step == [i \in 1..n |-> [c \in PoolStates |-> submit(c, ch, s[i])]]
           u == CHOOSE g : g = [i \in 0..n |-> IF i = 0 THEN m ELSE submit(g[i - 1], ch, s[i])]
<1>1. n \in Nat /\ \A i \in 1..n : s[i] \in AllPayloads /\ i - 1 \in 0..n /\ i \in 0..n /\ i # 0
  OBVIOUS
<1>2. resubmit(m, ch, s) = u[n]
  BY DEF resubmit
<1> HIDE DEF n
<1>3. ASSUME NEW c \in PoolStates, NEW i \in 1..n PROVE submit(c, ch, s[i]) \in PoolStates
  BY <1>1, SubmitKeeps DEF Keeps
<1>4. AreSteps(PoolStates, n, step)
  BY <1>3 DEF AreSteps
<1>5. PICK f \in [0..n -> PoolStates] : f[0] = m /\ \A i \in 1..n : f[i] = step[i][f[i - 1]]
  <2> HIDE DEF step
  <2>1. \E f : IsRun(f, PoolStates, n, m, step)
    BY <1>1, <1>4, Steps
  <2> QED
    BY <2>1 DEF IsRun
<1>6. \A i \in 1..n : f[i] = submit(f[i - 1], ch, s[i])
  BY <1>1, <1>5
<1> HIDE DEF step
<1>7. u = [i \in 0..n |-> IF i = 0 THEN m ELSE submit(u[i - 1], ch, s[i])]
  <2>1. \A i \in 0..n : i = 0 \/ i \in 1..n
    BY <1>1
  <2>2. \A i \in 0..n : f[i] = IF i = 0 THEN m ELSE submit(f[i - 1], ch, s[i])
    BY <2>1, <1>1, <1>5, <1>6
  <2>3. f = [i \in 0..n |-> IF i = 0 THEN m ELSE submit(f[i - 1], ch, s[i])]
    BY <2>2
  <2> QED
    BY <2>3
<1> HIDE DEF u
<1>8. u[n] = f[n]
  <2>1. u[0] = m /\ \A i \in 1..n : u[i] = submit(u[i - 1], ch, s[i])
    BY <1>1, <1>7
  <2>2. Follows(u, f, n)
    BY <2>1, <1>5, <1>6 DEF Follows
  <2> QED
    BY <1>1, <2>2, StepsSame
<1> DEFINE G == {i \in 0..n : Keeps(f[i], m, ch)}
<1>9. 0 \in G
  BY <1>1, <1>5, KeepsReflexive
<1>10. ASSUME NEW i \in 1..n, i - 1 \in G PROVE i \in G
  <2>1. Keeps(f[i], f[i - 1], ch)
    BY <1>1, <1>5, <1>6, SubmitKeeps
  <2> QED
    BY <1>1, <1>10, <2>1, KeepsTransitive
<1>11. n \in G
  <2> HIDE DEF G
  <2>1. \A i \in 0..n : i \in G
    BY <1>1, <1>9, <1>10, UpTo
  <2> QED
    BY <1>1, <2>1
<1> QED
  BY <1>2, <1>8, <1>11

LEMMA TryConnectKeeps ==
    ASSUME NEW m \in PoolStates, NEW ch
    PROVE  Keeps(tryConnectPayloads(m, ch), m, ch)
<1> DEFINE vbks == resubmit(m, ch, m.flight["context"].sorted)
           vtbs == resubmit(vbks, ch, vbks.flight["vtbs"].sorted)
           atvs == resubmit(vtbs, ch, vtbs.flight["atvs"].sorted)
<1>1. ASSUME NEW n \in PoolStates, NEW k \in Kinds PROVE n.flight[k].sorted \in Seq(AllPayloads)
  BY PoolFacts DEF Flights
<1>2. Keeps(vbks, m, ch)
  BY <1>1, KindFacts, ResubmitKeeps
<1>3. Keeps(vtbs, vbks, ch)
  <2> HIDE DEF vbks
  <2>1. vbks \in PoolStates
    BY <1>2 DEF Keeps
  <2> QED
    BY <1>1, <2>1, KindFacts, ResubmitKeeps
<1>4. Keeps(atvs, vtbs, ch)
  <2> HIDE DEF vtbs
  <2>1. vtbs \in PoolStates
    BY <1>3 DEF Keeps
  <2> QED
    BY <1>1, <2>1, KindFacts, ResubmitKeeps
<1>5. tryConnectPayloads(m, ch) = atvs
  BY DEF tryConnectPayloads
<1> HIDE DEF vbks, vtbs, atvs
<1> QED
  BY <1>2, <1>3, <1>4, <1>5, KeepsTransitive

-----------------------------------------------------------------------------
(* Cleaning up.                                                             *)

LEMMA FilteredFacts ==
    ASSUME NEW X, NEW s \in Seq(X), NEW gone
    PROVE  Filtered(s, gone) \in Seq(X) /\ ToSet(s) \ gone \subseteq ToSet(Filtered(s, gone))
<1> DEFINE n == Len(s)
           next(t, x) == IF x \in gone THEN t ELSE Append(t, x)
           step == [i \in 1..n |-> [t \in Seq(X) |-> next(t, s[i])]]
           u == CHOOSE g : g = [i \in 0..n |-> IF i = 0 THEN <<>> ELSE next(g[i - 1], s[i])]
<1>1. n \in Nat /\ \A i \in 1..n : s[i] \in X /\ i - 1 \in 0..n /\ i \in 0..n /\ i # 0
  OBVIOUS
<1>2. Filtered(s, gone) = u[n]
  BY DEF Filtered
<1>3. ASSUME NEW t \in Seq(X), NEW x \in X
      PROVE  /\ next(t, x) \in Seq(X) /\ ToSet(t) \subseteq ToSet(next(t, x))
             /\ x \in gone \/ x \in ToSet(next(t, x))
  BY AppendFacts, ToSetAppend
<1> HIDE DEF n, next
<1>4. AreSteps(Seq(X), n, step)
  BY <1>1, <1>3 DEF AreSteps
<1>5. PICK f \in [0..n -> Seq(X)] : f[0] = <<>> /\ \A i \in 1..n : f[i] = step[i][f[i - 1]]
  <2> HIDE DEF step
  <2>1. <<>> \in Seq(X)
    OBVIOUS
  <2>2. \E f : IsRun(f, Seq(X), n, <<>>, step)
    BY <1>1, <1>4, <2>1, Steps
  <2> QED
    BY <2>2 DEF IsRun
<1>6. \A i \in 1..n : f[i] = next(f[i - 1], s[i])
  BY <1>1, <1>5
<1> HIDE DEF step
<1>7. u = [i \in 0..n |-> IF i = 0 THEN <<>> ELSE next(u[i - 1], s[i])]
  <2>1. \A i \in 0..n : i = 0 \/ i \in 1..n
    BY <1>1
  <2>2. \A i \in 0..n : f[i] = IF i = 0 THEN <<>> ELSE next(f[i - 1], s[i])
    BY <2>1, <1>1, <1>5, <1>6
  <2>3. f = [i \in 0..n |-> IF i = 0 THEN <<>> ELSE next(f[i - 1], s[i])]
    BY <2>2
  <2> QED
    BY <2>3
<1> HIDE DEF u
<1>8. u[n] = f[n]
  <2>1. u[0] = <<>> /\ \A i \in 1..n : u[i] = next(u[i - 1], s[i])
    BY <1>1, <1>7
  <2>2. Follows(u, f, n)
    BY <2>1, <1>5, <1>6 DEF Follows
  <2> QED
    BY <1>1, <2>2, StepsSame
<1> DEFINE G == {i \in 0..n : \A j \in 1..i : s[j] \in gone \/ s[j] \in ToSet(f[i])}
<1>9. 0 \in G
  <2>1. 1..0 = {}
    OBVIOUS
  <2> QED
    BY <1>1, <2>1
<1>10. ASSUME NEW i \in 1..n, i - 1 \in G PROVE i \in G
  <2>1. /\ ToSet(f[i - 1]) \subseteq ToSet(f[i])
        /\ s[i] \in gone \/ s[i] \in ToSet(f[i])
    BY <1>1, <1>3, <1>5, <1>6
  <2>2. \A j \in 1..i : j \in 1..(i - 1) \/ j = i
    BY <1>1
  <2> QED
    BY <1>1, <1>10, <2>1, <2>2
<1>11. n \in G
  <2> HIDE DEF G
  <2>1. \A i \in 0..n : i \in G
    BY <1>1, <1>9, <1>10, UpTo
  <2> QED
    BY <1>1, <2>1
<1>12. f[n] \in Seq(X)
  BY <1>1, <1>5
<1>13. ToSet(s) = {s[j] : j \in 1..n}
  BY DEF ToSet, n
<1> QED
  BY <1>2, <1>8, <1>11, <1>12, <1>13

LEMMA WithoutPayloadsFacts ==
    ASSUME NEW m \in PoolStates, NEW gone, NEW n, n = WithoutPayloads(m, gone)
    PROVE  /\ n \in PoolStates
           /\ n.blocks = m.blocks /\ Listed(m) \ gone \subseteq Listed(n) /\ n.flight = m.flight
<1> DEFINE atvs == [b \in VbkBlocks |-> m.atvs[b] \ gone]
           vtbs == [b \in VbkBlocks |-> Filtered(m.vtbs[b], gone)]
           stored == m.stored \ gone
<1>1. n = WithFewer(m, atvs, vtbs, stored)
  BY DEF WithoutPayloads, WithFewer
<1>2. atvs \in AtvMaps /\ stored \in StoredSets
  BY PoolFacts DEF AtvMaps, StoredSets
<1>3. vtbs \in VtbMaps
  <2>1. ASSUME NEW b \in VbkBlocks PROVE Filtered(m.vtbs[b], gone) \in Seq(Vtbs)
    <3>1. m.vtbs[b] \in Seq(Vtbs)
      BY PoolFacts
    <3> QED
      BY <3>1, FilteredFacts
  <2> QED
    BY <2>1 DEF VtbMaps
<1>4. \A b \in VbkBlocks : atvs[b] \subseteq m.atvs[b] /\ m.atvs[b] \ gone \subseteq atvs[b]
  OBVIOUS
<1>5. \A b \in VbkBlocks : ToSet(m.vtbs[b]) \ gone \subseteq ToSet(vtbs[b])
  BY PoolFacts, FilteredFacts
<1> HIDE DEF atvs, vtbs, stored
<1>6. /\ n \in PoolRecords /\ n.blocks = m.blocks /\ n.atvs = atvs /\ n.vtbs = vtbs /\ n.flight = m.flight
  <2>1. m \in PoolRecords
    BY PoolFacts
  <2> QED
    BY <1>1, <1>2, <1>3, <2>1, WithFewerFacts
<1>7. n \in PoolStates
  BY <1>4, <1>6, PoolFacts, IsPoolState
<1>8. Listed(m) \ gone \subseteq Listed(n)
  BY <1>4, <1>5, <1>6, ListedFacts
<1> QED
  BY <1>6, <1>7, <1>8

LEMMA WithoutBlocksFacts ==
    ASSUME NEW m \in PoolStates, NEW gone, NEW n, n = WithoutBlocks(m, gone)
    PROVE  /\ n \in PoolStates
           /\ n.blocks = m.blocks \ gone /\ n.flight = m.flight
           /\ \A q \in Listed(m) :
                q \in Listed(n) \/ \E b \in gone \cap VbkBlocks : q \in m.atvs[b] \cup ToSet(m.vtbs[b])
<1> DEFINE blocks == m.blocks \ gone
           atvs == [b \in VbkBlocks |-> IF b \in gone THEN {} ELSE m.atvs[b]]
           vtbs == [b \in VbkBlocks |-> IF b \in gone THEN <<>> ELSE m.vtbs[b]]
<1>1. n = WithRelations(m, blocks, atvs, vtbs)
  BY DEF WithoutBlocks, WithRelations
<1>2. atvs \in AtvMaps /\ blocks \in BlockSets
  BY PoolFacts DEF AtvMaps, BlockSets
<1>3. vtbs \in VtbMaps
  BY PoolFacts DEF VtbMaps
<1>4. /\ \A b \in VbkBlocks : atvs[b] \subseteq m.atvs[b]
      /\ \A b \in VbkBlocks \ gone : atvs[b] = m.atvs[b] /\ vtbs[b] = m.vtbs[b]
  OBVIOUS
<1> HIDE DEF atvs, vtbs, blocks
<1>5. /\ n \in PoolRecords /\ n.blocks = blocks /\ n.atvs = atvs /\ n.vtbs = vtbs /\ n.flight = m.flight
  <2>1. m \in PoolRecords
    BY PoolFacts
  <2> QED
    BY <1>1, <1>2, <1>3, <2>1, WithRelationsFacts
<1>6. n \in PoolStates
  BY <1>4, <1>5, PoolFacts, IsPoolState
<1>7. ASSUME NEW q \in Listed(m)
      PROVE  q \in Listed(n) \/ \E b \in gone \cap VbkBlocks : q \in m.atvs[b] \cup ToSet(m.vtbs[b])
  <2>1. PICK b \in VbkBlocks : q \in m.atvs[b] \/ q \in ToSet(m.vtbs[b])
    BY ListedFacts
  <2>2. CASE b \notin gone
    BY <1>4, <1>5, <2>1, <2>2, ListedFacts
  <2>3. CASE b \in gone
    BY <2>1, <2>3
  <2> QED
    BY <2>2, <2>3
<1> QED
  BY <1>5, <1>6, <1>7 DEF blocks

LEMMA FinitePayloads ==
    ASSUME NEW k \in Kinds, NEW S, S \subseteq Payloads[k]
    PROVE  IsFiniteSet(S)
<1>1. IsFiniteSet(VbkBlocks)
  BY MemPoolAssumption, FS_Interval DEF VbkBlocks
<1>2. IsFiniteSet(Payloads[k])
  BY <1>1, MemPoolAssumption, KindFacts
<1> QED
  BY <1>2, FS_Subset

\* Payloads and blocks that may leave the pool leave it.
LEMMA WithoutPayloadsKeeps ==
    ASSUME NEW m \in PoolStates, NEW ch, NEW gone, \A p \in gone : Droppable(ch, p)
    PROVE  Keeps(WithoutPayloads(m, gone), m, ch)
<1> DEFINE n == WithoutPayloads(m, gone)
<1>1. n \in PoolStates /\ n.blocks = m.blocks /\ Listed(m) \ gone \subseteq Listed(n) /\ n.flight = m.flight
  BY WithoutPayloadsFacts
<1> HIDE DEF n
<1>2. \A q \in Retained(m) : q \in Retained(n) \/ q \in gone
  BY <1>1, RetainedFacts
<1> QED
  BY <1>1, <1>2 DEF Keeps, n

LEMMA WithoutBlocksKeeps ==
    ASSUME NEW m \in PoolStates, NEW ch, NEW gone, \A b \in gone \cap m.blocks : Droppable(ch, b),
           \A b \in gone \cap VbkBlocks : m.vtbs[b] = <<>> /\ \A a \in m.atvs[b] : Droppable(ch, a)
    PROVE  Keeps(WithoutBlocks(m, gone), m, ch)
<1> DEFINE n == WithoutBlocks(m, gone)
<1>1. /\ n \in PoolStates /\ n.blocks = m.blocks \ gone /\ n.flight = m.flight
      /\ \A q \in Listed(m) :
            q \in Listed(n) \/ \E b \in gone \cap VbkBlocks : q \in m.atvs[b] \cup ToSet(m.vtbs[b])
  BY WithoutBlocksFacts
<1> HIDE DEF n
<1>2. ToSet(<<>>) = {}
  BY DEF ToSet
<1>3. \A q \in Listed(m) : q \in Listed(n) \/ Droppable(ch, q)
  BY <1>1, <1>2
<1>4. \A q \in Retained(m) : q \in Retained(n) \/ q \in gone \cap m.blocks \/ Droppable(ch, q)
  BY <1>1, <1>3, RetainedFacts
<1> QED
  BY <1>1, <1>4 DEF Keeps, n

LEMMA CleanUpKeeps ==
    ASSUME NEW m \in PoolStates, NEW ch, NEW spared
    PROVE  Keeps(cleanUp(m, ch, spared), m, ch)
<1> DEFINE old == {b \in m.blocks : TooOld(ch, b)}
           aged == WithoutPayloads(m, UNION {m.atvs[b] : b \in old} \ spared)
           left == WithoutBlocks(aged, {b \in old : aged.vtbs[b] = <<>>})
           fresh == WithoutPayloads(left, {p \in Listed(left) : ~checkContextually(ch, p)})
           kept == WithoutBlocks(fresh, {b \in fresh.blocks : RelationDone(fresh, ch, b)})
           stale(k) == {p \in m.flight[k].map : ~checkContextually(ch, p)}
           flight == [k \in Kinds |-> EraseAll(m.flight[k], stale(k))]
           n == cleanUp(m, ch, spared)
<1>1. Keeps(aged, m, ch) /\ aged.flight = m.flight
  <2>1. ASSUME NEW p \in UNION {m.atvs[b] : b \in old} \ spared PROVE Droppable(ch, p)
    <3>1. PICK b \in old : p \in m.atvs[b]
      OBVIOUS
    <3>2. b \in VbkBlocks /\ TooOld(ch, b) /\ p \in Atvs /\ Containing[p] = b
      BY <3>1, PoolFacts
    <3>3. BlockOf(p) = b /\ p \notin Vtbs
      BY <3>2, PayloadFacts DEF AllPayloads
    <3> QED
      BY <3>2, <3>3 DEF Droppable
  <2> QED
    BY <2>1, WithoutPayloadsFacts, WithoutPayloadsKeeps
<1>2. Keeps(left, aged, ch) /\ left.flight = m.flight
  <2> HIDE DEF aged
  <2>1. aged \in PoolStates
    BY <1>1 DEF Keeps
  <2>2. ASSUME NEW b \in {c \in old : aged.vtbs[c] = <<>>}
        PROVE  Droppable(ch, b) /\ aged.vtbs[b] = <<>> /\ \A a \in aged.atvs[b] : Droppable(ch, a)
    <3>1. b \in VbkBlocks /\ TooOld(ch, b)
      BY PoolFacts
    <3>2. BlockOf(b) = b /\ b \notin Vtbs
      BY <3>1, PayloadFacts DEF AllPayloads
    <3>3. ASSUME NEW a \in aged.atvs[b] PROVE Droppable(ch, a)
      <4>1. a \in Atvs /\ Containing[a] = b
        BY <2>1, <3>1, PoolFacts
      <4>2. BlockOf(a) = b /\ a \notin Vtbs
        BY <4>1, PayloadFacts DEF AllPayloads
      <4> QED
        BY <3>1, <4>2 DEF Droppable
    <3> QED
      BY <3>1, <3>2, <3>3 DEF Droppable
  <2> QED
    BY <1>1, <2>1, <2>2, WithoutBlocksFacts, WithoutBlocksKeeps
<1>3. Keeps(fresh, left, ch) /\ fresh.flight = m.flight
  <2> HIDE DEF left
  <2>1. left \in PoolStates
    BY <1>2 DEF Keeps
  <2>2. \A p \in {q \in Listed(left) : ~checkContextually(ch, q)} : Droppable(ch, p)
    BY DEF Droppable
  <2> QED
    BY <1>2, <2>1, <2>2, WithoutPayloadsFacts, WithoutPayloadsKeeps
<1>4. Keeps(kept, fresh, ch) /\ kept.flight = m.flight
  <2> HIDE DEF fresh
  <2>1. fresh \in PoolStates
    BY <1>3 DEF Keeps
  <2>2. ASSUME NEW b \in {c \in fresh.blocks : RelationDone(fresh, ch, c)}
        PROVE  Droppable(ch, b) /\ fresh.vtbs[b] = <<>> /\ \A a \in fresh.atvs[b] : Droppable(ch, a)
    <3>1. b \in VbkBlocks /\ b \in VbkOf(ch) /\ fresh.vtbs[b] = <<>> /\ fresh.atvs[b] = {}
      BY <2>1, PoolFacts DEF RelationDone
    <3> QED
      BY <3>1, VbkBlockDroppable
  <2> QED
    BY <1>3, <2>1, <2>2, WithoutBlocksFacts, WithoutBlocksKeeps
<1>5. Keeps(kept, m, ch)
  <2> HIDE DEF aged, left, fresh, kept
  <2>1. Keeps(left, m, ch)
    BY <1>1, <1>2, KeepsTransitive
  <2>2. Keeps(fresh, m, ch)
    BY <1>3, <2>1, KeepsTransitive
  <2> QED
    BY <1>4, <2>2, KeepsTransitive
<1>6. ASSUME NEW k \in Kinds
      PROVE  /\ flight[k] \in Flights(Payloads[k]) /\ flight[k] \in Flights(AllPayloads)
             /\ flight[k].map = m.flight[k].map \ stale(k)
  <2>1. m.flight[k] \in Flights(Payloads[k])
    BY PoolFacts
  <2>2. stale(k) \subseteq m.flight[k].map /\ stale(k) \subseteq Payloads[k]
    BY <2>1 DEF Flights
  <2>3. IsFiniteSet(stale(k))
    BY <2>2, FinitePayloads
  <2> HIDE DEF stale
  <2>4. /\ EraseAll(m.flight[k], stale(k)) \in Flights(Payloads[k])
        /\ EraseAll(m.flight[k], stale(k)).map = m.flight[k].map \ stale(k)
    BY <2>1, <2>2, <2>3, EraseAllFacts
  <2>5. Flights(Payloads[k]) \subseteq Flights(AllPayloads)
    BY KindFacts, FlightsIn
  <2> QED
    BY <2>4, <2>5
<1>7. n = WithTemp(kept, flight, kept.vbk \ VbkOf(ch), kept.btc \ BtcOf(ch, MaxVbkHeight))
  <2>1. n = [kept EXCEPT !.flight = [k \in Kinds |-> EraseAll(kept.flight[k], stale(k))],
                         !.vbk = kept.vbk \ VbkOf(ch), !.btc = kept.btc \ BtcOf(ch, MaxVbkHeight)]
    BY DEF cleanUp
  <2> HIDE DEF kept, n, stale
  <2>2. [k \in Kinds |-> EraseAll(kept.flight[k], stale(k))] = flight
    BY <1>4
  <2> QED
    BY <2>1, <2>2 DEF WithTemp
<1> HIDE DEF aged, left, fresh, kept, flight, n
<1>8. kept \in PoolStates /\ kept \in PoolRecords
  BY <1>5, PoolFacts DEF Keeps
<1>9. flight \in FlightMaps
  <2>1. flight = [k \in Kinds |-> flight[k]]
    BY DEF flight
  <2> QED
    BY <2>1, <1>6 DEF FlightMaps
<1>10. kept.vbk \ VbkOf(ch) \in BlockSets /\ kept.btc \ BtcOf(ch, MaxVbkHeight) \in BtcSets
  BY <1>8, PoolFacts DEF BlockSets, BtcSets
<1>11. n \in PoolRecords /\ n.blocks = kept.blocks /\ n.atvs = kept.atvs /\ n.vtbs = kept.vtbs /\ n.flight = flight
  BY <1>7, <1>8, <1>9, <1>10, WithTempFacts
<1>12. n \in PoolStates
  BY <1>6, <1>8, <1>11, PoolFacts, IsPoolState
<1>13. Keeps(n, kept, ch)
  <2>1. \A k \in Kinds : \A q \in kept.flight[k].map : q \in n.flight[k].map \/ ~checkContextually(ch, q)
    BY <1>4, <1>6, <1>11
  <2>2. \A q \in Retained(kept) : q \in Retained(n) \/ ~checkContextually(ch, q)
    BY <2>1, <1>11, RetainedFacts, SameListed
  <2> QED
    BY <2>2, <1>12 DEF Keeps, Droppable
<1> QED
  BY <1>5, <1>13, KeepsTransitive DEF n

-----------------------------------------------------------------------------
(* removeAll.                                                               *)

\* What the last body of a chain has is in the stable trees.
LEMMA LastBody ==
    ASSUME NEW ch \in Seq(Pops), NEW pop \in Pops, NEW k \in Kinds
    PROVE  /\ ToSet(pop[k]) \subseteq PayloadsOf(Append(ch, pop), k)
           /\ PayloadsOf(ch, k) \subseteq PayloadsOf(Append(ch, pop), k)
<1>1. /\ Len(ch) \in Nat /\ Len(Append(ch, pop)) = Len(ch) + 1 /\ Append(ch, pop)[Len(ch) + 1] = pop
      /\ \A i \in 1..Len(ch) : Append(ch, pop)[i] = ch[i]
  BY AppendFacts
<1>2. Len(ch) + 1 \in 1..Len(Append(ch, pop)) /\ \A i \in 1..Len(ch) : i \in 1..Len(Append(ch, pop))
  BY <1>1
<1>3. ASSUME NEW x \in ToSet(pop[k]) PROVE x \in PayloadsOf(Append(ch, pop), k)
  BY <1>1, <1>2 DEF PayloadsOf
<1>4. ASSUME NEW x \in PayloadsOf(ch, k) PROVE x \in PayloadsOf(Append(ch, pop), k)
  <2>1. PICK i \in 1..Len(ch) : x \in ToSet(ch[i][k])
    BY DEF PayloadsOf
  <2> QED
    BY <1>1, <1>2, <2>1 DEF PayloadsOf
<1> QED
  BY <1>3, <1>4

LEMMA InChainDroppable ==
    ASSUME NEW ch \in Seq(Pops), NEW pop \in Pops, NEW p \in Vtbs \cup Atvs, p \in ToSet(pop[Kind(p)])
    PROVE  Droppable(Append(ch, pop), p)
<1> DEFINE c == Append(ch, pop)
<1>1. /\ p \in Vtbs => p \notin VbkBlocks \cup Atvs /\ Kind(p) = "vtbs"
      /\ p \in Atvs => p \notin VbkBlocks \cup Vtbs /\ Kind(p) = "atvs"
  BY PayloadFacts DEF AllPayloads
<1>2. CASE p \in Vtbs
  <2>1. p \in PayloadsOf(c, "vtbs")
    BY <1>1, <1>2, LastBody, KindFacts
  <2> HIDE DEF c
  <2> QED
    BY <1>1, <1>2, <2>1 DEF Droppable, checkContextually, c
<1>3. CASE p \in Atvs
  <2>1. Len(ch) \in Nat /\ Len(c) = Len(ch) + 1 /\ c[Len(ch) + 1] = pop
    BY AppendFacts
  <2>2. AltSettlementInterval \in Nat /\ AltSettlementInterval # 0
    BY MemPoolAssumption
  <2> HIDE DEF c
  <2>3. Len(c) \in 1..Len(c) /\ Len(c) > Len(c) - AltSettlementInterval
    BY <2>1, <2>2
  <2>4. p \in ToSet(c[Len(c)]["atvs"])
    BY <1>1, <1>3, <2>1
  <2>5. ~(\A i \in 1..Len(c) : i > Len(c) - AltSettlementInterval => p \notin ToSet(c[i]["atvs"]))
    BY <2>3, <2>4
  <2>6. ~checkContextually(c, p)
    BY <1>1, <1>3, <2>5 DEF checkContextually
  <2> QED
    BY <2>6 DEF Droppable, c
<1> QED
  BY <1>2, <1>3

LEMMA WithoutKeeps ==
    ASSUME NEW m \in PoolStates, NEW ch \in Seq(Pops), NEW pop \in Pops
    PROVE  Keeps(Without(m, pop), m, Append(ch, pop))
<1> DEFINE gone == {p \in Listed(m) : p \in ToSet(pop[Kind(p)])}
           left == WithoutPayloads(m, gone)
           done == {b \in ToSet(pop["context"]) : left.atvs[b] = {} /\ left.vtbs[b] = <<>>}
<1>1. Keeps(left, m, Append(ch, pop))
  <2>1. ASSUME NEW p \in gone PROVE Droppable(Append(ch, pop), p)
    <3>1. PICK b \in VbkBlocks : p \in m.atvs[b] \cup ToSet(m.vtbs[b])
      BY DEF Listed
    <3>2. m.atvs[b] \subseteq Atvs /\ m.vtbs[b] \in Seq(Vtbs)
      BY PoolFacts
    <3>3. p \in Vtbs \cup Atvs
      BY <3>1, <3>2 DEF ToSet
    <3> QED
      BY <3>3, InChainDroppable
  <2> QED
    BY <2>1, WithoutPayloadsKeeps
<1> HIDE DEF left
<1>2. left \in PoolStates
  BY <1>1 DEF Keeps
<1>3. Keeps(WithoutBlocks(left, done), left, Append(ch, pop))
  <2>1. ASSUME NEW b \in done \cap left.blocks PROVE Droppable(Append(ch, pop), b)
    <3>1. b \in VbkBlocks
      BY <1>2, PoolFacts
    <3>2. b \in PayloadsOf(Append(ch, pop), "context")
      BY LastBody, KindFacts
    <3> QED
      BY <3>1, <3>2, VbkBlockDroppable DEF VbkOf
  <2>2. \A b \in done : left.vtbs[b] = <<>> /\ left.atvs[b] = {}
    OBVIOUS
  <2> HIDE DEF done
  <2> QED
    BY <1>2, <2>1, <2>2, WithoutBlocksKeeps
<1>4. Without(m, pop) = WithoutBlocks(left, done)
  BY DEF Without, left
<1> HIDE DEF done
<1> QED
  BY <1>1, <1>3, <1>4, KeepsTransitive

-----------------------------------------------------------------------------
(* The candidates.                                                          *)

LEMMA ConcatFacts ==
    ASSUME NEW X, NEW s \in Seq(X), NEW t \in Seq(X)
    PROVE  s \o t \in Seq(X) /\ ToSet(s \o t) = ToSet(s) \cup ToSet(t)
<1>1. /\ s \o t \in Seq(X) /\ Len(s \o t) = Len(s) + Len(t) /\ Len(s) \in Nat /\ Len(t) \in Nat
      /\ \A i \in 1..Len(s) + Len(t) : (s \o t)[i] = IF i <= Len(s) THEN s[i] ELSE t[i - Len(s)]
  OBVIOUS
<1>2. DOMAIN (s \o t) = 1..Len(s) + Len(t) /\ DOMAIN s = 1..Len(s) /\ DOMAIN t = 1..Len(t)
  BY <1>1
<1>3. ASSUME NEW x \in ToSet(s \o t) PROVE x \in ToSet(s) \cup ToSet(t)
  <2>1. PICK i \in 1..Len(s) + Len(t) : x = (s \o t)[i]
    BY <1>2 DEF ToSet
  <2>2. i <= Len(s) => i \in 1..Len(s)
    BY <1>1
  <2>3. ~(i <= Len(s)) => i - Len(s) \in 1..Len(t)
    BY <1>1
  <2> QED
    BY <1>1, <1>2, <2>1, <2>2, <2>3 DEF ToSet
<1>4. ASSUME NEW x \in ToSet(s) PROVE x \in ToSet(s \o t)
  <2>1. PICK i \in 1..Len(s) : x = s[i]
    BY <1>2 DEF ToSet
  <2>2. i \in 1..Len(s) + Len(t) /\ i <= Len(s)
    BY <1>1
  <2> QED
    BY <1>1, <1>2, <2>1, <2>2 DEF ToSet
<1>5. ASSUME NEW x \in ToSet(t) PROVE x \in ToSet(s \o t)
  <2>1. PICK i \in 1..Len(t) : x = t[i]
    BY <1>2 DEF ToSet
  <2>2. i + Len(s) \in 1..Len(s) + Len(t) /\ ~(i + Len(s) <= Len(s)) /\ (i + Len(s)) - Len(s) = i
    BY <1>1
  <2> QED
    BY <1>1, <1>2, <2>1, <2>2 DEF ToSet
<1> QED
  BY <1>1, <1>3, <1>4, <1>5

\* An order of the ATVs of a block has each of them.
LEMMA OrderFacts ==
    ASSUME NEW m \in PoolStates, NEW o \in Orders(m), NEW b \in VbkBlocks
    PROVE  o[b] \in Seq(Atvs) /\ ToSet(o[b]) = m.atvs[b]
<1> DEFINE S == m.atvs[b]
           n == Cardinality(S)
<1>1. S \subseteq Atvs /\ IsFiniteSet(S)
  BY PoolFacts, FinitePayloads, KindFacts
<1>2. o[b] \in SetToSeqs(S)
  BY DEF Orders, ByFee
<1> HIDE DEF S
<1>3. n \in Nat /\ IsFiniteSet(1..n) /\ Cardinality(1..n) = n
  BY <1>1, FS_CardinalityType, FS_Interval
<1>4. o[b] \in [1..n -> S] /\ \A i, j \in 1..n : i # j => o[b][i] # o[b][j]
  BY <1>2 DEF SetToSeqs
<1>5. o[b] \in Injection(1..n, S)
  BY <1>4 DEF Injection, IsInjective
<1>6. o[b] \in Surjection(1..n, S)
  BY <1>1, <1>3, <1>5, FS_Injection
<1>7. ToSet(o[b]) = S
  BY <1>4, <1>6 DEF ToSet, Surjection
<1>8. o[b] \in Seq(Atvs)
  BY <1>1, <1>3, <1>4
<1> QED
  BY <1>7, <1>8 DEF S

Ascending(s) == \A i, j \in 1..Len(s) : i < j => s[i] < s[j]

\* A step of the loop of Candidates.
WithBlockAt(c, m, o, h) ==
    IF h \notin m.blocks THEN c
    ELSE [c EXCEPT !["context"] = Append(@, h), !["vtbs"] = @ \o m.vtbs[h], !["atvs"] = @ \o o[h]]

LEMMA WithBlockAtFacts ==
    ASSUME NEW m \in PoolStates, NEW o \in Orders(m), NEW h \in m.blocks, NEW c \in Pops,
           NEW d, d = WithBlockAt(c, m, o, h)
    PROVE  /\ d \in Pops
           /\ d["context"] = Append(c["context"], h) /\ d["atvs"] = c["atvs"] \o o[h]
<1>1. /\ c \in [Kinds -> Seq(AllPayloads)]
      /\ c["context"] \in Seq(VbkBlocks) /\ c["vtbs"] \in Seq(Vtbs) /\ c["atvs"] \in Seq(Atvs)
  BY PopFacts
<1>2. h \in VbkBlocks /\ m.vtbs[h] \in Seq(Vtbs) /\ o[h] \in Seq(Atvs)
  BY PoolFacts, OrderFacts
<1> DEFINE x == Append(c["context"], h)
           y == c["vtbs"] \o m.vtbs[h]
           z == c["atvs"] \o o[h]
<1>3. x \in Seq(VbkBlocks) /\ y \in Seq(Vtbs) /\ z \in Seq(Atvs)
  BY <1>1, <1>2, AppendFacts, ConcatFacts
<1>4. d = [c EXCEPT !["context"] = x, !["vtbs"] = y, !["atvs"] = z]
  BY DEF WithBlockAt
<1> HIDE DEF x, y, z
<1>5. d["context"] = x /\ d["vtbs"] = y /\ d["atvs"] = z /\ d = [k \in Kinds |-> d[k]]
  BY <1>1, <1>4, KindFacts
<1>6. ASSUME NEW k \in Kinds PROVE d[k] \in Seq(Payloads[k])
  BY <1>3, <1>5, KindFacts
<1>7. ASSUME NEW k \in Kinds PROVE d[k] \in Seq(AllPayloads)
  <2>1. Payloads[k] \subseteq AllPayloads
    BY KindFacts
  <2> QED
    BY <2>1, <1>6, SeqIn
<1>8. d \in [Kinds -> Seq(AllPayloads)]
  BY <1>5, <1>7
<1> QED
  BY <1>5, <1>6, <1>8, IsPop DEF x, z

\* The candidates collected from the blocks up to height h.
Collected(c, m, h) ==
    /\ ToSet(c["context"]) = m.blocks \cap (1..h)
    /\ Ascending(c["context"])
    /\ \A b \in m.blocks \cap (1..h) : m.atvs[b] \subseteq ToSet(c["atvs"])

LEMMA CollectedStep ==
    ASSUME NEW m \in PoolStates, NEW o \in Orders(m), NEW h \in 1..MaxVbkHeight, NEW c \in Pops,
           Collected(c, m, h - 1)
    PROVE  WithBlockAt(c, m, o, h) \in Pops /\ Collected(WithBlockAt(c, m, o, h), m, h)
<1>1. m.blocks \subseteq VbkBlocks /\ MaxVbkHeight \in Nat
  BY PoolFacts, MemPoolAssumption
<1>2. 1..h = (1..(h - 1)) \cup {h} /\ h \notin 1..(h - 1)
  BY <1>1
<1>3. CASE h \notin m.blocks
  <2>1. WithBlockAt(c, m, o, h) = c
    BY <1>3 DEF WithBlockAt
  <2>2. m.blocks \cap (1..h) = m.blocks \cap (1..(h - 1))
    BY <1>2, <1>3
  <2> QED
    BY <2>1, <2>2 DEF Collected
<1>4. CASE h \in m.blocks
  <2> DEFINE d == WithBlockAt(c, m, o, h)
             s == c["context"]
  <2>1. d \in Pops /\ d["context"] = Append(s, h) /\ d["atvs"] = c["atvs"] \o o[h]
    BY <1>4, WithBlockAtFacts
  <2>2. s \in Seq(VbkBlocks) /\ c["atvs"] \in Seq(Atvs) /\ h \in VbkBlocks
    BY <1>1, <1>4, PopFacts
  <2>3. o[h] \in Seq(Atvs) /\ ToSet(o[h]) = m.atvs[h]
    BY <2>2, OrderFacts
  <2> HIDE DEF d, s
  <2>4. ToSet(d["context"]) = ToSet(s) \cup {h} /\ ToSet(d["atvs"]) = ToSet(c["atvs"]) \cup m.atvs[h]
    BY <2>1, <2>2, <2>3, ToSetAppend, ConcatFacts
  <2>5. m.blocks \cap (1..h) = (m.blocks \cap (1..(h - 1))) \cup {h}
    BY <1>2, <1>4
  <2>6. ToSet(d["context"]) = m.blocks \cap (1..h)
    BY <2>4, <2>5 DEF Collected, s
  <2>7. Ascending(d["context"])
    <3>1. /\ Len(s) \in Nat /\ Len(d["context"]) = Len(s) + 1 /\ d["context"][Len(s) + 1] = h
          /\ \A i \in 1..Len(s) : d["context"][i] = s[i]
      BY <2>1, <2>2, AppendFacts
    <3>2. \A i \in 1..Len(s) : s[i] \in ToSet(s) /\ s[i] \in Int
      BY <2>2, <1>1 DEF ToSet, VbkBlocks
    <3>3. \A i \in 1..Len(s) : s[i] < h
      <4>1. \A x \in 1..(h - 1) : x < h
        BY <1>1
      <4>2. ToSet(s) \subseteq 1..(h - 1)
        BY DEF Collected, s
      <4> QED
        BY <4>1, <4>2, <3>2
    <3>4. \A i, j \in 1..Len(s) : i < j => s[i] < s[j]
      BY DEF Collected, Ascending, s
    <3>5. ASSUME NEW i \in 1..Len(d["context"]), NEW j \in 1..Len(d["context"]), i < j
          PROVE  d["context"][i] < d["context"][j]
      <4>1. i \in 1..Len(s)
        BY <3>1, <3>5
      <4>2. CASE j = Len(s) + 1
        BY <4>1, <4>2, <3>1, <3>3
      <4>3. CASE j # Len(s) + 1
        <5>1. j \in 1..Len(s)
          BY <4>3, <3>1
        <5> QED
          BY <4>1, <5>1, <3>1, <3>4, <3>5
      <4> QED
        BY <4>2, <4>3
    <3> QED
      BY <3>5 DEF Ascending
  <2>8. \A b \in m.blocks \cap (1..h) : m.atvs[b] \subseteq ToSet(d["atvs"])
    BY <2>4, <2>5 DEF Collected
  <2> QED
    BY <2>1, <2>6, <2>7, <2>8 DEF Collected, d
<1> QED
  BY <1>3, <1>4

\* generatePopData tries each VBK block of the pool, in ascending order, and
\* each of their ATVs.
LEMMA CandidatesFacts ==
    ASSUME NEW m \in PoolStates, NEW o \in Orders(m)
    PROVE  /\ Candidates(m, o) \in Pops
           /\ ToSet(Candidates(m, o)["context"]) = m.blocks
           /\ Ascending(Candidates(m, o)["context"])
           /\ \A b \in m.blocks : m.atvs[b] \subseteq ToSet(Candidates(m, o)["atvs"])
<1> DEFINE n == MaxVbkHeight
           next(c, h) == WithBlockAt(c, m, o, h)
           step == [h \in 1..n |-> [c \in Pops |-> next(c, h)]]
           u == CHOOSE g : g = [h \in 0..n |-> IF h = 0 THEN NoPop ELSE next(g[h - 1], h)]
<1>1. n \in Nat /\ \A i \in 1..n : i - 1 \in 0..n /\ i \in 0..n /\ i # 0
  BY MemPoolAssumption
<1>2. Candidates(m, o) = u[n]
  <2> DEFINE v == CHOOSE g : g = [h \in 0..n |->
                    IF h = 0 THEN NoPop
                    ELSE IF h \notin m.blocks THEN g[h - 1]
                    ELSE [g[h - 1] EXCEPT !["context"] = Append(@, h), !["vtbs"] = @ \o m.vtbs[h],
                                          !["atvs"] = @ \o o[h]]]
  <2>1. Candidates(m, o) = v[n]
    BY DEF Candidates
  <2>2. v = u
    BY DEF WithBlockAt
  <2> QED
    BY <2>1, <2>2
<1> HIDE DEF next, n
<1>3. ASSUME NEW h \in 1..n, NEW c \in Pops PROVE next(c, h) \in Pops
  <2>1. CASE h \in m.blocks
    BY <2>1, WithBlockAtFacts DEF next
  <2>2. CASE h \notin m.blocks
    BY <2>2 DEF next, WithBlockAt
  <2> QED
    BY <2>1, <2>2
<1>4. AreSteps(Pops, n, step)
  BY <1>3 DEF AreSteps
<1>5. PICK f \in [0..n -> Pops] : f[0] = NoPop /\ \A i \in 1..n : f[i] = step[i][f[i - 1]]
  <2> HIDE DEF step
  <2>1. \E f : IsRun(f, Pops, n, NoPop, step)
    BY <1>1, <1>4, NoPopFacts, Steps
  <2> QED
    BY <2>1 DEF IsRun
<1>6. \A i \in 1..n : f[i] = next(f[i - 1], i)
  BY <1>1, <1>5
<1> HIDE DEF step
<1>7. u = [h \in 0..n |-> IF h = 0 THEN NoPop ELSE next(u[h - 1], h)]
  <2>1. \A i \in 0..n : i = 0 \/ i \in 1..n
    BY <1>1
  <2>2. \A i \in 0..n : f[i] = IF i = 0 THEN NoPop ELSE next(f[i - 1], i)
    BY <2>1, <1>1, <1>5, <1>6
  <2>3. f = [i \in 0..n |-> IF i = 0 THEN NoPop ELSE next(f[i - 1], i)]
    BY <2>2
  <2> QED
    BY <2>3
<1> HIDE DEF u
<1>8. u[n] = f[n]
  <2>1. u[0] = NoPop /\ \A i \in 1..n : u[i] = next(u[i - 1], i)
    BY <1>1, <1>7
  <2>2. Follows(u, f, n)
    BY <2>1, <1>5, <1>6 DEF Follows
  <2> QED
    BY <1>1, <2>2, StepsSame
<1> DEFINE G == {i \in 0..n : Collected(f[i], m, i)}
<1>9. 0 \in G
  <2>1. NoPop["context"] = <<>>
    BY NoPopFacts, KindFacts
  <2>2. 1..0 = {}
    OBVIOUS
  <2>3. ToSet(NoPop["context"]) = {} /\ Ascending(NoPop["context"])
    BY <2>1 DEF ToSet, Ascending
  <2> QED
    BY <1>1, <1>5, <2>2, <2>3 DEF Collected
<1>10. ASSUME NEW i \in 1..n, i - 1 \in G PROVE i \in G
  BY <1>1, <1>5, <1>6, <1>10, CollectedStep DEF next, n
<1>11. n \in G
  <2> HIDE DEF G
  <2>1. \A i \in 0..n : i \in G
    BY <1>1, <1>9, <1>10, UpTo
  <2> QED
    BY <1>1, <2>1
<1>12. m.blocks \cap (1..n) = m.blocks
  BY PoolFacts DEF n, VbkBlocks
<1>13. Collected(f[n], m, n) /\ f[n] \in Pops
  BY <1>1, <1>5, <1>11
<1> QED
  BY <1>2, <1>8, <1>12, <1>13 DEF Collected

-----------------------------------------------------------------------------
(* The invariant.                                                           *)

\* What every reachable state has: bodies of payloads of their kind, a pool
\* whose relations hold the ATVs of their blocks, and a generated body that
\* applies to the tip it was generated for, if no count needs two bytes.
PoolInv ==
    /\ chain \in Seq(Pops)
    /\ pool \in PoolStates
    /\ generated \in Pops /\ (ShortLimits => Applies(chain, generated))

LEMMA PoolInitial == PoolInit => PoolInv
<1> SUFFICES ASSUME PoolInit PROVE PoolInv
  OBVIOUS
<1>1. chain \in Seq(Pops)
  BY DEF PoolInit
<1>2. Applies(chain, NoPop)
  BY NoPopApplies, KindFacts DEF AppliesUpTo
<1> QED
  BY <1>1, <1>2, NoPopFacts, EmptyPoolFacts DEF PoolInit, PoolInv

LEMMA SubmitStep ==
    ASSUME PoolInv, NEW p \in AllPayloads, Submit(p)
    PROVE  PoolInv' /\ Keeps(pool', pool, chain')
<1>1. pool \in PoolStates /\ pool' = submit(pool, chain, p) /\ chain' = chain /\ generated' = generated
  BY DEF PoolInv, Submit
<1>2. Keeps(pool', pool, chain')
  BY <1>1, SubmitKeeps
<1>3. pool' \in PoolStates
  BY <1>2 DEF Keeps
<1> QED
  BY <1>1, <1>2, <1>3 DEF PoolInv

LEMMA GenerateStep ==
    ASSUME PoolInv, GeneratePopData
    PROVE  PoolInv' /\ Keeps(pool', pool, chain')
<1> DEFINE m == tryConnectPayloads(pool, chain)
<1>1. Keeps(m, pool, chain) /\ m \in PoolStates
  BY TryConnectKeeps DEF PoolInv, Keeps
<1>2. PICK o \in Orders(m) : generated' = filterInvalidPayloads(chain, Candidates(m, o))
  BY DEF GeneratePopData, PopDataOf
<1>3. PICK s \in Spared(m, chain) : pool' = cleanUp(m, chain, s)
  BY DEF GeneratePopData
<1>4. chain' = chain
  BY DEF GeneratePopData
<1> HIDE DEF m
<1>5. Keeps(pool', m, chain)
  BY <1>1, <1>3, CleanUpKeeps
<1>6. Keeps(pool', pool, chain)
  BY <1>1, <1>5, KeepsTransitive
<1>7. Candidates(m, o) \in Pops
  BY <1>1, CandidatesFacts
<1>8. generated' \in Pops /\ (ShortLimits => Applies(chain, generated'))
  BY <1>2, <1>7, FilteredPopType, FilteredPopApplies
<1>9. pool' \in PoolStates
  BY <1>6 DEF Keeps
<1>10. PoolInv'
  BY <1>4, <1>8, <1>9 DEF PoolInv
<1> QED
  BY <1>4, <1>6, <1>10

LEMMA CleanUpStep ==
    ASSUME PoolInv, CleanUp
    PROVE  PoolInv' /\ Keeps(pool', pool, chain')
<1>1. pool \in PoolStates /\ chain' = chain /\ generated' = generated
  BY DEF PoolInv, CleanUp
<1>2. PICK s \in Spared(pool, chain) : pool' = cleanUp(pool, chain, s)
  BY DEF CleanUp
<1>3. Keeps(pool', pool, chain')
  BY <1>1, <1>2, CleanUpKeeps
<1>4. pool' \in PoolStates
  BY <1>3 DEF Keeps
<1> QED
  BY <1>1, <1>3, <1>4 DEF PoolInv

LEMMA ConnectStep ==
    ASSUME PoolInv, NEW pop \in Pops, ConnectBlock(pop)
    PROVE  PoolInv' /\ Keeps(pool', pool, chain') /\ generated' = NoPop
<1> DEFINE ch == Append(chain, pop)
           m == Without(pool, pop)
<1>1. pool \in PoolStates /\ chain \in Seq(Pops) /\ chain' = ch /\ generated' = NoPop
  BY DEF PoolInv, ConnectBlock
<1>2. PICK s \in Spared(m, ch) : pool' = tryConnectPayloads(cleanUp(m, ch, s), ch)
  BY DEF ConnectBlock
<1>3. Keeps(m, pool, ch)
  BY <1>1, WithoutKeeps
<1>4. ch \in Seq(Pops)
  BY <1>1, AppendFacts
<1> HIDE DEF ch, m
<1> DEFINE c == cleanUp(m, ch, s)
<1>5. Keeps(c, m, ch)
  BY <1>3, CleanUpKeeps DEF Keeps
<1> HIDE DEF c
<1>6. Keeps(tryConnectPayloads(c, ch), c, ch)
  BY <1>5, TryConnectKeeps DEF Keeps
<1>7. pool' = tryConnectPayloads(c, ch)
  BY <1>2 DEF c
<1>8. Keeps(pool', pool, chain')
  BY <1>1, <1>3, <1>5, <1>6, <1>7, KeepsTransitive
<1>9. pool' \in PoolStates
  BY <1>8 DEF Keeps
<1>10. Applies(chain', NoPop)
  BY NoPopApplies, KindFacts DEF AppliesUpTo
<1> QED
  BY <1>1, <1>4, <1>8, <1>9, <1>10, NoPopFacts DEF PoolInv

LEMMA DisconnectStep ==
    ASSUME PoolInv, DisconnectTip
    PROVE  PoolInv' /\ Keeps(pool', pool, chain') /\ generated' = NoPop
<1>1. chain \in Seq(Pops) /\ chain # <<>> /\ chain' = SubSeq(chain, 1, Len(chain) - 1)
      /\ generated' = NoPop /\ pool' = pool /\ pool \in PoolStates
  BY DEF PoolInv, DisconnectTip, Front
<1>2. chain' \in Seq(Pops)
  <2>1. Len(chain) \in Nat /\ Len(chain) # 0
    BY <1>1
  <2> QED
    BY <1>1, <2>1
<1>3. Applies(chain', NoPop)
  BY NoPopApplies, KindFacts DEF AppliesUpTo
<1>4. Keeps(pool', pool, chain')
  BY <1>1 DEF Keeps
<1> QED
  BY <1>1, <1>2, <1>3, <1>4, NoPopFacts DEF PoolInv

\* Each operation keeps the invariant, and all but clear() keep the payloads.
LEMMA PoolStep ==
    ASSUME PoolInv, PoolNext
    PROVE  PoolInv' /\ (Clear \/ Keeps(pool', pool, chain'))
<1>1. CASE SubmitVbkBlock
  BY <1>1, SubmitStep DEF SubmitVbkBlock, AllPayloads
<1>2. CASE SubmitVtb
  BY <1>2, SubmitStep DEF SubmitVtb, AllPayloads
<1>3. CASE SubmitAtv
  BY <1>3, SubmitStep DEF SubmitAtv, AllPayloads
<1>4. CASE GeneratePopData
  BY <1>4, GenerateStep
<1>5. CASE CleanUp
  BY <1>5, CleanUpStep
<1>6. CASE Clear
  BY <1>6, EmptyPoolFacts DEF Clear, PoolInv
<1>7. CASE MineGenerated
  <2>1. generated \in Pops /\ ConnectBlock(generated)
    BY <1>7 DEF MineGenerated, PoolInv
  <2> QED
    BY <2>1, ConnectStep
<1>8. CASE ReceiveBlock
  <2>1. PICK pop \in Pops : ConnectBlock(pop)
    BY <1>8, MemPoolAssumption DEF ReceiveBlock
  <2> QED
    BY <2>1, ConnectStep
<1>9. CASE DisconnectTip
  BY <1>9, DisconnectStep
<1> QED
  BY <1>1, <1>2, <1>3, <1>4, <1>5, <1>6, <1>7, <1>8, <1>9 DEF PoolNext

LEMMA PoolStutters ==
    ASSUME PoolInv, UNCHANGED poolVars
    PROVE  PoolInv' /\ Keeps(pool', pool, chain')
  BY DEF PoolInv, poolVars, Keeps

\* Whatever is submitted, generated, connected or disconnected, in whatever
\* order (mempool.cpp), the pool and the last generated body satisfy PoolInv.
THEOREM PoolInvariant == PoolSpec => []PoolInv
<1>1. PoolInit => PoolInv
  BY PoolInitial
<1>2. PoolInv /\ [PoolNext]_poolVars => PoolInv'
  BY PoolStep, PoolStutters
<1> QED
  BY <1>1, <1>2, PTL DEF PoolSpec

\* What generatePopData (mempool.cpp) returned last applies to the current tip, for every
\* set of payloads, every size and all limits on the number of payloads below 256.  From
\* 256 on the count of a kind takes a second byte that canFit (counting_context.hpp) does
\* not count, and a body that fills MaxPopDataSize exceeds it.
THEOREM GeneratedPopDataApplies ==
    ASSUME ShortLimits
    PROVE  PoolSpec => []GeneratedApplies
<1>1. ShortLimits
  OBVIOUS
<1>2. PoolInv => GeneratedApplies
  BY <1>1 DEF PoolInv, GeneratedApplies
<1> QED
  BY <1>2, PoolInvariant, PTL

\* No operation of the mempool but clear() takes a payload out of the relations and out of
\* the maps of payloads in flight that the active chain does not have and that is neither
\* expired nor too old.
THEOREM PayloadsAreKept == PoolSpec => NoPayloadLost
<1>1. ASSUME PoolInv, [PoolNext]_poolVars
      PROVE  [Clear \/ \A p \in Retained(pool) \ Retained(pool') : Droppable(chain', p)]_poolVars
  <2>1. CASE PoolNext
    BY <1>1, <2>1, PoolStep DEF Keeps
  <2>2. CASE UNCHANGED poolVars
    BY <2>2
  <2> QED
    BY <1>1, <2>1, <2>2
<1> QED
  BY <1>1, PoolInvariant, PTL DEF PoolSpec, NoPayloadLost

-----------------------------------------------------------------------------
(* generatePopData leaves no ATV out that fits.                             *)

\* d has what b has, and perhaps more payloads of kind k.
Grows(d, b, k) ==
    /\ \A j \in Kinds \ {k} : d[j] = b[j]
    /\ Len(b[k]) <= Len(d[k]) /\ ToSet(b[k]) \subseteq ToSet(d[k])
    /\ estimateSize(b) <= estimateSize(d)

LEMMA EstimateType ==
    ASSUME NEW b \in Pops
    PROVE  estimateSize(b) \in Nat
<1>1. \A j \in Kinds : b[j] \in Seq(AllPayloads)
  BY PopFacts, KindFacts, SeqIn
<1>2. ASSUME NEW j \in Kinds PROVE PartSize(b[j]) \in Nat
  <2>1. SizeOf(b[j]) \in Nat /\ singleBEValueSize(Len(b[j])) \in Nat
    BY <1>1, SizeOfFacts DEF singleBEValueSize
  <2> QED
    BY <2>1 DEF PartSize
<1>3. PartSize(b["context"]) \in Nat /\ PartSize(b["vtbs"]) \in Nat /\ PartSize(b["atvs"]) \in Nat
  BY <1>2, KindFacts
<1> QED
  BY <1>3 DEF estimateSize

LEMMA GrowsReflexive ==
    ASSUME NEW b \in Pops, NEW k \in Kinds
    PROVE  Grows(b, b, k)
<1>1. Len(b[k]) \in Nat /\ estimateSize(b) \in Nat
  BY PopFacts, EstimateType
<1> QED
  BY <1>1 DEF Grows

LEMMA GrowsTransitive ==
    ASSUME NEW b \in Pops, NEW c \in Pops, NEW d \in Pops, NEW k \in Kinds,
           Grows(c, b, k), Grows(d, c, k)
    PROVE  Grows(d, b, k)
<1>1. \A x, y, z \in Nat : x <= y /\ y <= z => x <= z
  OBVIOUS
<1>2. estimateSize(b) \in Nat /\ estimateSize(c) \in Nat /\ estimateSize(d) \in Nat
  BY EstimateType
<1>3. Len(b[k]) \in Nat /\ Len(c[k]) \in Nat /\ Len(d[k]) \in Nat
  BY PopFacts
<1>4. Len(b[k]) <= Len(d[k])
  BY <1>1, <1>3 DEF Grows
<1>5. estimateSize(b) <= estimateSize(d)
  BY <1>1, <1>2 DEF Grows
<1> QED
  BY <1>4, <1>5 DEF Grows

\* What fits into a body fitted into it before it grew.
LEMMA FitsBefore ==
    ASSUME NEW b \in Pops, NEW d \in Pops, NEW j \in Kinds, Grows(d, b, j),
           NEW k \in Kinds, NEW p \in Payloads[k], canFit(d, p)
    PROVE  canFit(b, p)
<1>1. Kind(p) = k /\ Size[p] \in Nat /\ Limit[k] \in Nat /\ MaxPopDataSize \in Nat
  BY KindOf, KindFacts, MemPoolAssumption
<1>2. estimateSize(b) \in Nat /\ estimateSize(d) \in Nat /\ estimateSize(b) <= estimateSize(d)
  BY EstimateType DEF Grows
<1>3. Len(b[k]) \in Nat /\ Len(d[k]) \in Nat
  BY PopFacts
<1>4. Len(b[k]) <= Len(d[k])
  BY <1>3 DEF Grows
<1>5. Len(d[k]) < Limit[k] /\ estimateSize(d) + Size[p] <= MaxPopDataSize
  BY <1>1 DEF canFit
<1>6. Len(b[k]) < Limit[k]
  BY <1>1, <1>3, <1>4, <1>5
<1>7. estimateSize(b) + Size[p] <= MaxPopDataSize
  BY <1>1, <1>2, <1>5
<1> QED
  BY <1>1, <1>6, <1>7 DEF canFit

LEMMA AddToBodyGrows ==
    ASSUME NEW ch, NEW b \in Pops, NEW k \in Kinds, NEW p \in Payloads[k],
           NEW d, d = AddToBody(ch, b, k, p)
    PROVE  /\ Grows(d, b, k) /\ ToSet(d[k]) \subseteq ToSet(b[k]) \cup {p}
           /\ /\ canFit(b, p)
              /\ ~isStatefulDuplicate(ch, p)
              /\ Executes(Append(ch, b), p)
              => p \in ToSet(d[k])
<1> DEFINE c == [b EXCEPT ![k] = Append(@, p)]
<1>1. b[k] \in Seq(Payloads[k])
  BY PopFacts
<1>2. c \in Pops /\ c[k] = Append(b[k], p) /\ \A j \in Kinds \ {k} : c[j] = b[j]
  BY AppendToPop
<1>3. Len(b[k]) \in Nat /\ Len(Append(b[k], p)) = Len(b[k]) + 1 /\ ToSet(Append(b[k], p)) = ToSet(b[k]) \cup {p}
  BY <1>1, AppendFacts, ToSetAppend
<1>4. \/ d = c
      \/ d = b /\ \/ ~canFit(b, p) \/ p \in ToSet(b[k])
                  \/ isStatefulDuplicate(ch, p) \/ ~Executes(Append(ch, b), p)
  BY DEF AddToBody
<1> HIDE DEF c
<1>5. CASE d = c
  <2>1. Len(b[k]) <= Len(d[k])
    BY <1>2, <1>3, <1>5
  <2>2. estimateSize(b) <= estimateSize(d)
    <3>1. /\ estimateSize(b) \in Nat /\ estimateSize(c) \in Nat
          /\ estimateSize(b) + Size[p] <= estimateSize(c)
      BY <1>2, EstimateAppend
    <3>2. Size[p] \in Nat
      BY KindOf
    <3> QED
      BY <3>1, <3>2, <1>5
  <2> QED
    BY <2>1, <2>2, <1>2, <1>3, <1>5 DEF Grows
<1>6. CASE d # c
  <2>1. d = b
    BY <1>4, <1>6
  <2>2. Grows(b, b, k)
    BY GrowsReflexive
  <2> QED
    BY <2>1, <2>2, <1>4, <1>6
<1> QED
  BY <1>5, <1>6

\* The loop changes one kind of payload and only adds to it, ...
LEMMA FilterGrows ==
    ASSUME NEW ch, NEW b \in Pops, NEW k \in Kinds, NEW s \in Seq(Payloads[k]),
           NEW f, IsFilter(f, ch, b, k, s)
    PROVE  \A i \in 0..Len(s) : f[i] \in Pops /\ \A h \in 0..i : f[h] \in Pops /\ Grows(f[i], f[h], k)
<1> DEFINE G == {i \in 0..Len(s) : \A h \in 0..i : Grows(f[i], f[h], k)}
<1>1. Len(s) \in Nat /\ \A i \in 1..Len(s) : s[i] \in Payloads[k] /\ i - 1 \in 0..Len(s) /\ i \in 0..Len(s)
  OBVIOUS
<1>2. \A i \in 0..Len(s) : f[i] \in Pops /\ \A h \in 0..i : h \in 0..Len(s)
  BY <1>1 DEF IsFilter
<1>3. 0 \in G
  <2>1. 0 \in 0..Len(s) /\ \A h \in 0..0 : h = 0
    BY <1>1
  <2> QED
    BY <2>1, <1>2, GrowsReflexive
<1>4. ASSUME NEW i \in 1..Len(s), i - 1 \in G PROVE i \in G
  <2>1. f[i - 1] \in Pops /\ f[i] \in Pops /\ f[i] = AddToBody(ch, f[i - 1], k, s[i])
    BY <1>1, <1>2 DEF IsFilter
  <2>2. Grows(f[i], f[i - 1], k)
    <3> DEFINE x == f[i - 1]
               y == f[i]
               e == s[i]
    <3>1. x \in Pops /\ e \in Payloads[k] /\ y = AddToBody(ch, x, k, e)
      BY <1>1, <2>1
    <3> HIDE DEF x, y, e
    <3>2. Grows(y, x, k)
      BY <3>1, AddToBodyGrows
    <3> QED
      BY <3>2 DEF x, y
  <2>3. ASSUME NEW h \in 0..i PROVE Grows(f[i], f[h], k)
    <3>1. CASE h = i
      BY <3>1, <2>1, GrowsReflexive
    <3>2. CASE h # i
      <4>1. h \in 0..(i - 1) /\ h \in 0..Len(s)
        BY <3>2, <1>1
      <4>2. Grows(f[i - 1], f[h], k) /\ f[h] \in Pops
        BY <4>1, <1>2, <1>4
      <4> QED
        BY <4>2, <2>1, <2>2, GrowsTransitive
    <3> QED
      BY <3>1, <3>2
  <2> QED
    BY <1>1, <2>3
<1>5. \A i \in 0..Len(s) : i \in G
  <2> HIDE DEF G
  <2> QED
    BY <1>1, <1>3, <1>4, UpTo
<1> QED
  BY <1>2, <1>5

\* ... and what is in the body at the end and was not there at position i comes from a
\* later position.
ComesLater(f, s, k, i) ==
    \A q \in ToSet(f[Len(s)][k]) : q \in ToSet(f[i][k]) \/ \E j \in 1..Len(s) : j > i /\ s[j] = q

LEMMA FilterFrom ==
    ASSUME NEW ch, NEW b \in Pops, NEW k \in Kinds, NEW s \in Seq(Payloads[k]),
           NEW f, IsFilter(f, ch, b, k, s), NEW i \in 0..Len(s)
    PROVE  ComesLater(f, s, k, i)
<1> DEFINE From(n, q) == q \in ToSet(f[i][k]) \/ \E j \in 1..n : j > i /\ s[j] = q
           G == {n \in 0..Len(s) : \A q \in ToSet(f[n][k]) : From(n, q)}
<1>1. /\ Len(s) \in Nat /\ Len(s) \in 0..Len(s) /\ 0 \in 0..i /\ 0 \in 0..Len(s)
      /\ \A n \in 1..Len(s) : s[n] \in Payloads[k] /\ n - 1 \in 0..Len(s) /\ n \in 0..Len(s)
  OBVIOUS
<1>2. \A h \in 0..i : ToSet(f[h][k]) \subseteq ToSet(f[i][k])
  BY FilterGrows DEF Grows
<1>3. 0 \in G
  BY <1>1, <1>2
<1>4. ASSUME NEW n \in 1..Len(s), n - 1 \in G PROVE n \in G
  <2>1. f[n - 1] \in Pops /\ f[n] = AddToBody(ch, f[n - 1], k, s[n])
    BY <1>1 DEF IsFilter
  <2>2. ToSet(f[n][k]) \subseteq ToSet(f[n - 1][k]) \cup {s[n]}
    <3> DEFINE x == f[n - 1]
               y == f[n]
               e == s[n]
    <3>1. x \in Pops /\ e \in Payloads[k] /\ y = AddToBody(ch, x, k, e)
      BY <1>1, <2>1
    <3> HIDE DEF x, y, e
    <3>2. ToSet(y[k]) \subseteq ToSet(x[k]) \cup {e}
      BY <3>1, AddToBodyGrows
    <3> QED
      BY <3>2 DEF x, y, e
  <2>3. CASE n \in 0..i
    BY <2>3, <1>1, <1>2
  <2>4. CASE n \notin 0..i
    <3>1. n > i /\ n \in 1..n /\ \A j \in 1..(n - 1) : j \in 1..n
      BY <2>4, <1>1
    <3>2. ASSUME NEW q \in ToSet(f[n][k]) PROVE From(n, q)
      <4>1. CASE q = s[n]
        BY <3>1, <4>1
      <4>2. CASE q \in ToSet(f[n - 1][k])
        <5>1. From(n - 1, q)
          BY <1>4, <4>2
        <5> QED
          BY <5>1, <3>1
      <4> QED
        BY <2>2, <4>1, <4>2
    <3> QED
      BY <1>1, <3>2
  <2> QED
    BY <2>3, <2>4
<1>5. Len(s) \in G
  <2> HIDE DEF G
  <2>1. \A n \in 0..Len(s) : n \in G
    BY <1>1, <1>3, <1>4, UpTo
  <2> QED
    BY <1>1, <2>1
<1> QED
  BY <1>5 DEF ComesLater

\* The loop leaves out no payload that executes and still fits at its end.
LEMMA FilterAdds ==
    ASSUME NEW ch, NEW b \in Pops, NEW k \in Kinds, NEW s \in Seq(Payloads[k]),
           NEW f, IsFilter(f, ch, b, k, s),
           NEW i \in 1..Len(s), canFit(f[Len(s)], s[i]),
           ~isStatefulDuplicate(ch, s[i]), Executes(Append(ch, f[i - 1]), s[i])
    PROVE  s[i] \in ToSet(f[Len(s)][k])
<1>1. /\ s[i] \in Payloads[k] /\ i - 1 \in 0..Len(s) /\ i \in 0..Len(s) /\ Len(s) \in 0..Len(s)
      /\ i - 1 \in 0..Len(s)
  OBVIOUS
<1>2. /\ f[i - 1] \in Pops /\ f[Len(s)] \in Pops
      /\ Grows(f[Len(s)], f[i - 1], k) /\ Grows(f[Len(s)], f[i], k)
  BY <1>1, FilterGrows
<1>3. f[i] = AddToBody(ch, f[i - 1], k, s[i])
  BY DEF IsFilter
<1>4. canFit(f[i - 1], s[i])
  BY <1>1, <1>2, FitsBefore
<1>5. s[i] \in ToSet(f[i][k])
  BY <1>1, <1>2, <1>3, <1>4, AddToBodyGrows
<1> QED
  BY <1>2, <1>5 DEF Grows

\* The VBK tree after the context of a body.
LEMMA VbkAfter ==
    ASSUME NEW ch \in Seq(Pops), NEW pop \in Pops
    PROVE  VbkOf(ch) \cup ToSet(pop["context"]) \subseteq VbkOf(Append(ch, pop))
<1> DEFINE c == Append(ch, pop)
<1>1. /\ ToSet(pop["context"]) \subseteq PayloadsOf(c, "context")
      /\ PayloadsOf(ch, "context") \subseteq PayloadsOf(c, "context")
      /\ PayloadsOf(ch, "atvs") \subseteq PayloadsOf(c, "atvs")
  BY LastBody, KindFacts
<1> HIDE DEF c
<1> QED
  BY <1>1 DEF VbkOf, c

\* Below b, each VBK block is in the tree or a candidate.
Reaches(ch, s, b) == \A x \in VbkBlocks : x < b => x \in VbkOf(ch) \cup ToSet(s)

\* Of VBK blocks tried in ascending order, all below top get in that are not in the tree,
\* if those that did not would fit.
LEMMA ContextReached ==
    ASSUME NEW ch \in Seq(Pops), NEW s \in Seq(VbkBlocks), Ascending(s),
           NEW f, IsFilter(f, ch, NoPop, "context", s),
           NEW top \in VbkBlocks, Reaches(ch, s, top),
           \A x \in VbkBlocks : x < top /\ x \notin VbkOf(ch) \cup ToSet(f[Len(s)]["context"])
                                => canFit(f[Len(s)], x)
    PROVE  top - 1 \in VbkOf(ch) \cup ToSet(f[Len(s)]["context"])
<1> DEFINE k == "context"
           n == top - 1
           brought == VbkOf(ch) \cup ToSet(f[Len(s)][k])
           G == {x \in 0..n : x \in brought}
<1>1. Len(s) \in Nat /\ \A i \in 1..Len(s) : s[i] \in VbkBlocks /\ i - 1 \in 0..Len(s)
  OBVIOUS
<1>2. k \in Kinds /\ s \in Seq(Payloads[k]) /\ NoPop \in Pops
  BY KindFacts, NoPopFacts
<1>3. MaxVbkHeight \in Nat /\ top \in 1..MaxVbkHeight /\ n \in Nat
  BY MemPoolAssumption DEF VbkBlocks
<1>4. \A x \in 1..n : x \in VbkBlocks /\ x < top /\ x \in 0..n /\ x - 1 \in 0..n /\ x - 1 < x /\ x \in Int
  BY <1>3 DEF VbkBlocks
<1>5. 0 \in G
  <2>1. 0 \in 0..n
    BY <1>3
  <2> QED
    BY <2>1 DEF VbkOf
<1>6. ASSUME NEW x \in 1..n, x - 1 \in brought PROVE x \in brought
  <2>1. x \in VbkBlocks /\ x < top /\ x - 1 < x /\ x \in Int
    BY <1>4
  <2> SUFFICES ASSUME x \notin brought PROVE FALSE
    OBVIOUS
  <2>2. x \in ToSet(s) /\ canFit(f[Len(s)], x)
    BY <2>1 DEF Reaches
  <2>3. PICK i \in 1..Len(s) : s[i] = x
    BY <2>2 DEF ToSet
  <2>4. x - 1 \in VbkOf(ch) \cup ToSet(f[i - 1][k])
    <3>1. CASE x - 1 \in VbkOf(ch)
      BY <3>1
    <3>2. CASE x - 1 \in ToSet(f[Len(s)][k])
      <4>1. i - 1 \in 0..Len(s)
        BY <1>1
      <4>2. x - 1 \in ToSet(f[i - 1][k]) \/ \E j \in 1..Len(s) : j > i - 1 /\ s[j] = x - 1
        <5>1. IsFilter(f, ch, NoPop, k, s)
          OBVIOUS
        <5> DEFINE l == i - 1
        <5>2. l \in 0..Len(s)
          BY <4>1
        <5> HIDE DEF k, l
        <5>3. ComesLater(f, s, k, l)
          BY <5>1, <5>2, <1>2, FilterFrom
        <5> QED
          BY <5>3, <3>2 DEF ComesLater, l
      <4>3. ASSUME NEW j \in 1..Len(s), j > i - 1, s[j] = x - 1 PROVE FALSE
        <5>1. j = i \/ i < j
          BY <4>3
        <5>2. s[j] < s[i] /\ ~(s[i] < s[j]) /\ s[i] # s[j]
          BY <2>1, <2>3, <4>3
        <5> QED
          BY <5>1, <5>2 DEF Ascending
      <4> QED
        BY <4>2, <4>3
    <3> QED
      BY <1>6, <3>1, <3>2
  <2>5. f[i - 1] \in Pops
    BY <1>1 DEF IsFilter
  <2>6. x - 1 \in VbkOf(Append(ch, f[i - 1]))
    BY <2>4, <2>5, VbkAfter
  <2>7. x \notin Vtbs \cup Atvs /\ Kind(x) = "context"
    BY <2>1, PayloadFacts DEF AllPayloads
  <2>8. Executes(Append(ch, f[i - 1]), x)
    BY <2>1, <2>6, <2>7 DEF Executes
  <2>9. ~isStatefulDuplicate(ch, x)
    BY <2>7 DEF isStatefulDuplicate, VbkOf
  <2>10. x \in ToSet(f[Len(s)][k])
    <3> HIDE DEF k
    <3> QED
      BY <1>2, <2>2, <2>3, <2>8, <2>9, FilterAdds DEF k
  <2> QED
    BY <2>10
<1>7. n \in G
  <2>1. \A x \in 1..n : x - 1 \in G => x \in G
    BY <1>4, <1>6
  <2> HIDE DEF G
  <2>2. \A x \in 0..n : x \in G
    BY <1>3, <1>5, <2>1, UpTo
  <2>3. n \in 0..n
    BY <1>3
  <2> QED
    BY <2>2, <2>3
<1> QED
  BY <1>7

\* An ATV that could be in the next block is in the generated body, if it and the VBK
\* blocks that it still needs fit.
LEMMA NoneLeftOut ==
    ASSUME NEW ch \in Seq(Pops), NEW m \in PoolStates, NEW o \in Orders(m),
           NEW g, g = PopDataOf(m, ch, o),
           NEW a \in Connectable(m, ch), canFit(g, a),
           \A x \in VbkBlocks : x < Containing[a] /\ x \notin VbkOf(ch) \cup ToSet(g["context"]) => canFit(g, x)
    PROVE  a \in ToSet(g["atvs"])
<1> DEFINE c == Candidates(m, o)
           s == c["context"]
           t == c["vtbs"]
           w == c["atvs"]
           g1 == applyPayloadsOrRemoveIfInvalid(ch, NoPop, "context", s)
           g2 == applyPayloadsOrRemoveIfInvalid(ch, g1, "vtbs", t)
<1>1. c \in Pops /\ ToSet(s) = m.blocks /\ Ascending(s) /\ \A b \in m.blocks : m.atvs[b] \subseteq ToSet(w)
  BY CandidatesFacts
<1>2. s \in Seq(VbkBlocks) /\ t \in Seq(Vtbs) /\ w \in Seq(Atvs)
  BY <1>1, PopFacts
<1>3. g = applyPayloadsOrRemoveIfInvalid(ch, g2, "atvs", w)
  BY DEF filterInvalidPayloads, PopDataOf
<1> HIDE DEF c, s, t, w
<1>4. /\ s \in Seq(Payloads["context"]) /\ t \in Seq(Payloads["vtbs"]) /\ w \in Seq(Payloads["atvs"])
      /\ Len(s) \in 0..Len(s) /\ Len(t) \in 0..Len(t) /\ Len(w) \in 0..Len(w)
      /\ 0 \in 0..Len(t) /\ 0 \in 0..Len(w)
  BY <1>2, KindFacts
<1>5. PICK f1 : IsFilter(f1, ch, NoPop, "context", s) /\ g1 = f1[Len(s)]
  <2>1. NoPop \in Pops /\ "context" \in Kinds /\ s \in Seq(Payloads["context"])
    BY <1>4, NoPopFacts, KindFacts
  <2> QED
    BY <2>1, FilterLoop
<1>6. g1 \in Pops
  BY <1>4, <1>5 DEF IsFilter
<1> HIDE DEF g1
<1>7. PICK f2 : IsFilter(f2, ch, g1, "vtbs", t) /\ g2 = f2[Len(t)]
  BY <1>4, <1>6, FilterLoop, KindFacts
<1>8. g2 \in Pops /\ f2[0] = g1
  BY <1>4, <1>7 DEF IsFilter
<1> HIDE DEF g2
<1>9. PICK f3 : IsFilter(f3, ch, g2, "atvs", w) /\ g = f3[Len(w)]
  BY <1>3, <1>4, <1>8, FilterLoop, KindFacts
<1>10. g \in Pops /\ f3[0] = g2
  BY <1>4, <1>9 DEF IsFilter
\* The context is chosen first and then stays as it is.
<1>11. Grows(g2, g1, "vtbs")
  BY <1>4, <1>6, <1>7, <1>8, FilterGrows, KindFacts
<1>12. \A i \in 0..Len(w) : f3[i] \in Pops /\ Grows(f3[i], g2, "atvs")
  <2> DEFINE k == "atvs"
  <2>1. k \in Kinds /\ w \in Seq(Payloads[k]) /\ IsFilter(f3, ch, g2, k, w)
    BY <1>4, <1>9, KindFacts
  <2> HIDE DEF k
  <2>2. \A i \in 0..Len(w) : f3[i] \in Pops /\ \A h \in 0..i : Grows(f3[i], f3[h], k)
    BY <2>1, <1>8, FilterGrows
  <2>3. \A i \in 0..Len(w) : 0 \in 0..i
    OBVIOUS
  <2> QED
    BY <2>2, <2>3, <1>10 DEF k
<1>13. \A i \in 0..Len(w) : f3[i]["context"] = g1["context"]
  BY <1>11, <1>12, KindFacts DEF Grows
<1>14. g["context"] = g1["context"]
  BY <1>4, <1>9, <1>13
<1>15. ASSUME NEW x \in VbkBlocks, canFit(g, x) PROVE canFit(g1, x)
  <2>1. "context" \in Kinds /\ "vtbs" \in Kinds /\ "atvs" \in Kinds /\ x \in Payloads["context"]
    BY KindFacts
  <2>2. Grows(g, g2, "atvs")
    BY <1>4, <1>9, <1>12
  <2>3. canFit(g2, x)
    BY <1>8, <1>10, <1>15, <2>1, <2>2, FitsBefore
  <2> QED
    BY <1>6, <1>8, <1>11, <2>1, <2>3, FitsBefore
\* The ATV and its VBK block.
<1>16. PICK b \in m.blocks : a \in m.atvs[b]
  BY DEF Connectable
<1>17. b \in VbkBlocks /\ a \in ToSet(w) /\ a \in Atvs /\ Containing[a] = b
  BY <1>1, <1>16, PoolFacts
<1>18. Reaches(ch, s, b)
  BY <1>1, <1>17 DEF Connectable, Reaches
<1>19. b - 1 \in VbkOf(ch) \cup ToSet(g1["context"])
  <2>1. \A x \in VbkBlocks : x < b /\ x \notin VbkOf(ch) \cup ToSet(g1["context"]) => canFit(g1, x)
    BY <1>14, <1>15, <1>17
  <2> QED
    BY <1>1, <1>2, <1>5, <1>17, <1>18, <2>1, ContextReached
<1>20. PICK i \in 1..Len(w) : w[i] = a
  BY <1>2, <1>17 DEF ToSet
<1>21. i - 1 \in 0..Len(w)
  BY <1>4
<1>22. b - 1 \in VbkOf(Append(ch, f3[i - 1]))
  <2>1. f3[i - 1] \in Pops /\ f3[i - 1]["context"] = g1["context"]
    BY <1>12, <1>13, <1>21
  <2> QED
    BY <2>1, <1>19, VbkAfter
<1>23. a \notin VbkBlocks \cup Vtbs
  BY <1>17, PayloadFacts DEF AllPayloads
<1>24. Executes(Append(ch, f3[i - 1]), a)
  <2>1. checkContextually(ch, a)
    BY DEF Connectable
  <2>2. Len(ch) + 1 <= AltSettlementInterval
    BY <2>1, <1>17, <1>23 DEF checkContextually
  <2>3. Len(Append(ch, f3[i - 1])) = Len(ch) + 1
    BY <1>12, <1>21, AppendFacts
  <2> QED
    BY <2>2, <2>3, <1>17, <1>22, <1>23 DEF Executes
<1>25. ~isStatefulDuplicate(ch, a)
  BY DEF Connectable
<1> QED
  BY <1>4, <1>8, <1>9, <1>20, <1>24, <1>25, FilterAdds, KindFacts

\* generatePopData (mempool.cpp), called in any reachable state, leaves out no ATV whose
\* VBK blocks are in the tree or in the pool, unless it or one of those VBK blocks does not
\* fit into the body any more (CountingContext::canFit), for every set of payloads, every
\* size and all limits.
THEOREM NoAtvIsLeftOut == PoolSpec => []NoAtvLeftOut
<1>1. ASSUME PoolInv PROVE NoAtvLeftOut
  <2> DEFINE m == tryConnectPayloads(pool, chain)
  <2>1. m \in PoolStates /\ chain \in Seq(Pops)
    BY <1>1, TryConnectKeeps DEF PoolInv, Keeps
  <2> HIDE DEF m
  <2>2. ASSUME NEW o \in Orders(m), NEW g, g = PopDataOf(m, chain, o),
               NEW a \in Connectable(m, chain), a \notin ToSet(g["atvs"])
        PROVE  \E p \in {a} \cup NeededBy(a, g, chain) : ~canFit(g, p)
    <3> SUFFICES ASSUME canFit(g, a),
                        \A x \in VbkBlocks : x < Containing[a] /\ x \notin VbkOf(chain) \cup ToSet(g["context"])
                                             => canFit(g, x)
                 PROVE  FALSE
      BY DEF NeededBy
    <3> QED
      BY <2>1, <2>2, NoneLeftOut
  <2> QED
    BY <2>2 DEF NoAtvLeftOut, m
<1> QED
  BY <1>1, PoolInvariant, PTL

=============================================================================
