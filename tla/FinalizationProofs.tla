-------------------------- MODULE FinalizationProofs --------------------------
(***************************************************************************)
(* Theorems about finalizeBlocks, for every block universe, any order in    *)
(* which tips are visited and any reorganisation and preservation limits.   *)
(***************************************************************************)
EXTENDS Finalization, FiniteSetTheorems, WellFoundedInduction, TLAPS

-----------------------------------------------------------------------------
(* The inductive invariant.                                                 *)

FinalizationTypes ==
    /\ allocated \subseteq Blocks /\ IsFiniteSet(allocated)
    /\ tip \in allocated /\ root \in allocated
    /\ tips \cup failed \cup dirty \cup finalized \subseteq allocated

\* The blocks in memory are a tree on the first block of the active chain.
Rooted == \A b \in allocated : root \in Ancestors[b]

PathsAllocated ==
    \A b \in allocated : \A a \in Ancestors[b] : root \in Ancestors[a] => a \in allocated

TipNotFailed == ~IsFailed(tip)

\* A tip has no child that could be one.
TipsAreLeaves == \A t \in tips : \A c \in Children(t) : ~CanBeATip(c)

\* The final blocks in memory are the lower part of the active chain.
FinalOnChain ==
    /\ finalized \subseteq Ancestors[tip]
    /\ \A b \in finalized : \A a \in Ancestors[b] : root \in Ancestors[a] => a \in finalized

\* A payload of finalizedPayloadsIndex_ is in a final block, or in one that every
\* block in memory descends from.
FinalIdsOnChain ==
    \A i \in finalizedIds : \E a \in finalized \cup Ancestors[root] : i \in Payloads[a]

FinalizationInv ==
    /\ FinalizationTypes /\ Rooted /\ PathsAllocated /\ TipNotFailed /\ TipsAreLeaves
    /\ FinalOnChain /\ FinalIdsOnChain

-----------------------------------------------------------------------------
(* Facts about chains.                                                      *)

LEMMA ChainFacts ==
    /\ Bootstrap \in Blocks
    /\ \A b \in Blocks : b \in Ancestors[b] /\ Ancestors[b] \subseteq Blocks
    /\ \A b \in Blocks : \A a \in Ancestors[b] : \A c \in Ancestors[a] : c \in Ancestors[b]
    /\ \A b \in Blocks : \A a, c \in Ancestors[b] : a \in Ancestors[c] \/ c \in Ancestors[a]
    /\ \A b \in Blocks : \A a \in Ancestors[b] : b \in Ancestors[a] => a = b
<1>1. /\ Bootstrap \in Blocks
      /\ \A b \in Blocks : b \in Ancestors[b] /\ Ancestors[b] \subseteq Blocks
      /\ \A b \in Blocks : \A a \in Ancestors[b] : \A c \in Ancestors[a] : c \in Ancestors[b]
  BY ChainAssumption
<1>2. \A b \in Blocks : \A a, c \in Ancestors[b] : a \in Ancestors[c] \/ c \in Ancestors[a]
  <2> SUFFICES ASSUME NEW b \in Blocks, NEW a \in Ancestors[b], NEW c \in Ancestors[b]
               PROVE  a \in Ancestors[c] \/ c \in Ancestors[a]
    OBVIOUS
  <2>1. Height[a] \in Nat /\ Height[c] \in Nat
    BY <1>1, ChainAssumption
  <2>2. Height[a] <= Height[c] \/ Height[c] <= Height[a]
    BY <2>1
  <2> QED
    BY <2>2, ChainAssumption
<1>3. \A b \in Blocks : \A a \in Ancestors[b] : b \in Ancestors[a] => a = b
  <2> SUFFICES ASSUME NEW b \in Blocks, NEW a \in Ancestors[b], b \in Ancestors[a], a # b
               PROVE  FALSE
    OBVIOUS
  <2>1. b # Bootstrap /\ Prev[b] \in Blocks /\ a \in Ancestors[Prev[b]]
    BY ChainAssumption
  <2>2. /\ Height[a] <= Height[Prev[b]] /\ Height[b] <= Height[a]
        /\ Height[b] = Height[Prev[b]] + 1
    BY <2>1, <1>1, ChainAssumption
  <2>3. Height[a] \in Nat /\ Height[b] \in Nat /\ Height[Prev[b]] \in Nat
    BY <2>1, <1>1, ChainAssumption
  <2> QED
    BY <2>2, <2>3
<1> QED
  BY <1>1, <1>2, <1>3

\* Heights order the blocks of a chain.
LEMMA HeightFacts ==
    /\ \A b \in Blocks : Height[b] \in Nat
    /\ \A b \in Blocks : \A a \in Ancestors[b] : Height[a] <= Height[b]
    /\ \A b \in Blocks : \A a, c \in Ancestors[b] : Height[a] = Height[c] => a = c
    /\ \A b \in Blocks : \A a, c \in Ancestors[b] : a \in Ancestors[c] <=> Height[a] <= Height[c]
<1>1. \A b \in Blocks : Height[b] \in Nat
  BY ChainAssumption
<1>2. \A b \in Blocks : \A a, c \in Ancestors[b] : a \in Ancestors[c] <=> Height[a] <= Height[c]
  BY ChainAssumption
<1>3. \A b \in Blocks : \A a \in Ancestors[b] : Height[a] <= Height[b]
  BY <1>2, ChainFacts
<1>4. \A b \in Blocks : \A a, c \in Ancestors[b] : Height[a] = Height[c] => a = c
  <2> SUFFICES ASSUME NEW b \in Blocks, NEW a \in Ancestors[b], NEW c \in Ancestors[b],
                      Height[a] = Height[c]
               PROVE  a = c
    OBVIOUS
  <2>1. a \in Blocks /\ c \in Blocks
    BY ChainFacts
  <2>2. Height[a] <= Height[c] /\ Height[c] <= Height[a]
    BY <2>1, <1>1
  <2>3. a \in Ancestors[c] /\ c \in Ancestors[a]
    BY <2>2, <1>2
  <2> QED
    BY <2>1, <2>3, ChainFacts
<1> QED
  BY <1>1, <1>2, <1>3, <1>4

LEMMA ParentFacts ==
    ASSUME NEW b \in Blocks \ {Bootstrap}
    PROVE  /\ Prev[b] \in Blocks /\ Prev[b] \in Ancestors[b] /\ Prev[b] # b
           /\ Ancestors[b] = Ancestors[Prev[b]] \cup {b}
           /\ b \notin Ancestors[Prev[b]]
           /\ Height[b] = Height[Prev[b]] + 1
<1>1. /\ Prev[b] \in Blocks /\ Ancestors[b] = Ancestors[Prev[b]] \cup {b}
      /\ Height[b] = Height[Prev[b]] + 1
  BY ChainAssumption
<1>2. Prev[b] \in Ancestors[b]
  BY <1>1, ChainFacts
<1>3. Height[Prev[b]] \in Nat
  BY <1>1, HeightFacts
<1>4. Prev[b] # b
  BY <1>1, <1>3
<1>5. b \notin Ancestors[Prev[b]]
  BY <1>1, <1>2, <1>4, ChainFacts
<1> QED
  BY <1>1, <1>2, <1>4, <1>5

\* The child of an ancestor a of b that b descends from.
LEMMA ChildToward ==
    ASSUME NEW b \in Blocks, NEW a \in Ancestors[b], a # b
    PROVE  \E c \in Ancestors[b] \ {Bootstrap} : Prev[c] = a
<1>1. a \in Blocks /\ Height[a] \in Nat /\ Height[b] \in Nat /\ Height[a] <= Height[b]
  BY ChainFacts, HeightFacts
<1>2. Height[a] # Height[b]
  BY ChainFacts, HeightFacts
<1>3. Bootstrap \in Ancestors[a] /\ Height[Bootstrap] \in Nat /\ Height[Bootstrap] <= Height[a]
  BY <1>1, ChainAssumption, HeightFacts
<1>4. Height[a] + 1 \in Height[Bootstrap] .. Height[b]
  BY <1>1, <1>2, <1>3
<1>5. PICK c \in Ancestors[b] : Height[c] = Height[a] + 1
  BY <1>4, ChainAssumption
<1>6. c \in Blocks \ {Bootstrap}
  BY <1>5, <1>3, <1>1, ChainFacts
<1>7. Prev[c] \in Ancestors[c] /\ Height[c] = Height[Prev[c]] + 1 /\ Prev[c] \in Blocks
  BY <1>6, ParentFacts
<1>8. Prev[c] \in Ancestors[b] /\ Height[Prev[c]] \in Nat
  BY <1>7, ChainFacts, HeightFacts
<1>9. Height[Prev[c]] = Height[a]
  BY <1>5, <1>7, <1>8, <1>1
<1> QED
  BY <1>6, <1>8, <1>9, HeightFacts

LEMMA LeastNumber ==
    ASSUME NEW S \in SUBSET Nat, S # {}
    PROVE  \E n \in S : \A m \in S : n <= m
<1>1. IsWellFoundedOn(OpToRel(<, Nat), Nat)
  BY NatLessThanWellFounded
<1>2. PICK n \in S : \A m \in S : ~(<<m, n>> \in OpToRel(<, Nat))
  BY <1>1, WFMin
<1>3. \A m \in S : ~(m < n)
  BY <1>2 DEF OpToRel
<1>4. S \subseteq Nat
  OBVIOUS
<1> QED
  BY <1>3, <1>4

\* A part of a chain has a lowest and a highest block.
LEMMA Extremes ==
    ASSUME NEW b \in Blocks, NEW S \in SUBSET Ancestors[b], S # {}
    PROVE  /\ \E a \in S : \A c \in S : Height[a] <= Height[c]
           /\ \E a \in S : \A c \in S : Height[c] <= Height[a]
<1>1. \A a \in S : /\ a \in Blocks /\ Height[a] \in Nat /\ Height[b] \in Nat
                   /\ Height[a] <= Height[b]
  BY ChainFacts, HeightFacts
<1> DEFINE H == {Height[a] : a \in S}
           D == {Height[b] - Height[a] : a \in S}
<1>2. H \in SUBSET Nat /\ H # {} /\ D \in SUBSET Nat /\ D # {}
  BY <1>1
<1>3. PICK h \in H : \A k \in H : h <= k
  BY <1>2, LeastNumber
<1>4. PICK d \in D : \A k \in D : d <= k
  BY <1>2, LeastNumber
<1>5. \E a \in S : \A c \in S : Height[a] <= Height[c]
  BY <1>3
<1>6. \E a \in S : \A c \in S : Height[c] <= Height[a]
  <2>1. PICK a \in S : d = Height[b] - Height[a]
    OBVIOUS
  <2>2. \A c \in S : Height[b] - Height[a] <= Height[b] - Height[c]
    BY <1>4, <2>1
  <2> QED
    BY <2>2, <1>1
<1> QED
  BY <1>5, <1>6

-----------------------------------------------------------------------------
(* erase_if over the tips.                                                  *)

\* The active chain in terms of ancestors.
LEMMA ActiveChain ==
    ASSUME FinalizationTypes, Rooted, NEW t \in allocated
    PROVE  /\ ActiveChainOf(t) = {a \in Ancestors[t] : root \in Ancestors[a]}
           /\ root \in ActiveChainOf(t) /\ t \in ActiveChainOf(t)
           /\ ActiveChainOf(t) \subseteq Ancestors[t]
<1>1. t \in Blocks /\ root \in Blocks /\ root \in Ancestors[t]
  BY DEF FinalizationTypes, Rooted
<1>2. \A a \in Ancestors[t] : Height[a] >= Height[root] <=> root \in Ancestors[a]
  <2> SUFFICES ASSUME NEW a \in Ancestors[t]
               PROVE  Height[a] >= Height[root] <=> root \in Ancestors[a]
    OBVIOUS
  <2>1. Height[a] \in Nat /\ Height[root] \in Nat
    BY <1>1, HeightFacts, ChainFacts
  <2>2. root \in Ancestors[a] <=> Height[root] <= Height[a]
    BY <1>1, HeightFacts
  <2> QED
    BY <2>1, <2>2
<1> QED
  BY <1>1, <1>2, ChainFacts DEF ActiveChainOf

\* The fork of a block is on the chain and an ancestor of the block.
LEMMA ForkFacts ==
    ASSUME FinalizationTypes, Rooted, NEW t \in allocated, NEW b \in allocated
    PROVE  /\ ForkOf(b, ActiveChainOf(t)) \in Ancestors[b] \cap ActiveChainOf(t)
           /\ \A c \in Ancestors[b] \cap ActiveChainOf(t) :
                 Height[c] <= Height[ForkOf(b, ActiveChainOf(t))]
<1> DEFINE S == Ancestors[b] \cap ActiveChainOf(t)
<1>1. b \in Blocks /\ S \in SUBSET Ancestors[b] /\ root \in S
  BY ActiveChain DEF FinalizationTypes, Rooted
<1>2. \E a \in S : \A c \in S : Height[c] <= Height[a]
  BY <1>1, Extremes
<1> QED
  BY <1>2 DEF ForkOf

\* The visits of erase_if are well defined, whatever the number of tips.
LEMMA VisitedUnfolds ==
    ASSUME NEW order, Len(order) \in Nat, NEW chain, NEW changed, NEW final
    PROVE  /\ Visited(order, chain, changed, final)[0] = [tips |-> ToSet(order), final |-> final]
           /\ \A i \in 1 .. Len(order) :
                 Visited(order, chain, changed, final)[i] =
                   VisitTip(Visited(order, chain, changed, final)[i - 1], order[i], chain, changed)
<1> DEFINE first == [tips |-> ToSet(order), final |-> final]
           C(x, i) == VisitTip(x, order[i], chain, changed)
           D(f, i) == IF i = 0 THEN first ELSE C(f[i - 1], i)
           Exists(n) == \E f : f = [i \in 0 .. n |-> D(f, i)]
           missing == {n \in Nat : ~Exists(n)}
<1>1. missing = {}
  <2> SUFFICES ASSUME missing # {} PROVE FALSE
    OBVIOUS
  <2>1. PICK n \in missing : \A m \in missing : n <= m
    <3>1. missing \in SUBSET Nat
      OBVIOUS
    <3> QED
      BY <3>1, LeastNumber
  <2>2. n \in Nat /\ ~Exists(n)
    OBVIOUS
  <2> HIDE DEF C, first
  <2>3. CASE n = 0
    <3> DEFINE f == [i \in 0 .. 0 |-> first]
    <3>1. f = [i \in 0 .. 0 |-> D(f, i)]
      OBVIOUS
    <3> HIDE DEF f
    <3>2. Exists(0)
      BY <3>1
    <3>3. Exists(n)
      BY <3>2, <2>3
    <3> HIDE DEF Exists
    <3> QED
      BY <3>3, <2>2
  <2>4. CASE n # 0
    <3>1. n - 1 \in Nat /\ n - 1 \notin missing
      <4> HIDE DEF missing
      <4>1. n - 1 \in Nat /\ ~(n <= n - 1)
        BY <2>2, <2>4
      <4> QED
        BY <4>1, <2>1
    <3>2. PICK f : f = [i \in 0 .. n - 1 |-> D(f, i)]
      BY <3>1
    <3> DEFINE g == [i \in 0 .. n |-> IF i = n THEN C(f[n - 1], n) ELSE f[i]]
    <3>3. ASSUME NEW i \in 0 .. n PROVE g[i] = D(g, i)
      <4>1. CASE i = 0
        BY <3>2, <4>1, <2>2, <2>4
      <4>2. CASE i # 0
        <5>1. i - 1 \in 0 .. n /\ i - 1 # n /\ g[i - 1] = f[i - 1]
          BY <4>2, <2>2
        <5>2. CASE i = n
          BY <5>1, <5>2, <4>2
        <5>3. CASE i # n
          <6>1. i \in 0 .. n - 1
            BY <5>3, <2>2
          <6>2. f[i] = D(f, i)
            BY <6>1, <3>2
          <6> QED
            BY <6>2, <5>1, <5>3, <4>2
        <5> QED
          BY <5>2, <5>3
      <4> QED
        BY <4>1, <4>2
    <3>4. g = [i \in 0 .. n |-> g[i]]
      OBVIOUS
    <3> HIDE DEF g
    <3>5. g = [i \in 0 .. n |-> D(g, i)]
      BY <3>3, <3>4
    <3> QED
      BY <3>5, <2>2
  <2> QED
    BY <2>3, <2>4
<1>2. Exists(Len(order))
  BY <1>1
<1> DEFINE u == CHOOSE f : f = [i \in 0 .. Len(order) |-> D(f, i)]
<1>3. u = [i \in 0 .. Len(order) |-> D(u, i)]
  BY <1>2
<1>4. u = Visited(order, chain, changed, final)
  BY DEF Visited
<1> HIDE DEF u
<1>5. u[0] = first /\ \A i \in 1 .. Len(order) : u[i] = C(u[i - 1], i)
  BY <1>3
<1> QED
  BY <1>4, <1>5

\* Whatever the order of the visits, the final block only moves down the active
\* chain, and a tip that is left is on that chain or descends from the final block.
LEMMA ErasedFacts ==
    ASSUME FinalizationTypes, Rooted, NEW t \in allocated, NEW order \in SetToSeqs(tips),
           NEW changed, NEW final \in ActiveChainOf(t)
    PROVE  LET e == EraseOutdated(order, ActiveChainOf(t), changed, final)
           IN  /\ e.final \in ActiveChainOf(t) /\ e.final \in Ancestors[final]
               /\ e.tips \subseteq tips
               /\ \A x \in e.tips : x \in ActiveChainOf(t) \/ e.final \in Ancestors[x]
<1> DEFINE chain == ActiveChainOf(t)
           v == Visited(order, chain, changed, final)
           N == Len(order)
           Good(i) == /\ v[i].final \in chain /\ v[i].final \in Ancestors[final]
                      /\ v[i].tips \subseteq ToSet(order)
                      /\ \A j \in 1 .. i : order[j] \in v[i].tips =>
                            order[j] \in chain \/ v[i].final \in Ancestors[order[j]]
<1>1. /\ N \in Nat /\ order \in [1 .. N -> tips]
  <2>1. IsFiniteSet(tips)
    BY FS_Subset DEF FinalizationTypes
  <2>2. Cardinality(tips) \in Nat
    BY <2>1, FS_CardinalityType
  <2>3. order \in [1 .. Cardinality(tips) -> tips]
    BY DEF SetToSeqs
  <2>4. order \in Seq(tips) /\ Len(order) = Cardinality(tips)
    BY <2>2, <2>3
  <2> QED
    BY <2>2, <2>3, <2>4
<1>2. ToSet(order) = {order[j] : j \in 1 .. N} /\ ToSet(order) \subseteq tips
  BY <1>1 DEF ToSet
<1>3. /\ v[0] = [tips |-> ToSet(order), final |-> final]
      /\ \A i \in 1 .. N : v[i] = VisitTip(v[i - 1], order[i], chain, changed)
  BY <1>1, VisitedUnfolds
<1>4. /\ t \in Blocks /\ final \in Blocks /\ final \in Ancestors[final]
      /\ chain \subseteq Ancestors[t] /\ chain \subseteq Blocks
      /\ tips \subseteq allocated /\ allocated \subseteq Blocks
  BY ActiveChain, ChainFacts DEF FinalizationTypes
<1> HIDE DEF v, N, chain
<1>5. Good(0)
  BY <1>3, <1>4 DEF chain
<1>6. ASSUME NEW i \in 1 .. N, Good(i - 1) PROVE Good(i)
  <2> DEFINE acc == v[i - 1]
             x == order[i]
  <2>1. /\ i - 1 \in Nat /\ i \in Nat /\ x \in allocated /\ x \in Blocks
        /\ v[i] = VisitTip(acc, x, chain, changed)
    BY <1>1, <1>3, <1>4
  <2>2. /\ acc.final \in chain /\ acc.final \in Ancestors[final]
        /\ acc.tips \subseteq ToSet(order)
        /\ \A j \in 1 .. i - 1 : order[j] \in acc.tips =>
              order[j] \in chain \/ acc.final \in Ancestors[order[j]]
    BY <1>6
  <2>3. \A j \in 1 .. i : j = i \/ j \in 1 .. i - 1
    BY <2>1
  <2> HIDE DEF acc, x
  <2>4. CASE x \in chain \/ acc.final \in Ancestors[x]
    <3>1. v[i] = acc
      BY <2>1, <2>4 DEF VisitTip, isBlockOutdated
    <3> QED
      BY <3>1, <2>2, <2>3, <2>4 DEF x
  <2>5. CASE x \notin chain /\ acc.final \notin Ancestors[x]
    <3> DEFINE f == IF (Ancestors[x] \ chain) \cap allocated \cap changed # {}
                      THEN ForkOf(x, chain) ELSE acc.final
    <3>1. v[i] = [tips |-> acc.tips \ {x}, final |-> f]
      BY <2>1, <2>5 DEF VisitTip, isBlockOutdated
    <3>2. ForkOf(x, chain) \in chain /\ ForkOf(x, chain) \in Ancestors[x]
      BY <2>1, ForkFacts DEF chain
    <3>3. ForkOf(x, chain) \in Ancestors[acc.final]
      BY <2>1, <2>2, <2>5, <3>2, <1>4, ChainFacts
    <3>4. f \in chain /\ f \in Ancestors[acc.final]
      BY <3>2, <3>3, <2>2, <1>4, ChainFacts
    <3> HIDE DEF f
    <3>5. v[i].final = f /\ v[i].tips = acc.tips \ {x}
      BY <3>1
    <3>6. f \in Ancestors[final]
      BY <3>4, <2>2, <1>4, ChainFacts
    <3>7. ASSUME NEW j \in 1 .. i, order[j] \in v[i].tips
          PROVE  order[j] \in chain \/ f \in Ancestors[order[j]]
      <4>1. j \in 1 .. i - 1 /\ order[j] \in acc.tips
        BY <3>7, <3>5, <2>3 DEF x
      <4>2. order[j] \in Blocks
        BY <4>1, <2>2, <1>2, <1>4
      <4> QED
        BY <4>1, <4>2, <2>2, <3>4, ChainFacts
    <3> QED
      BY <3>4, <3>5, <3>6, <3>7, <2>2
  <2> QED
    BY <2>4, <2>5
<1>7. \A i \in 0 .. N : Good(i)
  <2> DEFINE bad == {i \in 0 .. N : ~Good(i)}
  <2> SUFFICES ASSUME bad # {} PROVE FALSE
    OBVIOUS
  <2>1. PICK n \in bad : \A m \in bad : n <= m
    <3>1. bad \in SUBSET Nat
      BY <1>1
    <3> QED
      BY <3>1, LeastNumber
  <2>2. n \in 0 .. N /\ ~Good(n)
    OBVIOUS
  <2> HIDE DEF Good
  <2>3. n # 0
    BY <2>2, <1>5
  <2>4. n \in 1 .. N /\ n - 1 \in 0 .. N /\ ~(n <= n - 1)
    BY <2>2, <2>3, <1>1
  <2>5. Good(n - 1)
    BY <2>1, <2>4
  <2> QED
    BY <2>2, <2>4, <2>5, <1>6
<1>8. Good(N)
  BY <1>1, <1>7
<1>9. EraseOutdated(order, chain, changed, final) = v[N]
  BY DEF EraseOutdated, v, N
<1>10. \A y \in v[N].tips : \E j \in 1 .. N : y = order[j]
  BY <1>2, <1>8
<1> QED
  BY <1>2, <1>8, <1>9, <1>10 DEF chain

-----------------------------------------------------------------------------
(* The outcome of finalizeBlocks.                                           *)

\* What an operation that moves the tip to t may rely on: what stays in memory is
\* a tree on the new root that holds t and the tips that are left, the blocks that
\* are marked are the lower part of its chain, and no unsaved block of it goes.
SoundOutcome(r, t, changed) ==
    /\ r.root \in Ancestors[t] /\ root \in Ancestors[r.root]
    /\ t \notin r.gone
    /\ \A b \in allocated \ r.gone : r.root \in Ancestors[b]
    /\ \A b \in allocated \ r.gone :
          \A a \in Ancestors[b] : r.root \in Ancestors[a] => a \notin r.gone
    /\ r.tips \subseteq tips \ r.gone
    /\ r.marked \subseteq Ancestors[t]
    /\ \A b \in r.marked : /\ r.root \in Ancestors[b]
                           /\ \A a \in Ancestors[b] : r.root \in Ancestors[a] => a \in r.marked
    /\ \A d \in changed \cap Ancestors[t] : root \in Ancestors[d] => r.root \in Ancestors[d]

\* A tip that is an ancestor of a valid block is that block.
LEMMA TipsOnChain ==
    ASSUME FinalizationTypes, Rooted, PathsAllocated, TipsAreLeaves,
           NEW t \in allocated, ~IsFailed(t), NEW x \in tips, x \in Ancestors[t]
    PROVE  x = t
<1> SUFFICES ASSUME x # t PROVE FALSE
  OBVIOUS
<1>1. t \in Blocks /\ x \in allocated /\ x \in Blocks /\ root \in Ancestors[x]
  BY DEF FinalizationTypes, Rooted
<1>2. PICK c \in Ancestors[t] \ {Bootstrap} : Prev[c] = x
  BY <1>1, ChildToward
<1>3. c \in Blocks \ {Bootstrap}
  BY <1>1, <1>2, ChainFacts
<1>4. x \in Ancestors[c]
  BY <1>2, <1>3, ParentFacts
<1>5. root \in Ancestors[c]
  BY <1>1, <1>3, <1>4, ChainFacts
<1>6. c \in allocated
  BY <1>2, <1>5 DEF PathsAllocated
<1>7. ~IsFailed(c)
  BY <1>1, <1>2, ChainFacts DEF IsFailed
<1>8. c \in Children(x)
  BY <1>2, <1>3 DEF Children
<1> QED
  BY <1>6, <1>7, <1>8 DEF TipsAreLeaves, CanBeATip

LEMMA BlockAtFacts ==
    ASSUME FinalizationTypes, Rooted, NEW t \in allocated,
           NEW h \in Int, Height[root] <= h, h <= Height[t]
    PROVE  /\ BlockAt(ActiveChainOf(t), h) \in ActiveChainOf(t)
           /\ Height[BlockAt(ActiveChainOf(t), h)] = h
<1>1. t \in Blocks /\ root \in Blocks /\ Height[root] \in Nat /\ Height[t] \in Nat
  BY HeightFacts DEF FinalizationTypes
<1>2. Bootstrap \in Ancestors[root] /\ Height[Bootstrap] \in Nat /\ Height[Bootstrap] <= Height[root]
  BY <1>1, ChainAssumption, HeightFacts
<1>3. h \in Height[Bootstrap] .. Height[t]
  BY <1>1, <1>2
<1>4. PICK a \in Ancestors[t] : Height[a] = h
  BY <1>1, <1>3, ChainAssumption
<1>5. a \in ActiveChainOf(t)
  BY <1>1, <1>4 DEF ActiveChainOf
<1> QED
  BY <1>4, <1>5 DEF BlockAt

\* SavedUpTo waits for the lowest unsaved block of the chain.
LEMMA SavedUpToFacts ==
    ASSUME FinalizationTypes, Rooted, NEW t \in allocated, NEW changed,
           NEW target \in ActiveChainOf(t)
    PROVE  LET s == SavedUpTo(ActiveChainOf(t), changed, target)
           IN  /\ s \in ActiveChainOf(t) /\ s \in Ancestors[target]
               /\ \A d \in changed \cap ActiveChainOf(t) : s \in Ancestors[d]
<1> DEFINE chain == ActiveChainOf(t)
           unsaved == {b \in Ancestors[target] \cap chain : b \in changed}
           s == SavedUpTo(chain, changed, target)
<1>1. t \in Blocks /\ chain \subseteq Ancestors[t] /\ target \in Blocks
      /\ chain \subseteq Blocks
  BY ActiveChain, ChainFacts DEF FinalizationTypes
<1> HIDE DEF chain
<1>2. CASE unsaved = {}
  <2>1. s = target /\ target \in Ancestors[target] /\ target \in chain
    BY <1>1, <1>2, ChainFacts DEF SavedUpTo, chain
  <2>2. \A d \in changed \cap chain : target \in Ancestors[d]
    BY <1>1, <1>2, <2>1, ChainFacts
  <2> QED
    BY <2>1, <2>2 DEF chain
<1>3. CASE unsaved # {}
  <2>1. \E b \in unsaved : \A c \in unsaved : Height[b] <= Height[c]
    BY <1>1, <1>3, Extremes
  <2>2. s \in unsaved /\ \A c \in unsaved : Height[s] <= Height[c]
    BY <1>3, <2>1 DEF SavedUpTo
  <2> HIDE DEF s
  <2>3. ASSUME NEW d \in changed \cap chain PROVE s \in Ancestors[d]
    <3>1. CASE d \in Ancestors[target]
      BY <3>1, <2>2, <1>1, HeightFacts
    <3>2. CASE d \notin Ancestors[target]
      <4>1. target \in Ancestors[d]
        BY <3>2, <1>1, ChainFacts DEF chain
      <4> QED
        BY <4>1, <2>2, <1>1, ChainFacts
    <3> QED
      BY <3>1, <3>2
  <2> QED
    BY <2>2, <2>3 DEF chain, s
<1> QED
  BY <1>2, <1>3

\* finalizeBlockImpl, for any order of its visits.
LEMMA ImplSound ==
    ASSUME FinalizationTypes, Rooted, PathsAllocated, TipsAreLeaves,
           NEW t \in allocated, ~IsFailed(t), NEW changed, NEW target \in ActiveChainOf(t),
           NEW r \in finalizeBlockImpl(ActiveChainOf(t), changed, target)
    PROVE  SoundOutcome(r, t, changed)
<1> DEFINE chain == ActiveChainOf(t)
           s == SavedUpTo(chain, changed, target)
<1>1. /\ t \in Blocks /\ root \in Blocks /\ chain \subseteq Ancestors[t] /\ chain \subseteq Blocks
      /\ \A a \in chain : root \in Ancestors[a]
      /\ allocated \subseteq Blocks /\ tips \subseteq allocated
      /\ root \in Ancestors[t]
  BY ActiveChain, ChainFacts DEF FinalizationTypes, Rooted
<1>2. /\ s \in chain /\ s \in Ancestors[target]
      /\ \A d \in changed \cap chain : s \in Ancestors[d]
  BY SavedUpToFacts
<1> HIDE DEF s
<1>3. PICK order \in SetToSeqs(tips) :
        r = LET e == EraseOutdated(order, chain, changed, s)
                newRoot == NewRoot(chain, e.final)
            IN  [tips   |-> e.tips,
                 root   |-> newRoot,
                 gone   |-> Deallocated(newRoot, e.final),
                 marked |-> {b \in Ancestors[e.final] : Height[b] >= Height[newRoot]}]
  BY DEF finalizeBlockImpl, s
<1> DEFINE e == EraseOutdated(order, chain, changed, s)
           f == e.final
           n == NewRoot(chain, f)
<1>4. /\ f \in chain /\ f \in Ancestors[s] /\ e.tips \subseteq tips
      /\ \A x \in e.tips : x \in chain \/ f \in Ancestors[x]
  BY <1>2, ErasedFacts
<1>5. /\ r.tips = e.tips /\ r.root = n /\ r.gone = Deallocated(n, f)
      /\ r.marked = {b \in Ancestors[f] : Height[b] >= Height[n]}
  BY <1>3
<1> HIDE DEF e, f
<1>6. /\ n \in chain /\ n \in Ancestors[f] /\ f \in Blocks /\ n \in Blocks
  <2> DEFINE k == Height[f] - PreserveBlocksBehindFinal
             h == IF k < Height[root] THEN Height[root] ELSE k
  <2>1. /\ f \in Blocks /\ Height[f] \in Nat /\ Height[root] \in Nat /\ Height[t] \in Nat
        /\ root \in Ancestors[f] /\ f \in Ancestors[t]
    BY <1>1, <1>4, HeightFacts
  <2>2. Height[root] <= Height[f] /\ Height[f] <= Height[t]
    BY <2>1, <1>1, HeightFacts
  <2>3. h \in Int /\ Height[root] <= h /\ h <= Height[f] /\ h <= Height[t]
    BY <2>1, <2>2, FinalizationAssumption
  <2>4. n = BlockAt(chain, h)
    BY DEF NewRoot
  <2> HIDE DEF h
  <2>5. n \in chain /\ Height[n] = h
    BY <2>3, <2>4, BlockAtFacts
  <2>6. n \in Ancestors[f]
    BY <2>1, <2>3, <2>5, <1>1, HeightFacts
  <2> QED
    BY <2>1, <2>5, <2>6, <1>1
<1> HIDE DEF n, chain
<1>7. \A b \in allocated : f \in Ancestors[b] => b \notin r.gone
  <2> SUFFICES ASSUME NEW b \in allocated, f \in Ancestors[b], b \in r.gone PROVE FALSE
    OBVIOUS
  <2>1. b \in Blocks /\ n \in Ancestors[b] /\ b \in Subtree(n)
    BY <1>1, <1>6, ChainFacts DEF Subtree
  <2>2. f # n /\ \E p \in Children(Prev[f]) \ {f} : b \in Subtree(p)
    BY <2>1, <1>5 DEF Deallocated
  <2>3. f # Bootstrap
    BY <2>2, <1>6, ChainAssumption
  <2>4. PICK p \in Children(Prev[f]) \ {f} : p \in Ancestors[b]
    BY <2>2 DEF Subtree
  <2>5. p \in Blocks \ {Bootstrap} /\ Prev[p] = Prev[f]
    BY <2>4 DEF Children
  <2>6. Height[p] = Height[f]
    BY <2>3, <2>5, <1>6, ParentFacts
  <2> QED
    BY <2>1, <2>4, <2>6, HeightFacts
<1>8. \A b \in allocated \ r.gone : n \in Ancestors[b]
  <2> SUFFICES ASSUME NEW b \in allocated \ r.gone PROVE n \in Ancestors[b]
    OBVIOUS
  <2>1. n # root => b \in Subtree(n)
    BY <1>5 DEF Deallocated
  <2>2. root \in Ancestors[b]
    BY DEF Rooted
  <2> QED
    BY <2>1, <2>2 DEF Subtree
<1>9. ASSUME NEW b \in allocated \ r.gone, NEW a \in Ancestors[b], n \in Ancestors[a], a \in r.gone
      PROVE  FALSE
  <2>1. a \in allocated /\ n # root /\ b \in Blocks
    <3>1. root \in Ancestors[a] /\ b \in Blocks /\ a \in Blocks
      BY <1>1, <1>6, <1>9, ChainFacts
    <3> QED
      BY <3>1, <1>5, <1>9 DEF PathsAllocated, Deallocated
  <2>2. a \in Subtree(n)
    BY <2>1, <1>9 DEF Subtree
  <2>3. f # n /\ \E p \in Children(Prev[f]) \ {f} : a \in Subtree(p)
    BY <2>1, <2>2, <1>9, <1>5 DEF Deallocated
  <2>4. PICK p \in Children(Prev[f]) \ {f} : p \in Ancestors[a]
    BY <2>3 DEF Subtree
  <2>5. b \in Subtree(p)
    BY <2>1, <2>4, ChainFacts DEF Subtree
  <2> QED
    BY <2>1, <2>3, <2>4, <2>5, <1>5 DEF Deallocated
<1>10. f \in Ancestors[t] /\ t \notin r.gone
  BY <1>1, <1>4, <1>7
<1>11. r.tips \subseteq tips \ r.gone
  <2> SUFFICES ASSUME NEW x \in e.tips PROVE x \notin r.gone
    BY <1>4, <1>5
  <2>1. CASE x \in chain
    <3>1. x = t
      BY <2>1, <1>1, <1>4, TipsOnChain
    <3> QED
      BY <3>1, <1>10
  <2>2. CASE f \in Ancestors[x]
    BY <2>2, <1>1, <1>4, <1>7
  <2> QED
    BY <2>1, <2>2, <1>4
<1>12. \A b \in Ancestors[f] : Height[b] >= Height[n] <=> n \in Ancestors[b]
  <2> SUFFICES ASSUME NEW b \in Ancestors[f] PROVE Height[b] >= Height[n] <=> n \in Ancestors[b]
    OBVIOUS
  <2>1. Height[b] \in Nat /\ Height[n] \in Nat
    BY <1>6, ChainFacts, HeightFacts
  <2>2. n \in Ancestors[b] <=> Height[n] <= Height[b]
    BY <1>6, HeightFacts
  <2> QED
    BY <2>1, <2>2
<1>13. r.marked = {b \in Ancestors[f] : n \in Ancestors[b]}
  BY <1>5, <1>12
<1>14. r.marked \subseteq Ancestors[t]
  BY <1>1, <1>10, <1>13, ChainFacts
<1>15. \A b \in r.marked : \A a \in Ancestors[b] : n \in Ancestors[a] => a \in r.marked
  BY <1>6, <1>13, ChainFacts
<1>16. ASSUME NEW d \in changed \cap Ancestors[t], root \in Ancestors[d] PROVE n \in Ancestors[d]
  <2>1. d \in chain /\ d \in Blocks
    BY <1>16, <1>1, ActiveChain, ChainFacts DEF chain
  <2>2. s \in Ancestors[d] /\ s \in Blocks
    BY <1>1, <1>2, <2>1
  <2>3. f \in Ancestors[d]
    BY <1>4, <2>1, <2>2, ChainFacts
  <2> QED
    BY <1>6, <2>1, <2>3, ChainFacts
<1>17. root \in Ancestors[n] /\ n \in Ancestors[t]
  BY <1>1, <1>6
<1> QED
  BY <1>5, <1>8, <1>9, <1>10, <1>11, <1>13, <1>14, <1>15, <1>16, <1>17 DEF SoundOutcome

\* finalizeBlocks on a tip t, or on a temporary block on t.
LEMMA FinalizeSound ==
    ASSUME FinalizationTypes, Rooted, PathsAllocated, TipsAreLeaves,
           NEW t \in allocated, ~IsFailed(t), NEW changed,
           NEW h \in {Height[t], Height[t] + 1}, NEW r \in finalizeBlocks(t, h, changed)
    PROVE  SoundOutcome(r, t, changed)
<1> DEFINE chain == ActiveChainOf(t)
           k == h - MaxReorgBlocks
           g == IF k < Height[root] THEN Height[root] ELSE k
           target == BlockAt(chain, g)
<1>1. /\ t \in Blocks /\ root \in Blocks /\ root \in Ancestors[t]
      /\ Height[t] \in Nat /\ Height[root] \in Nat /\ Height[root] <= Height[t]
  BY HeightFacts DEF FinalizationTypes, Rooted
<1>2. g \in Int /\ Height[root] <= g /\ g <= Height[t]
  BY <1>1, FinalizationAssumption
<1>3. target \in chain
  BY <1>2, BlockAtFacts
<1>4. ASSUME r = NothingFinalized \/ r = [NothingFinalized EXCEPT !.marked = {root}]
      PROVE  SoundOutcome(r, t, changed)
  <2>1. /\ r.root = root /\ r.gone = {} /\ r.tips = tips
        /\ r.marked \subseteq {root}
    BY <1>4 DEF NothingFinalized
  <2>2. root \in Ancestors[root] /\ \A a \in Ancestors[root] : root \in Ancestors[a] => a = root
    BY <1>1, ChainFacts
  <2> QED
    BY <1>1, <2>1, <2>2 DEF SoundOutcome, Rooted
<1>5. \/ r = NothingFinalized \/ r = [NothingFinalized EXCEPT !.marked = {root}]
      \/ r \in finalizeBlockImpl(chain, changed, target)
  BY DEF finalizeBlocks
<1> HIDE DEF target
<1> QED
  BY <1>3, <1>4, <1>5, ImplSound

-----------------------------------------------------------------------------
(* What the operations preserve.                                            *)

\* Forgetting a sound outcome leaves a tree with its final blocks on the chain of
\* the new tip, and no block can become a tip by it.
LEMMA ForgetKeeps ==
    ASSUME FinalizationInv, NEW to \in allocated, ~IsFailed(to), finalized \subseteq Ancestors[to],
           NEW changed, NEW r, SoundOutcome(r, to, changed), Forget(r), tip' = to
    PROVE  /\ allocated' = allocated \ r.gone /\ allocated' \subseteq Blocks /\ IsFiniteSet(allocated')
           /\ tip' \in allocated' /\ root' \in allocated' /\ finalized' \subseteq allocated'
           /\ Rooted' /\ PathsAllocated' /\ FinalOnChain' /\ FinalIdsOnChain'
           /\ \A c \in allocated' : IsFailed(c) => Ancestors[c] \cap (failed \ r.gone) # {}
<1>1. /\ allocated \subseteq Blocks /\ IsFiniteSet(allocated) /\ to \in Blocks /\ root \in Blocks
      /\ finalized \subseteq allocated /\ failed \subseteq allocated
      /\ \A b \in allocated : root \in Ancestors[b]
      /\ \A b \in allocated : \A a \in Ancestors[b] : root \in Ancestors[a] => a \in allocated
      /\ \A b \in finalized : \A a \in Ancestors[b] : root \in Ancestors[a] => a \in finalized
  BY DEF FinalizationInv, FinalizationTypes, Rooted, PathsAllocated, FinalOnChain
<1>2. /\ r.root \in Ancestors[to] /\ root \in Ancestors[r.root] /\ to \notin r.gone
      /\ \A b \in allocated \ r.gone : r.root \in Ancestors[b]
      /\ \A b \in allocated \ r.gone :
            \A a \in Ancestors[b] : r.root \in Ancestors[a] => a \notin r.gone
      /\ r.marked \subseteq Ancestors[to]
      /\ \A b \in r.marked : /\ r.root \in Ancestors[b]
                             /\ \A a \in Ancestors[b] : r.root \in Ancestors[a] => a \in r.marked
  BY DEF SoundOutcome
<1>3. /\ allocated' = allocated \ r.gone /\ finalized' = (finalized \cup r.marked) \ r.gone
      /\ finalizedIds' = finalizedIds \cup UNION {Payloads[b] : b \in r.marked} /\ root' = r.root
  BY DEF Forget, KeepIds
<1>4. r.root \in Blocks /\ r.root \in Ancestors[r.root]
  BY <1>1, <1>2, ChainFacts
<1>5. \A a \in Ancestors[to] : r.root \in Ancestors[a] => a \in allocated'
  <2> SUFFICES ASSUME NEW a \in Ancestors[to], r.root \in Ancestors[a] PROVE a \in allocated'
    OBVIOUS
  <2>1. a \in Blocks /\ root \in Ancestors[a]
    BY <1>1, <1>2, ChainFacts
  <2> QED
    BY <2>1, <1>1, <1>2, <1>3
<1>6. allocated' \subseteq Blocks /\ IsFiniteSet(allocated') /\ tip' \in allocated' /\ root' \in allocated'
  BY <1>1, <1>2, <1>3, <1>4, <1>5, FS_Subset
<1>7. finalized' \subseteq allocated'
  BY <1>1, <1>2, <1>3, <1>5
<1>8. Rooted'
  BY <1>2, <1>3 DEF Rooted
<1>9. PathsAllocated'
  <2> SUFFICES ASSUME NEW b \in allocated', NEW a \in Ancestors[b], root' \in Ancestors[a]
               PROVE  a \in allocated'
    BY DEF PathsAllocated
  <2>1. b \in Blocks /\ a \in Blocks /\ root \in Ancestors[a]
    BY <1>1, <1>2, <1>3, ChainFacts
  <2> QED
    BY <2>1, <1>1, <1>2, <1>3
<1>10. FinalOnChain'
  <2>1. finalized' \subseteq Ancestors[tip']
    BY <1>2, <1>3
  <2>2. ASSUME NEW b \in finalized', NEW a \in Ancestors[b], root' \in Ancestors[a]
        PROVE  a \in finalized'
    <3>1. b \in Blocks /\ a \in Blocks /\ a \in Ancestors[to] /\ root \in Ancestors[a]
      BY <1>1, <1>2, <1>3, <1>7, <2>1, <2>2, ChainFacts
    <3>2. a \in allocated'
      BY <3>1, <1>3, <1>5, <2>2
    <3> QED
      BY <3>1, <3>2, <1>1, <1>2, <1>3, <2>2
  <2> QED
    BY <2>1, <2>2 DEF FinalOnChain
<1>11. FinalIdsOnChain'
  <2> SUFFICES ASSUME NEW i \in finalizedIds'
               PROVE  \E a \in finalized' \cup Ancestors[root'] : i \in Payloads[a]
    BY DEF FinalIdsOnChain
  <2>1. CASE i \in finalizedIds
    <3>1. PICK a \in finalized \cup Ancestors[root] : i \in Payloads[a]
      BY <2>1 DEF FinalizationInv, FinalIdsOnChain
    <3>2. CASE a \in Ancestors[root]
      BY <3>1, <3>2, <1>2, <1>3, <1>4, ChainFacts
    <3>3. CASE a \in finalized
      <4>1. a \in Ancestors[to] /\ a \in Blocks
        BY <3>3, <1>1
      <4>2. r.root \in Ancestors[a] \/ a \in Ancestors[r.root]
        BY <4>1, <1>1, <1>2, ChainFacts
      <4> QED
        BY <4>1, <4>2, <3>1, <3>3, <1>3, <1>5
    <3> QED
      BY <3>1, <3>2, <3>3
  <2>2. CASE i \notin finalizedIds
    <3>1. PICK b \in r.marked : i \in Payloads[b]
      BY <2>2, <1>3
    <3>2. b \in finalized'
      BY <3>1, <1>2, <1>3, <1>5
    <3> QED
      BY <3>1, <3>2
  <2> QED
    BY <2>1, <2>2
<1>12. ASSUME NEW c \in allocated', IsFailed(c), Ancestors[c] \cap (failed \ r.gone) = {}
       PROVE  FALSE
  <2>1. PICK a \in Ancestors[c] \cap failed : a \in r.gone
    BY <1>12 DEF IsFailed
  <2>2. c \in Blocks /\ r.root \in Ancestors[c] /\ r.root \notin Ancestors[a]
    BY <2>1, <1>1, <1>2, <1>3, <1>12
  <2>3. a \in Ancestors[r.root]
    BY <2>1, <2>2, ChainFacts
  <2>4. a \in Ancestors[to]
    BY <2>3, <1>1, <1>2, ChainFacts
  <2> QED
    BY <2>1, <2>4 DEF IsFailed
<1> QED
  BY <1>3, <1>6, <1>7, <1>8, <1>9, <1>10, <1>11, <1>12

\* The blocks that a move of the tip touches are in memory.
LEMMA MovedFacts ==
    ASSUME FinalizationInv, NEW to \in allocated
    PROVE  Moved(to) \subseteq allocated
<1> SUFFICES ASSUME NEW s \in allocated, NEW t \in allocated, NEW x \in Ancestors[s] \ Ancestors[t]
             PROVE  x \in allocated
  BY DEF Moved, FinalizationInv, FinalizationTypes
<1>1. s \in Blocks /\ t \in Blocks /\ root \in Ancestors[s] /\ root \in Ancestors[t]
  BY DEF FinalizationInv, FinalizationTypes, Rooted
<1>2. root \in Ancestors[x]
  BY <1>1, ChainFacts
<1> QED
  BY <1>2 DEF FinalizationInv, PathsAllocated

\* The first state: Bootstrap is the tree.
LEMMA InitKeeps ==
    FinalizationInit => FinalizationInv
<1> SUFFICES ASSUME FinalizationInit PROVE FinalizationInv
  OBVIOUS
<1>1. Bootstrap \in Blocks /\ Ancestors[Bootstrap] = {Bootstrap} /\ IsFiniteSet({Bootstrap})
  BY ChainAssumption, FS_Singleton
<1>2. \A t \in tips : \A c \in Children(t) : ~CanBeATip(c)
  BY DEF FinalizationInit, Children, CanBeATip
<1> QED
  BY <1>1, <1>2 DEF FinalizationInit, FinalizationInv, FinalizationTypes, Rooted, PathsAllocated,
     TipNotFailed, IsFailed, TipsAreLeaves, FinalOnChain, FinalIdsOnChain

LEMMA AcceptBlockKeeps ==
    ASSUME FinalizationInv, NEW b \in Blocks \ {Bootstrap}, AcceptBlock(b)
    PROVE  FinalizationInv'
<1>1. /\ b \notin allocated /\ Prev[b] \in allocated /\ allocated' = allocated \cup {b}
      /\ dirty' = dirty \cup {b} /\ failed \subseteq failed' /\ failed' \subseteq failed \cup {b}
      /\ tips' = IF Ancestors[b] \cap failed' = {} THEN (tips \ {Prev[b]}) \cup {b} ELSE tips
      /\ tip' = tip /\ root' = root /\ finalized' = finalized /\ finalizedIds' = finalizedIds
  BY DEF AcceptBlock
<1>2. /\ allocated \subseteq Blocks /\ IsFiniteSet(allocated) /\ tip \in allocated /\ root \in allocated
      /\ tips \cup failed \cup dirty \cup finalized \subseteq allocated
      /\ \A c \in allocated : root \in Ancestors[c]
      /\ \A c \in allocated : \A a \in Ancestors[c] : root \in Ancestors[a] => a \in allocated
      /\ Ancestors[tip] \cap failed = {}
  BY DEF FinalizationInv, FinalizationTypes, Rooted, PathsAllocated, TipNotFailed, IsFailed
<1>3. /\ Ancestors[b] = Ancestors[Prev[b]] \cup {b} /\ root \in Ancestors[b]
      /\ \A c \in allocated : b \notin Ancestors[c]
  BY <1>1, <1>2, ParentFacts
<1>4. FinalizationTypes'
  <2>1. IsFiniteSet(allocated')
    BY <1>1, <1>2, FS_AddElement
  <2>2. /\ allocated' \subseteq Blocks /\ tip' \in allocated' /\ root' \in allocated'
        /\ tips' \cup failed' \cup dirty' \cup finalized' \subseteq allocated'
    BY <1>1, <1>2
  <2> QED
    BY <2>1, <2>2 DEF FinalizationTypes
<1>5. Rooted' /\ PathsAllocated'
  BY <1>1, <1>2, <1>3 DEF Rooted, PathsAllocated
<1>6. TipNotFailed'
  BY <1>1, <1>2, <1>3 DEF TipNotFailed, IsFailed
<1>7. TipsAreLeaves'
  <2> SUFFICES ASSUME NEW t \in tips', NEW c \in Children(t), c \in allocated',
                      Ancestors[c] \cap failed' = {}
               PROVE  FALSE
    BY DEF TipsAreLeaves, CanBeATip, IsFailed, Children
  <2>1. c \in Blocks \ {Bootstrap} /\ Prev[c] = t /\ t \in Ancestors[c] /\ t # c
    BY ParentFacts DEF Children
  <2>2. CASE c = b
    BY <2>1, <2>2, <1>1
  <2>3. CASE c # b
    <3>1. c \in allocated /\ CanBeATip(c)
      BY <2>3, <1>1 DEF CanBeATip, IsFailed
    <3>2. t # b
      BY <2>1, <3>1, <1>3
    <3> QED
      BY <3>1, <3>2, <1>1 DEF FinalizationInv, TipsAreLeaves
  <2> QED
    BY <2>2, <2>3
<1>8. FinalOnChain' /\ FinalIdsOnChain'
  BY <1>1 DEF FinalizationInv, FinalOnChain, FinalIdsOnChain
<1> QED
  BY <1>4, <1>5, <1>6, <1>7, <1>8 DEF FinalizationInv

\* What the operations that end in overrideTip have in common.
LEMMA FinalizingKeeps ==
    ASSUME FinalizationInv, NEW to \in allocated, ~IsFailed(to), finalized \subseteq Ancestors[to],
           NEW changed \in SUBSET allocated, NEW r, SoundOutcome(r, to, changed), Forget(r), tip' = to,
           tips' = r.tips, dirty' = changed \ r.gone, failed' = failed \ r.gone
    PROVE  FinalizationInv'
<1>1. /\ allocated' = allocated \ r.gone /\ allocated' \subseteq Blocks /\ IsFiniteSet(allocated')
      /\ tip' \in allocated' /\ root' \in allocated' /\ finalized' \subseteq allocated'
      /\ Rooted' /\ PathsAllocated' /\ FinalOnChain' /\ FinalIdsOnChain'
      /\ \A c \in allocated' : IsFailed(c) => Ancestors[c] \cap (failed \ r.gone) # {}
  BY ForgetKeeps
<1>2. r.tips \subseteq tips \ r.gone /\ tips \cup failed \subseteq allocated
  BY DEF SoundOutcome, FinalizationInv, FinalizationTypes
<1>3. FinalizationTypes'
  BY <1>1, <1>2 DEF FinalizationTypes
<1>4. TipNotFailed'
  BY DEF TipNotFailed, IsFailed
<1>5. TipsAreLeaves'
  BY <1>1, <1>2 DEF FinalizationInv, TipsAreLeaves, CanBeATip, IsFailed, Children
<1> QED
  BY <1>1, <1>3, <1>4, <1>5 DEF FinalizationInv

LEMMA SetStateKeeps ==
    ASSUME FinalizationInv, NEW to \in allocated, SetState(to)
    PROVE  FinalizationInv'
<1>1. ~IsFailed(to) /\ finalized \subseteq Ancestors[to] /\ tip' = to
  BY DEF SetState, CanBeATip, CanUnapply, FinalizationInv, FinalOnChain
<1> DEFINE changed == dirty \cup Moved(to)
<1>2. PICK r \in finalizeBlocks(to, Height[to], changed) :
        /\ Forget(r) /\ tips' = r.tips /\ dirty' = changed \ r.gone /\ failed' = failed \ r.gone
  BY DEF SetState
<1>3. changed \in SUBSET allocated
  BY MovedFacts DEF FinalizationInv, FinalizationTypes
<1> HIDE DEF changed
<1>4. SoundOutcome(r, to, changed)
  BY <1>1, FinalizeSound DEF FinalizationInv
<1> QED
  BY <1>1, <1>2, <1>3, <1>4, FinalizingKeeps

\* Fork resolution moves the tip only to a chain with every final block: the
\* lowest final block off that chain would be next to the fork.
LEMMA WinnerHoldsFinal ==
    ASSUME FinalizationInv, NEW to \in allocated, ~FinalChainWins(to)
    PROVE  finalized \subseteq Ancestors[to]
<1> SUFFICES ASSUME NEW f \in finalized, f \notin Ancestors[to] PROVE FALSE
  OBVIOUS
<1> DEFINE chain == ActiveChainOf(tip)
           k == ForkOf(to, chain)
<1>1. /\ tip \in allocated /\ tip \in Blocks /\ to \in Blocks /\ f \in Blocks /\ f \in Ancestors[tip]
      /\ FinalizationTypes /\ Rooted
      /\ \A a \in Ancestors[f] : root \in Ancestors[a] => a \in finalized
      /\ root \in Ancestors[f]
  BY DEF FinalizationInv, FinalizationTypes, FinalOnChain, Rooted
<1>2. k \in Ancestors[to] /\ k \in chain
  BY <1>1, ForkFacts
<1>3. chain = {a \in Ancestors[tip] : root \in Ancestors[a]}
  BY <1>1, ActiveChain
<1> HIDE DEF k, chain
<1>4. k \in Ancestors[f] /\ k # f /\ k \in Blocks /\ root \in Ancestors[k]
  BY <1>1, <1>2, <1>3, ChainFacts
<1>5. PICK c \in Ancestors[f] \ {Bootstrap} : Prev[c] = k
  BY <1>1, <1>4, ChildToward
<1>6. c \in Blocks \ {Bootstrap} /\ k \in Ancestors[c] /\ Height[c] = Height[k] + 1
  BY <1>1, <1>5, ChainFacts, ParentFacts
<1>7. root \in Ancestors[c]
  BY <1>4, <1>6, ChainFacts
<1>8. c \in finalized /\ c \in chain
  BY <1>1, <1>3, <1>5, <1>7, ChainFacts
<1> QED
  BY <1>6, <1>8 DEF FinalChainWins, k, chain

LEMMA ComparePopScoreKeeps ==
    ASSUME FinalizationInv, NEW to \in allocated, ComparePopScore(to)
    PROVE  FinalizationInv'
<1>1. /\ ~IsFailed(to) /\ ~FinalChainWins(to) /\ tip' \in {tip, to} /\ dirty' \subseteq dirty \cup Moved(to)
      /\ allocated' = allocated /\ failed' = failed /\ tips' = tips /\ root' = root
      /\ finalized' = finalized /\ finalizedIds' = finalizedIds
  BY DEF ComparePopScore, CanBeATip, Moved
<1>2. finalized \subseteq Ancestors[to]
  BY <1>1, WinnerHoldsFinal
<1>3. Moved(to) \subseteq allocated
  BY MovedFacts
<1>4. FinalizationTypes'
  BY <1>1, <1>3 DEF FinalizationInv, FinalizationTypes
<1>5. Rooted' /\ PathsAllocated' /\ TipsAreLeaves' /\ FinalIdsOnChain'
  BY <1>1 DEF FinalizationInv, Rooted, PathsAllocated, TipsAreLeaves, CanBeATip, IsFailed, Children,
     FinalIdsOnChain
<1>6. TipNotFailed' /\ FinalOnChain'
  BY <1>1, <1>2 DEF FinalizationInv, TipNotFailed, IsFailed, FinalOnChain
<1> QED
  BY <1>4, <1>5, <1>6 DEF FinalizationInv

LEMMA InvalidateSideKeeps ==
    ASSUME FinalizationInv, NEW b \in Blocks \ {Bootstrap}, InvalidateSide(b)
    PROVE  FinalizationInv'
<1>1. /\ b \in allocated /\ b # root /\ b \notin ActiveChainOf(tip)
      /\ failed' = failed \cup {b} /\ dirty' = dirty \cup Subtree(b) /\ tips' = TipsWithout(tips, b)
      /\ allocated' = allocated /\ tip' = tip /\ root' = root
      /\ finalized' = finalized /\ finalizedIds' = finalizedIds
  BY DEF InvalidateSide
<1>2. /\ allocated \subseteq Blocks /\ tip \in allocated /\ root \in Ancestors[b]
      /\ FinalizationTypes /\ Rooted /\ Ancestors[tip] \cap failed = {}
      /\ tips \cup failed \cup dirty \cup finalized \subseteq allocated
  BY <1>1 DEF FinalizationInv, FinalizationTypes, Rooted, TipNotFailed, IsFailed
<1>3. Prev[b] \in allocated
  BY <1>1, <1>2, ParentFacts DEF FinalizationInv, PathsAllocated
<1>4. FinalizationTypes'
  <2>1. Subtree(b) \subseteq allocated /\ tips' \subseteq allocated
    BY <1>1, <1>2, <1>3 DEF Subtree, TipsWithout
  <2> QED
    BY <2>1, <1>1, <1>2 DEF FinalizationTypes
<1>5. b \notin Ancestors[tip]
  BY <1>1, <1>2, ActiveChain
<1>6. TipNotFailed'
  BY <1>1, <1>2, <1>5 DEF TipNotFailed, IsFailed
<1>7. TipsAreLeaves'
  <2> SUFFICES ASSUME NEW t \in tips', NEW c \in Children(t), c \in allocated',
                      Ancestors[c] \cap failed' = {}
               PROVE  FALSE
    BY DEF TipsAreLeaves, CanBeATip, IsFailed, Children
  <2>1. CanBeATip(c) /\ b \notin Ancestors[c] /\ c # b
    BY <1>1, <1>2, ChainFacts DEF CanBeATip, IsFailed
  <2>2. CASE t \in tips
    BY <2>1, <2>2 DEF FinalizationInv, TipsAreLeaves
  <2>3. CASE t \notin tips
    BY <2>1, <2>3, <1>1 DEF TipsWithout
  <2> QED
    BY <2>2, <2>3
<1>8. Rooted' /\ PathsAllocated' /\ FinalOnChain' /\ FinalIdsOnChain'
  BY <1>1 DEF FinalizationInv, Rooted, PathsAllocated, FinalOnChain, FinalIdsOnChain
<1> QED
  BY <1>4, <1>6, <1>7, <1>8 DEF FinalizationInv

\* The parent of a block of the active chain but for its first.
LEMMA ActiveParent ==
    ASSUME FinalizationInv, NEW b \in Blocks \ {Bootstrap}, b \in ActiveChainOf(tip) \ {root},
           CanUnapply(Prev[b])
    PROVE  /\ Prev[b] \in allocated /\ ~IsFailed(Prev[b]) /\ finalized \subseteq Ancestors[Prev[b]]
<1>1. /\ tip \in allocated /\ tip \in Blocks /\ FinalizationTypes /\ Rooted
      /\ finalized \subseteq Ancestors[tip] /\ Ancestors[tip] \cap failed = {}
  BY DEF FinalizationInv, FinalizationTypes, FinalOnChain, TipNotFailed, IsFailed
<1>2. b \in Ancestors[tip] /\ root \in Ancestors[b]
  BY <1>1, ActiveChain
<1>3. Prev[b] \in Ancestors[tip] /\ root \in Ancestors[Prev[b]] /\ Prev[b] \in Blocks
  BY <1>1, <1>2, ParentFacts, ChainFacts
<1>4. ~IsFailed(Prev[b])
  BY <1>1, <1>3, ChainFacts DEF IsFailed
<1> QED
  BY <1>1, <1>3, <1>4 DEF FinalizationInv, PathsAllocated, CanUnapply

LEMMA InvalidateActiveKeeps ==
    ASSUME FinalizationInv, NEW b \in Blocks \ {Bootstrap}, InvalidateActive(b)
    PROVE  FinalizationInv'
<1> DEFINE to == Prev[b]
           changed == dirty \cup Moved(to)
<1>1. to \in allocated /\ ~IsFailed(to) /\ finalized \subseteq Ancestors[to] /\ tip' = to
  BY ActiveParent DEF InvalidateActive
<1>2. PICK r \in finalizeBlocks(to, Height[to], changed) :
        /\ Forget(r) /\ tips' = TipsWithout(r.tips, b)
        /\ dirty' = (changed \cup Subtree(b)) \ r.gone /\ failed' = (failed \cup {b}) \ r.gone
  BY DEF InvalidateActive
<1>3. /\ changed \subseteq allocated /\ Subtree(b) \subseteq allocated /\ b \in allocated
      /\ tips \cup failed \subseteq allocated /\ allocated \subseteq Blocks
  <2>1. b \in ActiveChainOf(tip) /\ tip \in allocated /\ FinalizationTypes /\ Rooted
    BY DEF InvalidateActive, FinalizationInv, FinalizationTypes
  <2>2. b \in Ancestors[tip] /\ root \in Ancestors[b]
    BY <2>1, ActiveChain
  <2> QED
    BY <1>1, <2>1, <2>2, MovedFacts DEF FinalizationInv, FinalizationTypes, PathsAllocated, Subtree
<1>4. SoundOutcome(r, to, changed)
  BY <1>1, FinalizeSound DEF FinalizationInv
<1>5. b \notin Ancestors[to]
  BY ParentFacts
<1> HIDE DEF changed, to
<1>6. /\ allocated' = allocated \ r.gone /\ allocated' \subseteq Blocks /\ IsFiniteSet(allocated')
      /\ tip' \in allocated' /\ root' \in allocated' /\ finalized' \subseteq allocated'
      /\ Rooted' /\ PathsAllocated' /\ FinalOnChain' /\ FinalIdsOnChain'
      /\ \A c \in allocated' : IsFailed(c) => Ancestors[c] \cap (failed \ r.gone) # {}
  BY <1>1, <1>2, <1>4, ForgetKeeps
<1>7. r.tips \subseteq tips \ r.gone
  BY <1>4 DEF SoundOutcome
<1>8. tips' \subseteq r.tips \cup {to}
  BY <1>2 DEF TipsWithout, to
<1>9. FinalizationTypes'
  BY <1>1, <1>2, <1>3, <1>6, <1>7, <1>8 DEF FinalizationTypes
<1>10. TipNotFailed'
  BY <1>1, <1>2, <1>5 DEF TipNotFailed, IsFailed
<1>11. TipsAreLeaves'
  <2> SUFFICES ASSUME NEW t \in tips', NEW c \in Children(t), c \in allocated',
                      Ancestors[c] \cap failed' = {}
               PROVE  FALSE
    BY DEF TipsAreLeaves, CanBeATip, IsFailed, Children
  <2>1. CanBeATip(c) /\ c # b
    <3>1. c \in allocated /\ ~IsFailed(c)
      BY <1>2, <1>6
    <3>2. c # b
      BY <1>2, <1>3, <1>6, ChainFacts
    <3> QED
      BY <3>1, <3>2 DEF CanBeATip
  <2>2. CASE t \in tips
    BY <2>1, <2>2 DEF FinalizationInv, TipsAreLeaves
  <2>3. CASE t \notin tips
    BY <2>1, <2>3, <1>2, <1>7 DEF TipsWithout
  <2> QED
    BY <2>2, <2>3
<1> QED
  BY <1>6, <1>9, <1>10, <1>11 DEF FinalizationInv

\* The two ends of filterInvalidPayloads.
LEMMA FinalizeKeeps ==
    ASSUME FinalizationInv, NEW h \in {Height[tip], Height[tip] + 1}, Finalize(h)
    PROVE  FinalizationInv'
<1>1. tip \in allocated /\ ~IsFailed(tip) /\ finalized \subseteq Ancestors[tip] /\ tip' = tip
      /\ dirty \in SUBSET allocated
  BY DEF FinalizationInv, FinalizationTypes, FinalOnChain, TipNotFailed, Finalize
<1>2. PICK r \in finalizeBlocks(tip, h, dirty) :
        /\ Forget(r) /\ tips' = r.tips /\ dirty' = dirty \ r.gone /\ failed' = failed \ r.gone
  BY DEF Finalize
<1>3. SoundOutcome(r, tip, dirty)
  BY <1>1, FinalizeSound DEF FinalizationInv
<1> QED
  BY <1>1, <1>2, <1>3, FinalizingKeeps

LEMMA NextKeeps ==
    FinalizationInv /\ [FinalizationNext]_finalizationVars => FinalizationInv'
<1> SUFFICES ASSUME FinalizationInv, [FinalizationNext]_finalizationVars PROVE FinalizationInv'
  OBVIOUS
<1>1. ASSUME NEW b \in Blocks \ {Bootstrap}, AcceptBlock(b) PROVE FinalizationInv'
  BY <1>1, AcceptBlockKeeps
<1>2. ASSUME NEW b \in Blocks \ {Bootstrap}, InvalidateSide(b) PROVE FinalizationInv'
  BY <1>2, InvalidateSideKeeps
<1>3. ASSUME NEW b \in Blocks \ {Bootstrap}, InvalidateActive(b) PROVE FinalizationInv'
  BY <1>3, InvalidateActiveKeeps
<1>4. ASSUME NEW to \in allocated, SetState(to) PROVE FinalizationInv'
  BY <1>4, SetStateKeeps
<1>5. ASSUME NEW to \in allocated, ComparePopScore(to) PROVE FinalizationInv'
  BY <1>5, ComparePopScoreKeeps
<1>6. CASE Save
  BY <1>6 DEF Save, FinalizationInv, FinalizationTypes, Rooted, PathsAllocated, TipNotFailed, IsFailed,
     TipsAreLeaves, CanBeATip, Children, FinalOnChain, FinalIdsOnChain
<1>7. CASE ActivateTemporaryBlock
  BY <1>7, FinalizeKeeps DEF ActivateTemporaryBlock
<1>8. CASE RemoveTemporaryBlock
  BY <1>8, FinalizeKeeps DEF RemoveTemporaryBlock
<1>9. CASE UNCHANGED finalizationVars
  BY <1>9 DEF finalizationVars, FinalizationInv, FinalizationTypes, Rooted, PathsAllocated, TipNotFailed,
     IsFailed, TipsAreLeaves, CanBeATip, Children, FinalOnChain, FinalIdsOnChain
<1> QED
  BY <1>1, <1>2, <1>3, <1>4, <1>5, <1>6, <1>7, <1>8, <1>9 DEF FinalizationNext

-----------------------------------------------------------------------------
(* The theorems.                                                            *)

\* Every operation that finalizes (setState, invalidateSubtree, generatePopData)
\* or compares chains keeps the blocks in memory a tree on the first block of the
\* active chain, the tips its leaves and the final blocks its lower part.
THEOREM FinalizationInvariant == FinalizationSpec => []FinalizationInv
<1> QED
  BY InitKeeps, NextKeeps, PTL DEF FinalizationSpec

\* finalizeBlockImpl leaves a tree for every order in which it visits the tips: the
\* active chain is in memory, every block but the root has its parent, and nothing
\* refers to a deallocated block.
THEOREM DeallocationLeavesATree == FinalizationSpec => []TreeIntact
<1>1. FinalizationInv => TreeIntact
  <2> SUFFICES ASSUME FinalizationInv PROVE TreeIntact
    OBVIOUS
  <2>1. /\ FinalizationTypes /\ Rooted /\ tip \in allocated /\ allocated \subseteq Blocks
        /\ root \in Ancestors[tip]
    BY DEF FinalizationInv, FinalizationTypes, Rooted
  <2>2. ActiveChainOf(tip) \subseteq allocated
    BY <2>1, ActiveChain DEF FinalizationInv, PathsAllocated
  <2>3. ASSUME NEW b \in allocated \ {root} PROVE Prev[b] \in allocated
    <3>1. b \in Blocks /\ root \in Ancestors[b]
      BY <2>1 DEF Rooted
    <3>2. b # Bootstrap
      BY <3>1, ChainAssumption
    <3>3. Prev[b] \in Ancestors[b] /\ root \in Ancestors[Prev[b]]
      BY <3>1, <3>2, ParentFacts
    <3> QED
      BY <3>3 DEF FinalizationInv, PathsAllocated
  <2> QED
    BY <2>1, <2>2, <2>3 DEF TreeIntact, FinalizationTypes
<1> QED
  BY <1>1, FinalizationInvariant, PTL

\* isStatefulDuplicate never refuses a payload of a chain that may still win unless
\* that chain holds it: what finalizedPayloadsIndex_ counts against every chain is
\* on every chain with all the final blocks.
THEOREM FinalIdsAreOnTheChain == FinalizationSpec => []NoFalseDuplicate
<1>1. FinalizationInv => NoFalseDuplicate
  <2> SUFFICES ASSUME FinalizationInv, NEW b \in NextBlocks, NEW i \in PayloadIds,
                      isStatefulDuplicate(b, i)
               PROVE  OnChainBefore(b, i)
    BY DEF NoFalseDuplicate
  <2>1. /\ b \in Blocks \ {Bootstrap} /\ b \notin allocated /\ Prev[b] \in allocated
        /\ finalized \subseteq Ancestors[b]
    BY DEF NextBlocks, Alive
  <2>2. /\ Ancestors[b] = Ancestors[Prev[b]] \cup {b} /\ Prev[b] \in Blocks
        /\ root \in Ancestors[Prev[b]] /\ finalized \subseteq allocated
    BY <2>1, ParentFacts DEF FinalizationInv, FinalizationTypes, Rooted
  <2>3. CASE i \notin finalizedIds
    BY <2>3 DEF isStatefulDuplicate, OnChainBefore
  <2>4. CASE i \in finalizedIds
    <3>1. PICK a \in finalized \cup Ancestors[root] : i \in Payloads[a]
      BY <2>4 DEF FinalizationInv, FinalIdsOnChain
    <3>2. a \in Ancestors[Prev[b]]
      BY <2>1, <2>2, ChainFacts
    <3> QED
      BY <3>1, <3>2 DEF OnChainBefore
  <2> QED
    BY <2>3, <2>4
<1> QED
  BY <1>1, FinalizationInvariant, PTL

\* A step either forgets a sound outcome for its new tip, or forgets nothing.
LEMMA StepForgets ==
    ASSUME FinalizationInv, FinalizationNext
    PROVE  \/ \E changed : \E r : /\ dirty \subseteq changed /\ SoundOutcome(r, tip', changed)
                                  /\ Forget(r) /\ tip' \in allocated
           \/ allocated \subseteq allocated' /\ finalized' = finalized
<1>1. ASSUME NEW to \in allocated, ~IsFailed(to), NEW changed, dirty \subseteq changed,
             NEW h \in {Height[to], Height[to] + 1}, tip' = to,
             \E r \in finalizeBlocks(to, h, changed) : Forget(r)
      PROVE  \E ch : \E r : /\ dirty \subseteq ch /\ SoundOutcome(r, tip', ch)
                            /\ Forget(r) /\ tip' \in allocated
  <2>1. PICK r \in finalizeBlocks(to, h, changed) : Forget(r)
    BY <1>1
  <2>2. SoundOutcome(r, to, changed)
    BY <1>1, FinalizeSound DEF FinalizationInv
  <2> QED
    BY <1>1, <2>1, <2>2
<1>2. ASSUME NEW b \in Blocks \ {Bootstrap}, AcceptBlock(b) \/ InvalidateSide(b)
      PROVE  allocated \subseteq allocated' /\ finalized' = finalized
  BY <1>2 DEF AcceptBlock, InvalidateSide
<1>3. ASSUME NEW b \in Blocks \ {Bootstrap}, InvalidateActive(b)
      PROVE  \E ch : \E r : /\ dirty \subseteq ch /\ SoundOutcome(r, tip', ch)
                            /\ Forget(r) /\ tip' \in allocated
  <2>1. Prev[b] \in allocated /\ ~IsFailed(Prev[b])
    BY <1>3, ActiveParent DEF InvalidateActive
  <2>2. /\ tip' = Prev[b]
        /\ \E r \in finalizeBlocks(Prev[b], Height[Prev[b]], dirty \cup Moved(Prev[b])) : Forget(r)
    BY <1>3 DEF InvalidateActive
  <2>3. dirty \subseteq dirty \cup Moved(Prev[b])
    OBVIOUS
  <2> QED
    BY <2>1, <2>2, <2>3, <1>1
<1>4. ASSUME NEW to \in allocated, SetState(to)
      PROVE  \E ch : \E r : /\ dirty \subseteq ch /\ SoundOutcome(r, tip', ch)
                            /\ Forget(r) /\ tip' \in allocated
  <2>1. ~IsFailed(to) /\ tip' = to
        /\ \E r \in finalizeBlocks(to, Height[to], dirty \cup Moved(to)) : Forget(r)
    BY <1>4 DEF SetState, CanBeATip
  <2>2. dirty \subseteq dirty \cup Moved(to)
    OBVIOUS
  <2> QED
    BY <2>1, <2>2, <1>1
<1>5. ASSUME NEW to \in allocated, ComparePopScore(to)
      PROVE  allocated \subseteq allocated' /\ finalized' = finalized
  BY <1>5 DEF ComparePopScore
<1>6. CASE Save
  BY <1>6 DEF Save
<1>7. CASE ActivateTemporaryBlock \/ RemoveTemporaryBlock
  <2>1. PICK h \in {Height[tip], Height[tip] + 1} : Finalize(h)
    BY <1>7 DEF ActivateTemporaryBlock, RemoveTemporaryBlock
  <2>2. tip' = tip /\ \E r \in finalizeBlocks(tip, h, dirty) : Forget(r)
    BY <2>1 DEF Finalize
  <2>3. tip \in allocated /\ ~IsFailed(tip)
    BY DEF FinalizationInv, FinalizationTypes, TipNotFailed
  <2> QED
    BY <2>1, <2>2, <2>3, <1>1
<1> QED
  BY <1>2, <1>3, <1>4, <1>5, <1>6, <1>7 DEF FinalizationNext

\* No step takes a final block off the active chain: neither a reorganisation that
\* fork resolution decides, nor an invalidation, nor a later finalization.
THEOREM FinalBlocksStayActive == FinalizationSpec => FinalStaysActive
<1>1. ASSUME FinalizationInv, FinalizationInv', [FinalizationNext]_finalizationVars
      PROVE  [\A b \in finalized \cap allocated' :
                 b \in (finalized \cap ActiveChainOf(tip))']_finalizationVars
  <2>1. finalized \cap allocated' \subseteq finalized'
    <3>1. CASE FinalizationNext
      <4>1. CASE allocated \subseteq allocated' /\ finalized' = finalized
        BY <4>1
      <4>2. CASE \E r : Forget(r)
        BY <4>2 DEF Forget
      <4> QED
        BY <3>1, <4>1, <4>2, <1>1, StepForgets
    <3>2. CASE UNCHANGED finalizationVars
      BY <3>2 DEF finalizationVars
    <3> QED
      BY <3>1, <3>2, <1>1
  <2>2. finalized' \subseteq ActiveChainOf(tip)'
    <3>1. /\ tip' \in Blocks /\ finalized' \subseteq Ancestors[tip'] /\ finalized' \subseteq Blocks
          /\ root' \in Blocks /\ \A b \in finalized' : root' \in Ancestors[b]
      BY <1>1 DEF FinalizationInv, FinalizationTypes, FinalOnChain, Rooted
    <3>2. ASSUME NEW b \in finalized' PROVE Height[b] >= Height[root']
      <4>1. Height[root'] <= Height[b] /\ Height[b] \in Nat /\ Height[root'] \in Nat
        BY <3>1, <3>2, HeightFacts
      <4> QED
        BY <4>1
    <3> QED
      BY <3>1, <3>2 DEF ActiveChainOf
  <2> QED
    BY <2>1, <2>2
<1> QED
  BY <1>1, FinalizationInvariant, PTL DEF FinalizationSpec, FinalStaysActive

\* No step deallocates an unsaved block that stays on the active chain, so that a
\* save that comes later finds every change of that chain.
THEOREM UnsavedBlocksAreKept == FinalizationSpec => UnsavedActiveKept
<1>1. ASSUME FinalizationInv, [FinalizationNext]_finalizationVars
      PROVE  [dirty \cap ActiveChainOf(tip) \cap Ancestors[tip'] \subseteq allocated']_finalizationVars
  <2> SUFFICES ASSUME FinalizationNext,
                      NEW d \in dirty \cap ActiveChainOf(tip) \cap Ancestors[tip']
               PROVE  d \in allocated'
    BY <1>1
  <2>1. d \in allocated /\ root \in Ancestors[d]
    BY <1>1 DEF FinalizationInv, FinalizationTypes, Rooted
  <2>2. CASE allocated \subseteq allocated'
    BY <2>1, <2>2
  <2>3. ASSUME NEW changed, NEW r, dirty \subseteq changed, SoundOutcome(r, tip', changed),
               Forget(r), tip' \in allocated
        PROVE  d \in allocated'
    <3>1. d \in changed \cap Ancestors[tip'] /\ tip' \in allocated \ r.gone
      BY <2>3 DEF SoundOutcome
    <3>2. r.root \in Ancestors[d]
      BY <3>1, <2>1, <2>3 DEF SoundOutcome
    <3>3. d \notin r.gone
      BY <3>1, <3>2, <2>3 DEF SoundOutcome
    <3> QED
      BY <3>3, <2>1, <2>3 DEF Forget
  <2> QED
    BY <2>2, <2>3, <1>1, StepForgets
<1> QED
  BY <1>1, FinalizationInvariant, PTL DEF FinalizationSpec, UnsavedActiveKept

=============================================================================
