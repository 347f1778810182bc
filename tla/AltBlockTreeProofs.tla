-------------------------- MODULE AltBlockTreeProofs --------------------------
(***************************************************************************)
(* Theorems about AltBlockTree, for every block universe, every keystone    *)
(* interval and every set of payloads, when the altchain invalidates blocks *)
(* for consensus reasons only (BLOCK_FAILED_BLOCK): the tree and its flags, *)
(* then what the tree keeps beside the blocks.                              *)
(*                                                                          *)
(* tips_: an operation makes blocks impossible as tips (a subtree below b), *)
(* or possible as tips (a set that hangs together), or neither: one lemma   *)
(* for each, then one case for each operation.                              *)
(*                                                                          *)
(* payloadsIndex_: it is exact, so the search for duplicates in             *)
(* connectBlock misses nothing.                                             *)
(***************************************************************************)
EXTENDS AltBlockTree, TLAPS

OnlyBlockReason == ExternalReasons \subseteq {"BLOCK"}

-----------------------------------------------------------------------------
(* The inductive invariant.                                                 *)

KnownClosed == \A d \in known : Ancestors[d] \subseteq known

\* A failed block has flagged everything below it.  FailedChildExact says it of
\* parents and children only.
FailedDown ==
    \A d \in known : \A a \in Ancestors[d] : a # d /\ isFailed(a) => d \in failedChild

\* A deleted index keeps neither its level nor its body.
DeletedBare ==
    \A b \in Blocks \ inTree : level[b] = VALID_UNKNOWN /\ popData[b] = NoPopData

\* No block is above one of its ancestors.  At VALID_TREE it is so because the
\* process ends where it would not be (HeaderAborts).
LevelsOrdered ==
    \A b \in inTree : \A a \in Ancestors[b] : a \in inTree /\ level[b] <= level[a]

\* Only a restored block that failed its payloads is below VALID_TREE: every
\* block that is not valid has failed.
UnraisedFailed == \A b \in inTree : level[b] = VALID_UNKNOWN => b \in failedPop

BodyNeedsLevel == \A b \in Blocks : popData[b] # NoPopData => level[b] >= VALID_TREE

Shape == KnownClosed /\ LevelsOrdered /\ DeletedBare /\ UnraisedFailed
           /\ BodyNeedsLevel /\ ConnectedExact

Flags == FailedDown /\ FailedChildExact /\ AppliedNeverFailedPop

IInv == TypeOK /\ Shape /\ Flags /\ ActiveChainValid

-----------------------------------------------------------------------------
(* Facts about the block universe.                                          *)

\* Ancestors orders every chain from Root upwards.
LEMMA TreeFacts ==
    /\ Root \in Blocks
    /\ \A b \in Blocks : b \in Ancestors[b] /\ Ancestors[b] \subseteq Blocks
                           /\ Root \in Ancestors[b]
    /\ \A b \in Blocks : \A a \in Ancestors[b] : \A c \in Ancestors[a] : c \in Ancestors[b]
    /\ \A b \in Blocks : \A a \in Ancestors[b] : b \in Ancestors[a] => a = b
    /\ \A b \in Blocks : \A a, c \in Ancestors[b] : a \in Ancestors[c] \/ c \in Ancestors[a]
<1>1. Root \in Blocks
  BY TreeAssumption
<1>2. \A b \in Blocks : b \in Ancestors[b] /\ Ancestors[b] \subseteq Blocks
                           /\ Root \in Ancestors[b]
  BY TreeAssumption
<1>3. \A b \in Blocks : \A a \in Ancestors[b] : \A c \in Ancestors[a] : c \in Ancestors[b]
  BY TreeAssumption
<1>4. \A b \in Blocks : \A a \in Ancestors[b] : b \in Ancestors[a] => a = b
  <2> SUFFICES ASSUME NEW b \in Blocks, NEW a \in Ancestors[b], b \in Ancestors[a]
               PROVE  a = b
    OBVIOUS
  <2>1. a \in Blocks
    BY <1>2
  <2>2. Height[a] \in Nat /\ Height[b] \in Nat
    BY <2>1, HeightAssumption
  <2>3. Height[a] <= Height[b] /\ Height[b] <= Height[a]
    BY <2>1, HeightAssumption
  <2>4. Height[a] = Height[b]
    BY <2>2, <2>3
  <2> QED
    BY <2>4, HeightAssumption
<1>5. \A b \in Blocks : \A a, c \in Ancestors[b] : a \in Ancestors[c] \/ c \in Ancestors[a]
  BY TreeAssumption
<1> QED
  BY <1>1, <1>2, <1>3, <1>4, <1>5

\* The parent of a block is the last of its strict ancestors.
LEMMA PrevFacts ==
    ASSUME NEW b \in Blocks, b # Root
    PROVE  /\ Prev[b] \in Blocks
           /\ Prev[b] \in Ancestors[b]
           /\ Prev[b] # b
           /\ b \notin Ancestors[Prev[b]]
           /\ Ancestors[b] = Ancestors[Prev[b]] \cup {b}
<1>1. Prev[b] \in Blocks /\ Ancestors[b] = Ancestors[Prev[b]] \cup {b}
  BY TreeAssumption
<1>2. Prev[b] \in Ancestors[b]
  BY <1>1, TreeFacts
<1>3. Height[b] = Height[Prev[b]] + 1 /\ Height[Prev[b]] \in Nat
  BY <1>1, HeightAssumption
<1>4. Prev[b] # b
  BY <1>3
<1>5. b \notin Ancestors[Prev[b]]
  BY <1>1, <1>2, <1>4, TreeFacts
<1> QED
  BY <1>1, <1>2, <1>4, <1>5

\* Between a block and a strict descendant there is a child of the block.
LEMMA ChildOnPath ==
    ASSUME NEW d \in Blocks, NEW a \in Ancestors[d], a # d
    PROVE  /\ d # Root
           /\ a \in Ancestors[Prev[d]]
           /\ \E c \in Children(a) : c \in Ancestors[d]
<1>1. d # Root
  BY TreeAssumption
<1>2. a \in Ancestors[Prev[d]]
  BY <1>1, PrevFacts
<1>3. PICK c \in Ancestors[d] \ {Root} : Prev[c] = a
  BY TreeAssumption
<1>4. c \in Children(a)
  BY <1>3, TreeFacts DEF Children
<1> QED
  BY <1>1, <1>2, <1>3, <1>4

-----------------------------------------------------------------------------
(* The invariant holds initially, and every operation preserves it.         *)

\* The bootstrapped tree satisfies the invariant.
LEMMA InitIInv == Init => IInv
<1> SUFFICES ASSUME Init PROVE IInv
  OBVIOUS
<1> USE TreeFacts DEF VALID_UNKNOWN, VALID_TREE, CONNECTED, CAN_BE_APPLIED
<1>1. TypeOK
  BY PopDataAssumption DEF Init, TypeOK, Levels
<1>2. Ancestors[Root] = {Root}
  BY TreeAssumption
<1>3. Shape
  BY <1>2 DEF Init, Shape, KnownClosed, LevelsOrdered, DeletedBare, UnraisedFailed,
              BodyNeedsLevel, ConnectedExact, isConnected
<1>4. Flags
  BY DEF Init, Flags, FailedDown, FailedChildExact, AppliedNeverFailedPop, isFailed
<1>5. ActiveChainValid
  BY <1>2 DEF Init, ActiveChainValid, isFailed
<1> QED
  BY <1>1, <1>3, <1>4, <1>5 DEF IInv

\* acceptBlockHeader preserves it, for a new index and for a restored one with its
\* old flags.
LEMMA AcceptBlockHeaderStep ==
    ASSUME IInv, NEW b \in Blocks, AcceptBlockHeader(b)
    PROVE  IInv'
<1> USE TreeFacts DEF VALID_UNKNOWN, VALID_TREE, CONNECTED, CAN_BE_APPLIED, Levels
<1> USE DEF IInv
<1>1. /\ b \notin inTree /\ b # Root
      /\ Prev[b] \in Blocks /\ Prev[b] \in inTree /\ Prev[b] # b
      /\ Ancestors[b] = Ancestors[Prev[b]] \cup {b}
      /\ known' = known \cup {b} /\ inTree' = inTree \cup {b}
      /\ popData' = popData /\ failedBlock' = failedBlock /\ failedPop' = failedPop
      /\ tip' = tip /\ payloadsIndex' = payloadsIndex
  BY PrevFacts DEF AcceptBlockHeader, headerContract, payloadVars
<1>2. /\ level[b] = 0 /\ popData[b] = NoPopData
      /\ level' = [level EXCEPT ![b] = IF b \in failedPop THEN 0 ELSE 1]
      /\ b \in failedPop \/ level[Prev[b]] >= 1
  <2>1. level[b] = 0 /\ popData[b] = NoPopData /\ level[Prev[b]] \in 0..4
    BY <1>1 DEF Shape, DeletedBare, TypeOK
  <2>2. level' = [level EXCEPT ![b] = IF b \in failedPop THEN 0 ELSE 1]
    BY <2>1 DEF AcceptBlockHeader, RaisedToTree
  <2>3. ~HeaderAborts(b) /\ headerContract(b)
    BY DEF AcceptBlockHeader
  <2>4. b \in failedPop \/ level[Prev[b]] >= 1
    BY <2>1, <2>3 DEF HeaderAborts, RaisedToTree
  <2> QED
    BY <2>1, <2>2, <2>4
<1>3. failedChild' = IF b \notin known /\ isFailed(Prev[b])
                        THEN failedChild \cup {b} ELSE failedChild
  BY DEF AcceptBlockHeader, headerContract
<1>4. TypeOK'
  <2>1. tips' \subseteq Blocks
    BY DEF AcceptBlockHeader, headerContract, tryAddTip, TypeOK
  <2> QED
    BY <1>1, <1>2, <1>3, <2>1 DEF TypeOK
<1>5. Shape'
  <2>1. KnownClosed'
    BY <1>1 DEF KnownClosed, Shape, TypeOK
  <2>2. LevelsOrdered'
    BY <1>1, <1>2 DEF LevelsOrdered, Shape, TypeOK
  <2>3. DeletedBare' /\ UnraisedFailed' /\ BodyNeedsLevel'
    BY <1>1, <1>2 DEF DeletedBare, UnraisedFailed, BodyNeedsLevel, Shape, TypeOK
  <2>4. \A c \in inTree : c # b /\ (c # Root => Prev[c] # b)
    BY <1>1, PrevFacts DEF LevelsOrdered, Shape, TypeOK
  <2>5. ConnectedExact'
    BY <1>1, <1>2, <2>4, PrevFacts DEF ConnectedExact, isConnected, Shape, TypeOK
  <2> QED
    BY <2>1, <2>2, <2>3, <2>5 DEF Shape
<1>6. Flags'
  <2>1. b \notin known => ~isFailed(b)
    BY DEF isFailed, TypeOK
  <2>2. \A d \in known : b \in Ancestors[d] => b \in known
    BY DEF Shape, KnownClosed
  <2>3. FailedDown'
    <3> SUFFICES ASSUME NEW d \in known', NEW a \in Ancestors[d], a # d, isFailed(a)'
                 PROVE  d \in failedChild'
      BY DEF FailedDown
    <3>1. CASE d \in known
      <4>1. a \in known
        BY <3>1 DEF Shape, KnownClosed
      <4>2. isFailed(a)
        BY <1>1, <1>3, <4>1 DEF isFailed
      <4> QED
        BY <3>1, <4>2, <1>3 DEF Flags, FailedDown
    <3>2. CASE d = b /\ b \notin known
      <4>1. a \in Ancestors[Prev[b]] /\ a \in known /\ Prev[b] \in known
        BY <1>1, <3>2 DEF Shape, KnownClosed, TypeOK
      <4>2. isFailed(a)
        BY <1>1, <1>3, <4>1, <3>2 DEF isFailed
      <4>3. isFailed(Prev[b])
        BY <4>1, <4>2 DEF Flags, FailedDown, isFailed
      <4> QED
        BY <3>2, <4>3, <1>3
    <3> QED
      BY <1>1, <3>1, <3>2
  <2>4. FailedChildExact'
    <3> SUFFICES ASSUME NEW d \in known' \ {Root}
                 PROVE  d \in failedChild' <=> isFailed(Prev[d])'
      BY DEF FailedChildExact
    <3>0. d \in Blocks /\ Prev[d] \in Ancestors[d] /\ Prev[d] # d
      BY <1>1, PrevFacts DEF TypeOK
    <3>1. CASE d \in known
      <4>1. Prev[d] \in known
        BY <3>0, <3>1 DEF Shape, KnownClosed
      <4>2. isFailed(Prev[d])' <=> isFailed(Prev[d])
        BY <1>1, <1>3, <4>1 DEF isFailed
      <4> QED
        BY <3>1, <4>2, <1>3 DEF Flags, FailedChildExact
    <3>2. CASE d = b /\ b \notin known
      <4>1. isFailed(Prev[d])' <=> isFailed(Prev[d])
        BY <1>1, <1>3, <3>2 DEF isFailed
      <4> QED
        BY <3>2, <4>1, <1>3 DEF TypeOK
    <3> QED
      BY <1>1, <3>1, <3>2
  <2>5. AppliedNeverFailedPop'
    BY <1>1, <1>2 DEF AppliedNeverFailedPop, Flags, TypeOK
  <2> QED
    BY <2>3, <2>4, <2>5 DEF Flags
<1>7. ActiveChainValid'
  BY <1>1, <1>2, <1>3 DEF ActiveChainValid, isFailed, TypeOK
<1> QED
  BY <1>4, <1>5, <1>6, <1>7

-----------------------------------------------------------------------------
(* FAILED_CHILD under invalidation and revalidation.                        *)

\* The block next to d on the path from its strict ancestor b is the parent of d.
LEMMA BetweenFacts ==
    ASSUME NEW d \in Blocks, NEW b \in Ancestors[d], b # d, b \in Blocks
    PROVE  /\ Prev[d] = b \/ (/\ Prev[d] \in Between(b, d)
                              /\ Prev[d] # b /\ b \in Ancestors[Prev[d]])
           /\ Prev[d] = b => Between(b, d) = {}
           /\ Between(b, d) \subseteq Between(b, Prev[d]) \cup {Prev[d]}
           /\ \A m \in Between(b, d) : /\ m \in Ancestors[d] /\ m # d /\ m # b
                                       /\ b \in Ancestors[m]
                                       /\ Between(b, m) \subseteq Between(b, d)
           /\ Between(b, Prev[d]) \subseteq Between(b, d)
           /\ \A m \in Ancestors[d] : m # d /\ m # b /\ b \in Ancestors[m] => m \in Between(b, d)
<1> USE TreeFacts
<1>1. d # Root /\ b \in Ancestors[Prev[d]]
  BY ChildOnPath
<1>2. /\ Prev[d] \in Blocks /\ Prev[d] \in Ancestors[d] /\ Prev[d] # d
      /\ d \notin Ancestors[Prev[d]] /\ Ancestors[d] = Ancestors[Prev[d]] \cup {d}
  BY <1>1, PrevFacts
<1>3. Prev[d] = b \/ (Prev[d] \in Between(b, d) /\ Prev[d] # b /\ b \in Ancestors[Prev[d]])
  BY <1>1, <1>2 DEF Between
<1>4. Prev[d] = b => Between(b, d) = {}
  BY <1>2 DEF Between
<1>5. Between(b, d) \subseteq Between(b, Prev[d]) \cup {Prev[d]}
  BY <1>2 DEF Between
<1>6. Between(b, Prev[d]) \subseteq Between(b, d)
  BY <1>2 DEF Between
<1>7. ASSUME NEW m \in Between(b, d)
      PROVE  /\ m \in Ancestors[d] /\ m # d /\ m # b /\ b \in Ancestors[m]
             /\ Between(b, m) \subseteq Between(b, d)
  <2>1. m \in Ancestors[d] /\ m # d /\ m \notin Ancestors[b] /\ m \in Blocks
    BY DEF Between
  <2>2. b \in Ancestors[m] /\ m # b
    BY <2>1
  <2>3. d \notin Ancestors[m]
    BY <2>1
  <2> QED
    BY <2>1, <2>2, <2>3 DEF Between
<1>8. \A m \in Ancestors[d] : m # d /\ m # b /\ b \in Ancestors[m] => m \in Between(b, d)
  BY DEF Between
<1> QED
  BY <1>3, <1>4, <1>5, <1>6, <1>7, <1>8

\* The blocks of D fail, and whatever is below the ones that had not failed
\* before is flagged up to the next failed block.
LEMMA FlagSubtrees ==
    ASSUME TypeOK, KnownClosed, FailedDown, FailedChildExact, known' = known,
           NEW D \in SUBSET known,
           failedBlock' \cup failedPop' = failedBlock \cup failedPop \cup D,
           \A x : x \in failedChild' <=>
                    x \in failedChild \/ \E y \in D : ~isFailed(y) /\ x \in FlaggedBelow(y)
    PROVE  /\ FailedDown' /\ FailedChildExact'
           /\ failedChild' \subseteq known
<1> USE TreeFacts
<1>1. known \subseteq Blocks
  BY DEF TypeOK
<1>2. \A x : isFailed(x)' <=> \/ isFailed(x)
                              \/ x \in D
                              \/ \E y \in D : ~isFailed(y) /\ x \in FlaggedBelow(y)
  BY DEF isFailed
<1>3. \A y \in D : \A x \in FlaggedBelow(y) :
         x \in known /\ x # y /\ y \in Ancestors[x] /\ \A m \in Between(y, x) : ~isFailed(m)
  BY DEF FlaggedBelow, Below
<1>4. failedChild' \subseteq known
  BY <1>3 DEF TypeOK
\* everything below an unfailed y of D is in failedChild'
<1>5. ASSUME NEW y \in D, ~isFailed(y), NEW d \in known, y \in Ancestors[d], y # d
      PROVE  d \in failedChild'
  <2>1. CASE \A m \in Between(y, d) : ~isFailed(m)
    BY <1>5, <2>1 DEF FlaggedBelow, Below
  <2>2. CASE \E m \in Between(y, d) : isFailed(m)
    BY <2>2, <1>5, <1>1, BetweenFacts DEF FailedDown
  <2> QED
    BY <2>1, <2>2
<1>6. FailedDown'
  <2> SUFFICES ASSUME NEW d \in known, NEW a \in Ancestors[d], a # d, isFailed(a)'
               PROVE  d \in failedChild'
    BY DEF FailedDown
  <2>1. CASE isFailed(a)
    BY <2>1 DEF FailedDown
  <2>2. CASE a \in D /\ ~isFailed(a)
    BY <2>2, <1>5
  <2>3. CASE \E y \in D : ~isFailed(y) /\ a \in FlaggedBelow(y)
    <3>1. PICK y \in D : ~isFailed(y) /\ a \in FlaggedBelow(y)
      BY <2>3
    <3>2. y \in Ancestors[a] /\ y # a /\ y \in Ancestors[d] /\ a \in Blocks /\ d \in Blocks
      BY <3>1, <1>3, <1>1
    <3>3. y # d
      BY <3>2
    <3> QED
      BY <3>1, <3>2, <3>3, <1>5
  <2> QED
    BY <2>1, <2>2, <2>3, <1>2
<1>7. FailedChildExact'
  <2> SUFFICES ASSUME NEW d \in known \ {Root}
               PROVE  d \in failedChild' <=> isFailed(Prev[d])'
    BY DEF FailedChildExact
  <2>1. d \in Blocks /\ Prev[d] \in Ancestors[d] /\ Prev[d] # d /\ Prev[d] \in known
    BY <1>1, PrevFacts DEF KnownClosed
  <2>2. isFailed(Prev[d])' => d \in failedChild'
    BY <2>1, <1>6 DEF FailedDown
  <2>3. CASE d \in failedChild
    BY <2>2, <2>3, <1>2 DEF FailedChildExact
  <2>4. ASSUME NEW y \in D, ~isFailed(y), d \in FlaggedBelow(y)
        PROVE  isFailed(Prev[d])'
    <3>1. y \in Blocks /\ y \in Ancestors[d] /\ y # d /\ \A m \in Between(y, d) : ~isFailed(m)
      BY <2>4, <1>1, <1>3
    <3>2. CASE Prev[d] = y
      BY <3>2, <1>2
    <3>3. CASE Prev[d] # y
      <4>1. y \in Ancestors[Prev[d]] /\ Between(y, Prev[d]) \subseteq Between(y, d)
        BY <3>1, <3>3, <2>1, BetweenFacts
      <4>2. Prev[d] \in FlaggedBelow(y)
        BY <4>1, <3>1, <3>3, <2>1 DEF FlaggedBelow, Below
      <4> QED
        BY <4>2, <2>4, <1>2
    <3> QED
      BY <3>2, <3>3
  <2> QED
    BY <2>2, <2>3, <2>4
<1> QED
  BY <1>4, <1>6, <1>7

\* revalidateSubtree(b, r).
LEMMA ClearSubtree ==
    ASSUME TypeOK, KnownClosed, FailedDown, FailedChildExact, known' = known,
           NEW b \in known \ {Root}, NEW r \in {"BLOCK", "POP"}, b \in FlagSet(r),
           failedBlock' = IF r = "BLOCK" THEN failedBlock \ {b} ELSE failedBlock,
           failedPop' = IF r = "POP" THEN failedPop \ {b} ELSE failedPop,
           failedChild' = failedChild \ Cleared(b, r)
    PROVE  FailedDown' /\ FailedChildExact'
<1> USE TreeFacts
<1>1. known \subseteq Blocks /\ b \in Blocks
  BY DEF TypeOK
<1>2. CASE HasOtherFlags(b, r)
  <2>1. failedChild' = failedChild
    BY <1>2 DEF Cleared
  <2>2. \A x : isFailed(x)' <=> isFailed(x)
    BY <1>2, <2>1 DEF isFailed, HasOtherFlags, FlagSet
  <2> QED
    BY <2>1, <2>2 DEF FailedDown, FailedChildExact
<1>3. CASE ~HasOtherFlags(b, r)
  <2>1. failedChild' = failedChild \ ClearedBelow(b)
    BY <1>3 DEF Cleared
  <2>2. ~isFailed(b)' /\ isFailed(b) /\ b \notin failedChild
    BY <1>3, <2>1 DEF isFailed, HasOtherFlags, FlagSet
  <2>3. \A x : isFailed(x)' => isFailed(x)
    BY <2>1 DEF isFailed
  <2>4. \A x : x # b /\ x \in failedBlock \cup failedPop => isFailed(x)'
    BY DEF isFailed
  <2>5. ClearedBelow(b) = {d \in known : /\ d # b /\ b \in Ancestors[d]
                                         /\ \A m \in Between(b, d) :
                                               m \notin failedBlock \cup failedPop}
    BY DEF ClearedBelow, Below
  <2>6. FailedDown'
    <3> SUFFICES ASSUME NEW d \in known, NEW a \in Ancestors[d], a # d, isFailed(a)',
                        d \in ClearedBelow(b)
                 PROVE  FALSE
      BY <2>1, <2>3 DEF FailedDown
    <3>1. /\ d \in Blocks /\ a \in Blocks /\ a \in known /\ a # b
          /\ b \in Ancestors[d] /\ b # d /\ isFailed(a)
      BY <1>1, <2>2, <2>3, <2>5 DEF KnownClosed
    <3>2. a \notin Ancestors[b]
      BY <3>1, <2>2 DEF FailedDown
    <3>3. b \in Ancestors[a] /\ a \in Between(b, d)
      BY <3>1, <3>2 DEF Between
    <3>4. a \notin failedBlock \cup failedPop
      BY <3>3, <2>5
    <3>5. Between(b, a) \subseteq Between(b, d)
      BY <3>1, <3>3, BetweenFacts
    <3>6. a \in ClearedBelow(b)
      BY <3>1, <3>3, <3>5, <2>5
    <3> QED
      BY <3>4, <3>6, <2>1 DEF isFailed
  <2>7. FailedChildExact'
    <3> SUFFICES ASSUME NEW d \in known \ {Root}
                 PROVE  d \in failedChild' <=> isFailed(Prev[d])'
      BY DEF FailedChildExact
    <3>1. d \in Blocks /\ Prev[d] \in Ancestors[d] /\ Prev[d] # d /\ Prev[d] \in known
      BY <1>1, PrevFacts DEF KnownClosed
    <3>2. isFailed(Prev[d])' => d \in failedChild'
      BY <3>1, <2>6 DEF FailedDown
    <3>3. ASSUME d \in failedChild' PROVE isFailed(Prev[d])'
      <4>1. d \in failedChild /\ d \notin ClearedBelow(b) /\ isFailed(Prev[d])
        BY <3>3, <2>1 DEF FailedChildExact
      <4>2. Prev[d] # b
        BY <4>1, <3>1, <1>1, <2>5, BetweenFacts
      <4>3. CASE Prev[d] \in failedBlock \cup failedPop
        BY <4>2, <4>3, <2>4
      <4>4. CASE Prev[d] \notin failedBlock \cup failedPop
        <5>1. Prev[d] \in ClearedBelow(b) => d \in ClearedBelow(b)
          <6> SUFFICES ASSUME Prev[d] \in ClearedBelow(b) PROVE d \in ClearedBelow(b)
            OBVIOUS
          <6>1. b \in Ancestors[Prev[d]] /\ b \in Ancestors[d] /\ b # d
            BY <2>5, <3>1
          <6>2. Between(b, d) \subseteq Between(b, Prev[d]) \cup {Prev[d]}
            BY <6>1, <3>1, <1>1, BetweenFacts
          <6> QED
            BY <6>1, <6>2, <2>5, <4>4
        <5> QED
          BY <5>1, <4>1, <4>4, <2>1 DEF isFailed
      <4> QED
        BY <4>3, <4>4
    <3> QED
      BY <3>2, <3>3
  <2> QED
    BY <2>6, <2>7
<1> QED
  BY <1>2, <1>3

-----------------------------------------------------------------------------
(* Invalidation, revalidation and removal preserve the invariant.           *)

\* InvalidateValid: what it does to the flags, whatever the operation around it
\* does to the rest.
LEMMA FailBlock ==
    ASSUME TypeOK, KnownClosed, FailedDown, FailedChildExact,
           NEW b \in inTree \ {Root}, ~isFailed(b), NEW r \in {"BLOCK", "POP"},
           InvalidateValid(b, r), known' = known
    PROVE  /\ FailedDown' /\ FailedChildExact'
           /\ failedBlock' \subseteq known /\ failedPop' \subseteq known
           /\ failedChild' \subseteq known /\ tips' \subseteq Blocks
           /\ \A x \in Blocks : isFailed(x)' => isFailed(x) \/ b \in Ancestors[x]
           /\ failedPop' \subseteq failedPop \cup {b}
           /\ failedPop \subseteq failedPop'
<1> USE TreeFacts
<1>1. b \in known /\ b \in Blocks /\ Prev[b] \in Blocks
  BY PrevFacts DEF TypeOK
<1>2. /\ failedBlock' \cup failedPop' = failedBlock \cup failedPop \cup {b}
      /\ failedBlock' \subseteq known /\ failedPop' \subseteq known
      /\ failedPop' \subseteq failedPop \cup {b} /\ failedPop \subseteq failedPop'
  BY <1>1 DEF InvalidateValid, TypeOK
<1>3. failedChild' = failedChild \cup FlaggedBelow(b)
  BY DEF InvalidateValid
<1>4. \A x : x \in failedChild' <=>
               x \in failedChild \/ \E y \in {b} : ~isFailed(y) /\ x \in FlaggedBelow(y)
  BY <1>3
<1>5. FailedDown' /\ FailedChildExact' /\ failedChild' \subseteq known
  BY <1>1, <1>2, <1>4, {b} \in SUBSET known, FlagSubtrees
<1>6. tips' \subseteq Blocks
  BY <1>1 DEF InvalidateValid, tryAddTip, TypeOK
<1>7. \A x \in Blocks : isFailed(x)' => isFailed(x) \/ b \in Ancestors[x]
  BY <1>1, <1>2, <1>3 DEF isFailed, FlaggedBelow, Below
<1> QED
  BY <1>2, <1>5, <1>6, <1>7

\* invalidateSubtree preserves it; so does the early return on an invalid block.
LEMMA InvalidateSubtreeStep ==
    ASSUME IInv, NEW b \in Blocks, NEW r \in {"BLOCK", "POP"}, InvalidateSubtree(b, r)
    PROVE  IInv'
<1> USE TreeFacts
        DEF VALID_UNKNOWN, VALID_TREE, CONNECTED, MAYBE_WITH_OTHER, CAN_BE_APPLIED, Levels
<1> USE DEF IInv, Shape, Flags
<1>1. /\ b \in inTree /\ b # Root /\ b \in known
      /\ known' = known /\ inTree' = inTree /\ level' = level /\ popData' = popData
      /\ payloadsIndex' = payloadsIndex
  BY DEF InvalidateSubtree, payloadVars, TypeOK
<1>2. r = "POP" => level[b] < CAN_BE_APPLIED
  BY DEF InvalidateSubtree
<1>3. CASE isValid(b)
  <2>1. InvalidateValid(b, r) /\ ~isFailed(b) /\ tip' = TipWithout(b)
    BY <1>3 DEF InvalidateSubtree, isValid
  <2>2. /\ FailedDown' /\ FailedChildExact'
        /\ failedBlock' \subseteq known /\ failedPop' \subseteq known
        /\ failedChild' \subseteq known /\ tips' \subseteq Blocks
        /\ \A x \in Blocks : isFailed(x)' => isFailed(x) \/ b \in Ancestors[x]
        /\ failedPop' \subseteq failedPop \cup {b} /\ failedPop \subseteq failedPop'
    BY <1>1, <2>1, FailBlock
  <2>3. r = "BLOCK" => failedPop' = failedPop
    BY <2>1 DEF InvalidateValid
  <2>4. /\ tip' \in Blocks /\ Ancestors[tip'] \subseteq Ancestors[tip]
        /\ b \notin Ancestors[tip']
    BY <1>1, <2>1, PrevFacts DEF TipWithout, OnActiveChain, TypeOK
  <2>5. TypeOK'
    BY <1>1, <2>2, <2>4 DEF TypeOK
  <2>6. Shape'
    BY <1>1, <2>2 DEF KnownClosed, LevelsOrdered, DeletedBare, UnraisedFailed,
                      BodyNeedsLevel, ConnectedExact, isConnected
  <2>7. AppliedNeverFailedPop'
    BY <1>1, <1>2, <2>2, <2>3 DEF AppliedNeverFailedPop
  <2>8. ActiveChainValid'
    <3> SUFFICES ASSUME NEW a \in Ancestors[tip']
                 PROVE  a \in inTree /\ ~isFailed(a)' /\ level[a] = CAN_BE_APPLIED
      BY <1>1 DEF ActiveChainValid
    <3>1. a \in Ancestors[tip] /\ b \notin Ancestors[a] /\ a \in Blocks
      BY <2>4
    <3> QED
      BY <3>1, <2>2 DEF ActiveChainValid
  <2> QED
    BY <2>2, <2>5, <2>6, <2>7, <2>8
<1>4. CASE ~isValid(b)
  <2>1. /\ failedBlock' = IF r = "BLOCK" THEN failedBlock \cup {b} ELSE failedBlock
        /\ failedPop' = IF r = "POP" THEN failedPop \cup {b} ELSE failedPop
        /\ failedChild' = failedChild /\ tips' = tips \ {b} /\ tip' = tip
    BY <1>4 DEF InvalidateSubtree
  <2>2. isFailed(b)
    <3>1. level[b] \in 0..4 /\ (isFailed(b) \/ level[b] < 1)
      BY <1>1, <1>4 DEF isValid, TypeOK
    <3>2. level[b] = 0 => b \in failedPop
      BY <1>1 DEF UnraisedFailed
    <3> QED
      BY <3>1, <3>2 DEF isFailed
  <2>3. \A x : isFailed(x)' <=> isFailed(x)
    BY <2>1, <2>2 DEF isFailed
  <2>4. TypeOK'
    BY <1>1, <2>1 DEF TypeOK
  <2>5. Shape'
    BY <1>1, <2>1 DEF KnownClosed, LevelsOrdered, DeletedBare, UnraisedFailed,
                      BodyNeedsLevel, ConnectedExact, isConnected
  <2>6. FailedDown' /\ FailedChildExact'
    BY <1>1, <2>1, <2>3 DEF FailedDown, FailedChildExact
  <2>7. AppliedNeverFailedPop'
    BY <1>1, <1>2, <2>1 DEF AppliedNeverFailedPop
  <2>8. ActiveChainValid'
    BY <1>1, <2>1, <2>3 DEF ActiveChainValid
  <2> QED
    BY <2>4, <2>5, <2>6, <2>7, <2>8
<1> QED
  BY <1>3, <1>4

\* revalidateSubtree preserves it: it stops below a block that is still failed.
LEMMA RevalidateSubtreeStep ==
    ASSUME IInv, NEW b \in Blocks, RevalidateSubtree(b, "BLOCK")
    PROVE  IInv'
<1> USE TreeFacts DEF IInv, Shape, Flags
<1>1. /\ b \in inTree /\ b # Root /\ b \in known /\ b \in FlagSet("BLOCK")
      /\ known' = known /\ inTree' = inTree /\ level' = level /\ popData' = popData
      /\ payloadsIndex' = payloadsIndex /\ tip' = tip
      /\ failedBlock' = failedBlock \ {b} /\ failedPop' = failedPop
      /\ failedChild' = failedChild \ Cleared(b, "BLOCK")
  BY DEF RevalidateSubtree, payloadVars, TypeOK
<1>2. tips' \subseteq Blocks
  BY <1>1 DEF RevalidateSubtree, tryAddTips, Cleared, ClearedBelow, Below, TypeOK
<1>3. TypeOK'
  BY <1>1, <1>2 DEF TypeOK
<1>4. Shape'
  BY <1>1 DEF KnownClosed, LevelsOrdered, DeletedBare, UnraisedFailed, BodyNeedsLevel,
              ConnectedExact, isConnected
<1>5. FailedDown' /\ FailedChildExact'
  BY <1>1, ClearSubtree
<1>6. AppliedNeverFailedPop'
  BY <1>1 DEF AppliedNeverFailedPop
<1>7. ActiveChainValid'
  BY <1>1 DEF ActiveChainValid, isFailed
<1> QED
  BY <1>3, <1>4, <1>5, <1>6, <1>7

\* removeSubtree preserves it: a deleted index keeps its flags, not its level.
LEMMA RemoveSubtreeStep ==
    ASSUME IInv, NEW b \in Blocks, RemoveSubtree(b)
    PROVE  IInv'
<1> USE TreeFacts DEF VALID_UNKNOWN, VALID_TREE, CONNECTED, CAN_BE_APPLIED, Levels
<1> USE DEF IInv, Shape, Flags
<1> DEFINE gone == {d \in inTree : b \in Ancestors[d]}
<1>1. /\ b \in inTree /\ b # Root /\ b \in known /\ Prev[b] \in Blocks
      /\ known' = known /\ inTree' = inTree \ gone
      /\ level' = [d \in Blocks |-> IF d \in gone THEN 0 ELSE level[d]]
      /\ popData' = [d \in Blocks |-> IF d \in gone THEN NoPopData ELSE popData[d]]
      /\ payloadsIndex' = [i \in PayloadIds |-> payloadsIndex[i] \ gone]
      /\ failedBlock' = failedBlock /\ failedPop' = failedPop /\ failedChild' = failedChild
      /\ tip' = TipWithout(b)
  BY PrevFacts DEF RemoveSubtree, Unindexed, TypeOK
<1>2. tips' \subseteq Blocks
  BY <1>1 DEF RemoveSubtree, tryAddTip, TypeOK
<1>3. /\ tip' \in Blocks /\ Ancestors[tip'] \subseteq Ancestors[tip]
      /\ b \notin Ancestors[tip']
  BY <1>1, PrevFacts DEF TipWithout, OnActiveChain, TypeOK
<1>4. TypeOK'
  <2>1. level' \in [Blocks -> Levels] /\ popData' \in [Blocks -> PopDatas \cup {NoPopData}]
    BY <1>1 DEF TypeOK
  <2>2. payloadsIndex' \in [PayloadIds -> SUBSET Blocks]
    BY <1>1 DEF TypeOK
  <2> QED
    BY <1>1, <1>2, <1>3, <2>1, <2>2 DEF TypeOK
<1>5. Shape'
  <2>1. KnownClosed'
    BY <1>1 DEF KnownClosed
  <2>2. LevelsOrdered'
    <3> SUFFICES ASSUME NEW d \in inTree', NEW a \in Ancestors[d]
                 PROVE  a \in inTree' /\ level'[d] <= level'[a]
      BY DEF LevelsOrdered
    <3>1. d \in inTree /\ d \in Blocks /\ a \in inTree /\ a \in Blocks /\ level[d] <= level[a]
      BY <1>1 DEF LevelsOrdered, TypeOK
    <3>2. d \notin gone /\ a \notin gone
      BY <1>1, <3>1
    <3> QED
      BY <1>1, <3>1, <3>2
  <2>3. DeletedBare' /\ UnraisedFailed' /\ BodyNeedsLevel'
    BY <1>1 DEF DeletedBare, UnraisedFailed, BodyNeedsLevel, TypeOK
  <2>4. ConnectedExact'
    <3> SUFFICES ASSUME NEW d \in inTree' \ {Root}
                 PROVE  isConnected(d)' <=> popData'[d] # NoPopData /\ isConnected(Prev[d])'
      BY DEF ConnectedExact
    <3>1. /\ d \in inTree /\ d \in Blocks /\ Prev[d] \in inTree' /\ Prev[d] \in Blocks
      BY <1>1, <2>2, PrevFacts DEF LevelsOrdered, TypeOK
    <3> QED
      BY <1>1, <3>1 DEF ConnectedExact, isConnected
  <2> QED
    BY <2>1, <2>2, <2>3, <2>4
<1>6. FailedDown' /\ FailedChildExact'
  BY <1>1 DEF FailedDown, FailedChildExact, isFailed
<1>7. AppliedNeverFailedPop'
  BY <1>1 DEF AppliedNeverFailedPop, TypeOK
<1>8. ActiveChainValid'
  <2> SUFFICES ASSUME NEW a \in Ancestors[tip']
               PROVE  a \in inTree' /\ ~isFailed(a)' /\ level'[a] = CAN_BE_APPLIED
    BY DEF ActiveChainValid
  <2>1. a \in Ancestors[tip] /\ b \notin Ancestors[a] /\ a \in Blocks
    BY <1>3
  <2> QED
    BY <2>1, <1>1 DEF ActiveChainValid, isFailed
<1> QED
  BY <1>4, <1>5, <1>6, <1>7, <1>8

-----------------------------------------------------------------------------
(* Bodies.                                                                  *)

\* The blocks that acceptBlock(b) connects were not connected, hang together and
\* start at b.
LEMMA ConnectsFacts ==
    ASSUME IInv, NEW b \in Blocks, acceptBlockContract(b)
    PROVE  /\ b \in known /\ Prev[b] \in inTree
           /\ ~isConnected(b)
           /\ \A d \in known : b \in Ancestors[d] => level[d] < CONNECTED
           /\ \A d \in Connects(b) : /\ d \in inTree /\ b \in Ancestors[d] /\ d # Root
                                     /\ d # b => popData[d] # NoPopData /\ Prev[d] \in Connects(b)
           /\ Connects(b) # {} => b \in Connects(b) /\ isConnected(Prev[b])
           /\ isConnected(Prev[b]) => b \in Connects(b)
           /\ \A d \in known : Prev[d] \in Connects(b) /\ popData[d] # NoPopData /\ d # Root
                                  => d \in Connects(b)
           /\ \A d \in Connects(b) : \A a \in Ancestors[d] :
                 a \in Connects(b) \/ a \in Ancestors[Prev[b]]
<1> USE TreeFacts DEF VALID_UNKNOWN, VALID_TREE, CONNECTED, CAN_BE_APPLIED, Levels
<1> USE DEF IInv, Shape, Flags
<1>1. /\ b \in inTree /\ b # Root /\ b \in known /\ popData[b] = NoPopData
      /\ Prev[b] \in Blocks /\ Prev[b] \in Ancestors[b]
      /\ Ancestors[b] = Ancestors[Prev[b]] \cup {b}
  BY PrevFacts DEF acceptBlockContract, TypeOK
<1>2. Prev[b] \in inTree
  BY <1>1 DEF LevelsOrdered
<1>3. ~isConnected(b)
  BY <1>1 DEF ConnectedExact
<1>4. \A d \in known : b \in Ancestors[d] => level[d] < CONNECTED
  BY <1>1, <1>3 DEF isConnected, LevelsOrdered, DeletedBare, TypeOK
<1>5. \A d \in Connects(b) : /\ d \in known /\ d \in Blocks /\ b \in Ancestors[d]
                             /\ isConnected(Prev[b])
                             /\ \A m \in Ancestors[d] \ Ancestors[b] : popData[m] # NoPopData
  BY DEF Connects, TypeOK
<1>6. ASSUME NEW d \in Connects(b)
      PROVE  /\ d \in inTree /\ b \in Ancestors[d] /\ d # Root
             /\ d # b => popData[d] # NoPopData /\ Prev[d] \in Connects(b)
  <2>1. d # Root
    BY <1>1, <1>5, TreeAssumption
  <2>2. CASE d = b
    BY <2>1, <2>2, <1>1
  <2>3. CASE d # b
    <3>1. d \in Ancestors[d] \ Ancestors[b]
      BY <2>3, <1>5
    <3>2. popData[d] # NoPopData /\ d \in inTree
      BY <3>1, <1>5 DEF DeletedBare
    <3>3. Prev[d] \in known /\ b \in Ancestors[Prev[d]] /\ Ancestors[Prev[d]] \subseteq Ancestors[d]
      BY <2>1, <2>3, <1>5, ChildOnPath, PrevFacts DEF KnownClosed
    <3>4. Prev[d] \in Connects(b)
      BY <3>3, <1>5 DEF Connects
    <3> QED
      BY <2>1, <3>2, <3>4, <1>5
  <2> QED
    BY <2>2, <2>3
<1>7. isConnected(Prev[b]) => b \in Connects(b)
  BY <1>1 DEF Connects
<1>8. ASSUME NEW d \in known, Prev[d] \in Connects(b), popData[d] # NoPopData, d # Root
      PROVE  d \in Connects(b)
  <2>1. d \in Blocks /\ Prev[d] \in Ancestors[d] /\ Ancestors[d] = Ancestors[Prev[d]] \cup {d}
    BY <1>8, PrevFacts DEF TypeOK
  <2> QED
    BY <2>1, <1>5, <1>8 DEF Connects
<1>9. ASSUME NEW d \in Connects(b), NEW a \in Ancestors[d]
      PROVE  a \in Connects(b) \/ a \in Ancestors[Prev[b]]
  <2>1. a \in known /\ a \in Blocks
    BY <1>5 DEF KnownClosed
  <2>2. CASE a \in Ancestors[b]
    BY <2>2, <1>1, <1>5, <1>7
  <2>3. CASE b \in Ancestors[a]
    BY <2>1, <2>3, <1>5 DEF Connects
  <2> QED
    BY <2>2, <2>3, <1>5
<1> QED
  BY <1>1, <1>2, <1>3, <1>4, <1>5, <1>6, <1>7, <1>8, <1>9

\* acceptBlock preserves it, whichever descendants it connects and whichever of
\* those hold a duplicate.
LEMMA AcceptBlockStep ==
    ASSUME IInv, NEW b \in Blocks, NEW p \in PopDatas, AcceptBlock(b, p)
    PROVE  IInv'
<1> USE TreeFacts DEF VALID_UNKNOWN, VALID_TREE, CONNECTED, CAN_BE_APPLIED, Levels
<1> USE DEF IInv, Shape, Flags
<1> DEFINE new  == Connects(b)
           dups == {d \in new : HasStatefulDuplicate(d)'}
           below == UNION {FlaggedBelow(d) : d \in {x \in dups : ~isFailed(x)}}
<1>1. /\ acceptBlockContract(b) /\ b \in inTree /\ b # Root /\ level[b] >= 1
      /\ b \notin Ancestors[tip] /\ popData[b] = NoPopData /\ p # NoPopData
      /\ known' = known /\ inTree' = inTree /\ failedBlock' = failedBlock /\ tip' = tip
      /\ popData' = [popData EXCEPT ![b] = p]
      /\ level' = Raised(new, 2)
      /\ failedPop' = failedPop \cup dups
      /\ failedChild' = failedChild \cup below
  BY PopDataAssumption DEF AcceptBlock, acceptBlockContract, OnActiveChain
<1>2. /\ b \in known /\ Prev[b] \in inTree /\ ~isConnected(b)
      /\ \A d \in known : b \in Ancestors[d] => level[d] < 2
      /\ \A d \in new : /\ d \in inTree /\ d \in known /\ d \in Blocks /\ b \in Ancestors[d]
                        /\ d # Root
                        /\ d # b => popData[d] # NoPopData /\ Prev[d] \in new
      /\ new # {} => b \in new /\ isConnected(Prev[b])
      /\ isConnected(Prev[b]) => b \in new
      /\ \A d \in known : Prev[d] \in new /\ popData[d] # NoPopData /\ d # Root => d \in new
      /\ \A d \in new : \A a \in Ancestors[d] : a \in new \/ a \in Ancestors[Prev[b]]
  BY <1>1, ConnectsFacts DEF TypeOK
<1>3. /\ level' \in [Blocks -> Levels]
      /\ \A x \in Blocks : level'[x] = IF x \in new THEN 2 ELSE level[x]
  BY <1>1, <1>2 DEF Raised, TypeOK
<1>4. TypeOK'
  <2>1. tips' \subseteq Blocks
    BY <1>2, PrevFacts DEF AcceptBlock, tryAddTips, TypeOK
  <2>2. payloadsIndex' \in [PayloadIds -> SUBSET Blocks]
    BY DEF AcceptBlock, TypeOK
  <2>3. below \subseteq known
    BY DEF FlaggedBelow, Below
  <2> QED
    BY <1>1, <1>2, <1>3, <2>1, <2>2, <2>3 DEF TypeOK
<1>5. Shape'
  <2>1. KnownClosed'
    BY <1>1 DEF KnownClosed
  <2>2. LevelsOrdered'
    <3> SUFFICES ASSUME NEW d \in inTree, NEW a \in Ancestors[d]
                 PROVE  a \in inTree /\ level'[d] <= level'[a]
      BY <1>1 DEF LevelsOrdered
    <3>1. d \in Blocks /\ a \in Blocks /\ a \in inTree /\ level[d] <= level[a]
          /\ level[d] \in 0..4 /\ level[a] \in 0..4
      BY DEF LevelsOrdered, TypeOK
    <3>2. CASE d \notin new
      <4>1. a \in new => level[a] < 2
        BY <1>2
      <4> QED
        BY <3>1, <3>2, <1>3, <4>1
    <3>3. CASE d \in new /\ a \in new
      BY <3>1, <3>3, <1>3
    <3>4. CASE d \in new /\ a \notin new
      <4>1. a \in Ancestors[Prev[b]] /\ level[Prev[b]] >= 2
        BY <3>4, <1>2 DEF isConnected
      <4>2. level[a] >= 2
        BY <4>1, <1>2, <3>1 DEF LevelsOrdered, TypeOK
      <4> QED
        BY <3>1, <3>4, <4>2, <1>3
    <3> QED
      BY <3>2, <3>3, <3>4
  <2>3. DeletedBare'
    BY <1>1, <1>2, <1>3 DEF DeletedBare, TypeOK
  <2>4. UnraisedFailed' /\ BodyNeedsLevel'
    BY <1>1, <1>2, <1>3 DEF UnraisedFailed, BodyNeedsLevel, TypeOK
  <2>5. ConnectedExact'
    <3> SUFFICES ASSUME NEW d \in inTree \ {Root}
                 PROVE  isConnected(d)' <=> popData'[d] # NoPopData /\ isConnected(Prev[d])'
      BY <1>1 DEF ConnectedExact
    <3>1. d \in Blocks /\ d \in known /\ Prev[d] \in Blocks
      BY PrevFacts DEF TypeOK
    <3>2. \A x \in Blocks : isConnected(x)' <=> x \in new \/ isConnected(x)
      BY <1>2, <1>3 DEF isConnected
    <3>3. popData'[d] = IF d = b THEN p ELSE popData[d]
      BY <1>1, <3>1 DEF TypeOK
    <3>4. isConnected(d) <=> popData[d] # NoPopData /\ isConnected(Prev[d])
      BY DEF ConnectedExact
    <3>5. CASE d = b
      BY <1>1, <1>2, <3>1, <3>2, <3>3, <3>4, <3>5
    <3>6. CASE d # b
      BY <1>1, <1>2, <3>1, <3>2, <3>3, <3>4, <3>6
    <3> QED
      BY <3>5, <3>6
  <2> QED
    BY <2>1, <2>2, <2>3, <2>4, <2>5
<1>6. FailedDown' /\ FailedChildExact'
  <2>1. dups \in SUBSET known
    BY <1>2
  <2>2. failedBlock' \cup failedPop' = failedBlock \cup failedPop \cup dups
    BY <1>1
  <2>3. \A x : x \in failedChild' <=>
                 x \in failedChild \/ \E y \in dups : ~isFailed(y) /\ x \in FlaggedBelow(y)
    BY <1>1
  <2> HIDE DEF dups
  <2> QED
    BY <1>1, <2>1, <2>2, <2>3, FlagSubtrees
<1>7. AppliedNeverFailedPop'
  BY <1>1, <1>2, <1>3 DEF AppliedNeverFailedPop, TypeOK
<1>8. ActiveChainValid'
  <2> SUFFICES ASSUME NEW a \in Ancestors[tip]
               PROVE  a \in inTree /\ ~isFailed(a)' /\ level'[a] = CAN_BE_APPLIED
    BY <1>1 DEF ActiveChainValid
  <2>1. a \in Blocks /\ b \notin Ancestors[a]
    BY <1>1 DEF TypeOK
  <2>2. a \notin new /\ a \notin dups
    BY <2>1, <1>2
  <2>3. a \notin below
    BY <2>1, <1>2 DEF FlaggedBelow, Below, TypeOK
  <2> QED
    BY <1>1, <1>3, <2>1, <2>2, <2>3 DEF ActiveChainValid, isFailed
<1> QED
  BY <1>4, <1>5, <1>6, <1>7, <1>8

\* removePayloads preserves it: no descendant of the block was connected.
LEMMA RemovePayloadsStep ==
    ASSUME IInv, NEW b \in Blocks, RemovePayloads(b)
    PROVE  IInv'
<1> USE TreeFacts DEF VALID_UNKNOWN, VALID_TREE, CONNECTED, CAN_BE_APPLIED, Levels
<1> USE DEF IInv, Shape, Flags
<1>1. /\ b \in inTree /\ b # Root /\ b \in known /\ Prev[b] \in Blocks
      /\ popData[b] # NoPopData /\ b \notin Ancestors[tip]
      /\ \A c \in Children(b) : ~isConnected(c)
      /\ known' = known /\ inTree' = inTree /\ failedBlock' = failedBlock /\ tip' = tip
      /\ popData' = [popData EXCEPT ![b] = NoPopData]
      /\ failedPop' = failedPop \ {b}
      /\ failedChild' = failedChild \ Cleared(b, "POP")
      /\ level' = IF isConnected(b) THEN [level EXCEPT ![b] = 1] ELSE level
  BY PrevFacts DEF RemovePayloads, removePayloadsContract, OnActiveChain, TypeOK
<1>2. /\ level' \in [Blocks -> Levels] /\ level[b] >= 1
      /\ \A x \in Blocks : x # b => level'[x] = level[x]
      /\ level'[b] = 1
  BY <1>1 DEF isConnected, BodyNeedsLevel, TypeOK
<1>3. \A d \in inTree : b \in Ancestors[d] /\ d # b => level[d] < 2
  <2> SUFFICES ASSUME NEW d \in inTree, b \in Ancestors[d], d # b PROVE level[d] < 2
    OBVIOUS
  <2>1. PICK c \in Children(b) : c \in Ancestors[d]
    BY ChildOnPath DEF TypeOK
  <2>2. level[d] <= level[c] /\ ~(level[c] >= 2) /\ c \in Blocks /\ d \in Blocks
    BY <1>1, <2>1 DEF LevelsOrdered, isConnected, Children, TypeOK
  <2> QED
    BY <2>2 DEF TypeOK
<1>4. TypeOK'
  <2>1. tips' \subseteq Blocks
    BY <1>1 DEF RemovePayloads, tryAddTip, tryAddTips, TypeOK
  <2>2. payloadsIndex' \in [PayloadIds -> SUBSET Blocks]
    BY DEF RemovePayloads, TypeOK
  <2> QED
    BY <1>1, <1>2, <2>1, <2>2 DEF TypeOK
<1>5. Shape'
  <2>1. KnownClosed'
    BY <1>1 DEF KnownClosed
  <2>2. LevelsOrdered'
    BY <1>1, <1>2, <1>3 DEF LevelsOrdered, TypeOK
  <2>3. DeletedBare' /\ UnraisedFailed' /\ BodyNeedsLevel'
    BY <1>1, <1>2 DEF DeletedBare, UnraisedFailed, BodyNeedsLevel, TypeOK
  <2>4. ConnectedExact'
    <3> SUFFICES ASSUME NEW d \in inTree \ {Root}
                 PROVE  isConnected(d)' <=> popData'[d] # NoPopData /\ isConnected(Prev[d])'
      BY <1>1 DEF ConnectedExact
    <3>1. /\ d \in Blocks /\ Prev[d] \in Blocks /\ Prev[d] # d
          /\ isConnected(d) <=> popData[d] # NoPopData /\ isConnected(Prev[d])
      BY PrevFacts DEF TypeOK, ConnectedExact
    <3>2. CASE d = b
      BY <1>1, <1>2, <3>1, <3>2 DEF isConnected, TypeOK
    <3>3. CASE d # b /\ Prev[d] = b
      BY <1>1, <1>2, <3>1, <3>3 DEF isConnected, Children, TypeOK
    <3>4. CASE d # b /\ Prev[d] # b
      BY <1>1, <1>2, <3>1, <3>4 DEF isConnected, TypeOK
    <3> QED
      BY <3>2, <3>3, <3>4
  <2> QED
    BY <2>1, <2>2, <2>3, <2>4
<1>6. FailedDown' /\ FailedChildExact'
  <2>1. CASE b \in failedPop
    BY <1>1, <2>1, ClearSubtree DEF FlagSet
  <2>2. CASE b \notin failedPop
    <3>1. failedPop' = failedPop /\ failedChild' = failedChild
      BY <1>1, <2>2 DEF Cleared, FlagSet
    <3> QED
      BY <1>1, <3>1 DEF FailedDown, FailedChildExact, isFailed
  <2> QED
    BY <2>1, <2>2
<1>7. AppliedNeverFailedPop'
  BY <1>1, <1>2 DEF AppliedNeverFailedPop, TypeOK
<1>8. ActiveChainValid'
  BY <1>1, <1>2 DEF ActiveChainValid, isFailed, TypeOK
<1> QED
  BY <1>4, <1>5, <1>6, <1>7, <1>8

-----------------------------------------------------------------------------
(* Switching the active chain.                                              *)

\* The levels of the unapplied part of a connected chain go up, and stay ordered
\* along it.
LEMMA RaiseChain ==
    ASSUME IInv, NEW to \in inTree, isConnected(to),
           known' = known, inTree' = inTree, popData' = popData, failedPop \subseteq failedPop',
           level' \in [Blocks -> Levels],
           \A x \in Blocks : level[x] <= level'[x],
           \A x \in Blocks \ Unapplied(to) : level'[x] = level[x],
           \A d \in Unapplied(to) : \A a \in Ancestors[d] \cap Unapplied(to) :
              level'[d] <= level'[a]
    PROVE  Shape' /\ \A x \in Blocks : isConnected(x)' <=> isConnected(x)
<1> USE TreeFacts DEF VALID_UNKNOWN, VALID_TREE, CONNECTED, CAN_BE_APPLIED, Levels
<1> USE DEF IInv, Shape, Flags
<1>1. to \in Blocks /\ tip \in Blocks /\ level[to] >= 2
  BY DEF TypeOK, isConnected
<1>2. \A x \in Unapplied(to) : x \in Blocks /\ x \in inTree /\ level[x] >= 2
  BY <1>1 DEF Unapplied, LevelsOrdered, TypeOK
<1>3. LevelsOrdered'
  <2> SUFFICES ASSUME NEW d \in inTree, NEW a \in Ancestors[d]
               PROVE  a \in inTree /\ level'[d] <= level'[a]
    BY DEF LevelsOrdered
  <2>1. /\ d \in Blocks /\ a \in Blocks /\ a \in inTree /\ level[d] <= level[a]
        /\ level[d] \in 0..4 /\ level[a] \in 0..4 /\ level'[d] \in 0..4 /\ level'[a] \in 0..4
    BY DEF LevelsOrdered, TypeOK
  <2>2. CASE d \notin Unapplied(to)
    BY <2>1, <2>2
  <2>3. CASE d \in Unapplied(to) /\ a \in Unapplied(to)
    BY <2>1, <2>3
  <2>4. CASE d \in Unapplied(to) /\ a \notin Unapplied(to)
    <3>1. a \in Ancestors[tip]
      BY <2>4, <1>1 DEF Unapplied
    <3>2. level[a] = 4
      BY <3>1 DEF ActiveChainValid
    <3> QED
      BY <2>1, <2>4, <3>2
  <2> QED
    BY <2>2, <2>3, <2>4
<1>4. \A x \in Blocks : isConnected(x)' <=> isConnected(x)
  BY <1>2 DEF isConnected, TypeOK
<1>5. KnownClosed' /\ DeletedBare' /\ UnraisedFailed' /\ BodyNeedsLevel'
  BY <1>2 DEF KnownClosed, DeletedBare, UnraisedFailed, BodyNeedsLevel, TypeOK
<1>6. ConnectedExact'
  BY <1>4, PrevFacts DEF ConnectedExact, TypeOK
<1> QED
  BY <1>3, <1>4, <1>5, <1>6

\* A valid block has a valid chain.
LEMMA ValidChain ==
    ASSUME IInv, NEW to \in inTree, isValid(to)
    PROVE  \A a \in Ancestors[to] : a \in inTree /\ ~isFailed(a)
BY DEF IInv, Shape, Flags, LevelsOrdered, FailedDown, isValid, isFailed, TypeOK

\* A successful switch of the active chain preserves it.
LEMMA SwitchStep ==
    ASSUME IInv, NEW to \in inTree, isConnected(to), isValid(to) \/ Unapplied(to) = {},
           Switch(to)
    PROVE  IInv'
<1> USE TreeFacts DEF VALID_UNKNOWN, VALID_TREE, CONNECTED, CAN_BE_APPLIED, Levels
<1> USE DEF IInv, Shape, Flags
<1>1. /\ known' = known /\ inTree' = inTree /\ popData' = popData /\ tips' = tips
      /\ payloadsIndex' = payloadsIndex /\ tip' = to
      /\ failedBlock' = failedBlock /\ failedPop' = failedPop /\ failedChild' = failedChild
      /\ level' = Raised(Unapplied(to), 4)
  BY DEF Switch, payloadVars
<1>2. /\ level' \in [Blocks -> Levels]
      /\ \A x \in Blocks : level'[x] = IF x \in Unapplied(to) THEN 4 ELSE level[x]
  BY <1>1 DEF Raised, TypeOK
<1>3. \A x \in Unapplied(to) : x \in Blocks /\ ~isFailed(x)
  BY ValidChain DEF Unapplied, TypeOK
<1>4. TypeOK'
  BY <1>1, <1>2 DEF TypeOK
<1>5. Shape'
  <2>1. \A x \in Blocks : level[x] <= level'[x]
    BY <1>2 DEF TypeOK
  <2>2. \A x \in Blocks \ Unapplied(to) : level'[x] = level[x]
    BY <1>2
  <2>3. \A d \in Unapplied(to) : \A a \in Ancestors[d] \cap Unapplied(to) :
            level'[d] <= level'[a]
    BY <1>2, <1>3
  <2> QED
    BY <1>1, <1>2, <2>1, <2>2, <2>3, RaiseChain
<1>6. FailedDown' /\ FailedChildExact'
  BY <1>1 DEF FailedDown, FailedChildExact, isFailed
<1>7. AppliedNeverFailedPop'
  BY <1>1, <1>2, <1>3 DEF AppliedNeverFailedPop, isFailed, TypeOK
<1>8. ActiveChainValid'
  <2> SUFFICES ASSUME NEW a \in Ancestors[to]
               PROVE  a \in inTree /\ ~isFailed(a)' /\ level'[a] = CAN_BE_APPLIED
    BY <1>1 DEF ActiveChainValid
  <2>1. a \in Blocks /\ a \in inTree
    BY DEF LevelsOrdered, TypeOK
  <2>2. CASE a \in Unapplied(to)
    BY <2>1, <2>2, <1>1, <1>2, <1>3 DEF isFailed
  <2>3. CASE a \notin Unapplied(to)
    <3>1. a \in Ancestors[tip]
      BY <2>3 DEF Unapplied
    <3> QED
      BY <2>1, <2>3, <3>1, <1>1, <1>2 DEF ActiveChainValid, isFailed
  <2> QED
    BY <2>2, <2>3
<1> QED
  BY <1>4, <1>5, <1>6, <1>7, <1>8

\* A switch that fails at block k preserves it: what was applied before k keeps
\* the level it reached.
LEMMA FailAtStep ==
    ASSUME IInv, NEW to \in inTree, isConnected(to), isValid(to), NEW k \in Blocks,
           NEW lvl \in Levels, NEW rest \in Levels, rest <= lvl, rest < CAN_BE_APPLIED,
           FailAt(k, to, lvl, rest)
    PROVE  IInv'
<1> USE TreeFacts DEF VALID_UNKNOWN, VALID_TREE, CONNECTED, CAN_BE_APPLIED, Levels
<1> USE DEF IInv, Shape, Flags
<1> DEFINE target(x) == IF Height[x] < Height[k] THEN lvl ELSE rest
<1>1. /\ known' = known /\ inTree' = inTree /\ popData' = popData
      /\ payloadsIndex' = payloadsIndex /\ tip' = tip
      /\ k \in Unapplied(to) /\ level[k] < 4 /\ InvalidateValid(k, "POP")
      /\ level' = [x \in Blocks |->
                     IF x \in Unapplied(to)
                       THEN IF level[x] < target(x) THEN target(x) ELSE level[x]
                       ELSE level[x]]
  BY DEF FailAt, payloadVars
<1>2. \A x \in Unapplied(to) : x \in Blocks /\ x \in inTree /\ ~isFailed(x)
  BY ValidChain DEF Unapplied, TypeOK
<1>3. k # Root /\ k \in inTree /\ k \notin Ancestors[tip]
  BY <1>1, <1>2 DEF Unapplied, TypeOK
<1>4. /\ FailedDown' /\ FailedChildExact'
      /\ failedBlock' \subseteq known /\ failedPop' \subseteq known
      /\ failedChild' \subseteq known /\ tips' \subseteq Blocks
      /\ \A x \in Blocks : isFailed(x)' => isFailed(x) \/ k \in Ancestors[x]
      /\ failedPop' \subseteq failedPop \cup {k} /\ failedPop \subseteq failedPop'
  BY <1>1, <1>2, <1>3, FailBlock
<1>5. \A x \in Blocks : target(x) \in 0..4
  OBVIOUS
<1>6. /\ level' \in [Blocks -> Levels]
      /\ \A x \in Blocks : level[x] <= level'[x]
      /\ \A x \in Blocks \ Unapplied(to) : level'[x] = level[x]
      /\ \A x \in Unapplied(to) : level'[x] = IF level[x] < target(x) THEN target(x) ELSE level[x]
  BY <1>1, <1>2, <1>5 DEF TypeOK
<1>7. TypeOK'
  BY <1>1, <1>4, <1>6 DEF TypeOK
<1>8. Shape'
  <2>1. ASSUME NEW d \in Unapplied(to), NEW a \in Ancestors[d] \cap Unapplied(to)
        PROVE  level'[d] <= level'[a]
    <3>1. /\ d \in Blocks /\ a \in Blocks /\ d \in inTree /\ level[d] <= level[a]
          /\ level[d] \in 0..4 /\ level[a] \in 0..4
      BY <1>2 DEF LevelsOrdered, TypeOK
    <3>2. Height[a] <= Height[d] /\ Height[a] \in Nat /\ Height[d] \in Nat /\ Height[k] \in Nat
      BY <3>1, HeightAssumption
    <3>3. target(d) <= target(a)
      BY <3>2
    <3> QED
      BY <3>1, <3>3, <1>5, <1>6
  <2> QED
    BY <1>1, <1>4, <1>6, <2>1, RaiseChain
<1>9. AppliedNeverFailedPop'
  <2> SUFFICES ASSUME NEW x \in failedPop' PROVE level'[x] < 4
    BY DEF AppliedNeverFailedPop
  <2>1. CASE x = k
    BY <2>1, <1>1, <1>6, HeightAssumption DEF TypeOK
  <2>2. CASE x \in failedPop
    <3>1. x \notin Unapplied(to) /\ x \in Blocks
      BY <2>2, <1>2 DEF isFailed, TypeOK
    <3> QED
      BY <2>2, <3>1, <1>6 DEF AppliedNeverFailedPop
  <2> QED
    BY <2>1, <2>2, <1>4
<1>10. ActiveChainValid'
  <2> SUFFICES ASSUME NEW a \in Ancestors[tip]
               PROVE  a \in inTree /\ ~isFailed(a)' /\ level'[a] = CAN_BE_APPLIED
    BY <1>1 DEF ActiveChainValid
  <2>1. a \in Blocks /\ k \notin Ancestors[a] /\ a \notin Unapplied(to)
    BY <1>3 DEF Unapplied, TypeOK
  <2> QED
    BY <2>1, <1>4, <1>6 DEF ActiveChainValid
<1> QED
  BY <1>4, <1>7, <1>8, <1>9, <1>10

\* The active chain wins over B: only levels have changed.
LEMMA KeepStep ==
    ASSUME IInv, NEW B \in inTree, isConnected(B), isValid(B),
           level' = Raised(Unapplied(B), MAYBE_WITH_OTHER),
           UNCHANGED <<known, inTree, failedBlock, failedPop, failedChild, payloadVars, tips, tip>>
    PROVE  IInv'
<1> USE TreeFacts
        DEF VALID_UNKNOWN, VALID_TREE, CONNECTED, MAYBE_WITH_OTHER, CAN_BE_APPLIED, Levels
<1> USE DEF IInv, Shape, Flags
<1>1. /\ known' = known /\ inTree' = inTree /\ popData' = popData /\ tips' = tips
      /\ payloadsIndex' = payloadsIndex /\ tip' = tip
      /\ failedBlock' = failedBlock /\ failedPop' = failedPop /\ failedChild' = failedChild
  BY DEF payloadVars
<1>2. \A x \in Unapplied(B) : x \in Blocks /\ x \in inTree /\ ~isFailed(x)
  BY ValidChain DEF Unapplied, TypeOK
<1>3. /\ level' \in [Blocks -> Levels]
      /\ \A x \in Blocks : level'[x] = IF x \in Unapplied(B) /\ level[x] < 3 THEN 3 ELSE level[x]
  BY <1>1 DEF Raised, TypeOK
<1>4. TypeOK'
  BY <1>1, <1>3 DEF TypeOK
<1>5. Shape'
  <2>1. \A x \in Blocks : level[x] <= level'[x]
    BY <1>3 DEF TypeOK
  <2>2. \A x \in Blocks \ Unapplied(B) : level'[x] = level[x]
    BY <1>3
  <2>3. \A d \in Unapplied(B) : \A a \in Ancestors[d] \cap Unapplied(B) :
            level'[d] <= level'[a]
    BY <1>2, <1>3 DEF LevelsOrdered, TypeOK
  <2> QED
    BY <1>1, <1>3, <2>1, <2>2, <2>3, RaiseChain
<1>6. FailedDown' /\ FailedChildExact'
  BY <1>1 DEF FailedDown, FailedChildExact, isFailed
<1>7. AppliedNeverFailedPop'
  BY <1>1, <1>2, <1>3 DEF AppliedNeverFailedPop, isFailed, TypeOK
<1>8. ActiveChainValid'
  BY <1>1, <1>3 DEF ActiveChainValid, Unapplied, isFailed, TypeOK
<1> QED
  BY <1>4, <1>5, <1>6, <1>7, <1>8

\* setState and comparePopScore preserve it, however they end.
LEMMA SwitchingStep ==
    ASSUME IInv, NEW b \in Blocks, SetState(b) \/ CompareSuccessor(b) \/ CompareFork(b)
    PROVE  IInv'
<1> USE DEF VALID_UNKNOWN, MAYBE_WITH_OTHER, CAN_BE_APPLIED, Levels
<1>1. \A k \in Unapplied(b) : k \in Blocks
  BY TreeFacts DEF Unapplied
<1>2. CASE SetState(b)
  <2>1. b \in inTree /\ isConnected(b)
    BY <1>2 DEF SetState, setStateContract
  <2>2. CASE Switch(b) /\ (isValid(b) \/ Unapplied(b) = {})
    BY <2>1, <2>2, SwitchStep
  <2>3. CASE isValid(b) /\ \E k \in Unapplied(b) : FailAt(k, b, CAN_BE_APPLIED, VALID_UNKNOWN)
    BY <2>1, <2>3, <1>1, FailAtStep
  <2> QED
    BY <1>2, <2>2, <2>3 DEF SetState
<1>3. CASE CompareSuccessor(b)
  <2>1. b \in inTree /\ isConnected(b) /\ isValid(b)
    BY <1>3 DEF CompareSuccessor, compareContract
  <2>2. CASE Switch(b)
    BY <2>1, <2>2, SwitchStep
  <2>3. CASE \E k \in Unapplied(b) : FailAt(k, b, CAN_BE_APPLIED, VALID_UNKNOWN)
    BY <2>1, <2>3, <1>1, FailAtStep
  <2> QED
    BY <1>3, <2>2, <2>3 DEF CompareSuccessor
<1>4. CASE CompareFork(b)
  <2>1. b \in inTree /\ isConnected(b) /\ isValid(b)
    BY <1>4 DEF CompareFork, compareContract
  <2>2. CASE \E k \in Unapplied(b) : FailAt(k, b, MAYBE_WITH_OTHER, VALID_UNKNOWN)
    BY <2>1, <2>2, <1>1, FailAtStep
  <2>3. CASE /\ level' = Raised(Unapplied(b), MAYBE_WITH_OTHER)
             /\ UNCHANGED <<known, inTree, failedBlock, failedPop, failedChild,
                            payloadVars, tips, tip>>
    BY <2>1, <2>3, KeepStep
  <2>4. CASE Switch(b)
    BY <2>1, <2>4, SwitchStep
  <2>5. CASE \E k \in Unapplied(b) : FailAt(k, b, CAN_BE_APPLIED, MAYBE_WITH_OTHER)
    BY <2>1, <2>5, <1>1, FailAtStep
  <2> QED
    BY <1>4, <2>2, <2>3, <2>4, <2>5 DEF CompareFork
<1> QED
  BY <1>2, <1>3, <1>4

-----------------------------------------------------------------------------
(* The theorems.                                                            *)

\* The inductive step: no operation, with whatever arguments, leaves IInv.
LEMMA NextIInv ==
    ASSUME OnlyBlockReason, IInv, [Next]_vars
    PROVE  IInv'
<1>1. CASE Next
  BY <1>1, AcceptBlockHeaderStep, AcceptBlockStep, RemovePayloadsStep,
     InvalidateSubtreeStep, RevalidateSubtreeStep, RemoveSubtreeStep, SwitchingStep
     DEF Next, OnlyBlockReason
<1>2. CASE UNCHANGED vars
  BY <1>2 DEF vars, statusVars, payloadVars, IInv, TypeOK, Shape, Flags, KnownClosed,
     LevelsOrdered, DeletedBare, UnraisedFailed, BodyNeedsLevel, ConnectedExact, FailedDown,
     FailedChildExact, AppliedNeverFailedPop, ActiveChainValid, isFailed, isConnected
<1> QED
  BY <1>1, <1>2

\* IInv holds in every reachable state of the tree.
THEOREM TreeInvariant ==
    ASSUME OnlyBlockReason
    PROVE  Spec => []IInv
<1>1. Init => IInv
  BY InitIInv
<1>2. IInv /\ [Next]_vars => IInv'
  BY NextIInv
<1> QED
  BY <1>1, <1>2, PTL DEF Spec

\* Type correctness: an index that is deallocated or deleted leaves no dangling
\* entry in blocks_, tips_, payloadsIndex_ or the flag sets.
THEOREM TypeCorrect ==
    ASSUME OnlyBlockReason
    PROVE  Spec => []TypeOK
<1>1. IInv => TypeOK
  BY DEF IInv
<1> QED
  BY <1>1, TreeInvariant, PTL

\* BLOCK_FAILED_CHILD is on exactly the blocks whose parent has failed, after any
\* sequence of invalidations, revalidations, removals and failed switches.
THEOREM FailedChildTheorem ==
    ASSUME OnlyBlockReason
    PROVE  Spec => []FailedChildExact
<1>1. IInv => FailedChildExact
  BY DEF IInv, Flags
<1> QED
  BY <1>1, TreeInvariant, PTL

\* From CONNECTED on no block is above one of its ancestors, and no ancestor leaves
\* the tree: raiseValidity never aborts connectBlock or applyBlock.
THEOREM LevelsTheorem ==
    ASSUME OnlyBlockReason
    PROVE  Spec => []LevelsDescend
<1>1. IInv => LevelsDescend
  BY DEF IInv, Shape, LevelsOrdered, LevelsDescend
<1> QED
  BY <1>1, TreeInvariant, PTL

\* acceptBlockHeader aborts at a child of a block that failed its payloads and came
\* back without a body, and nowhere else.
THEOREM HeaderTheorem ==
    ASSUME OnlyBlockReason
    PROVE  Spec => []HeaderAbortsOnFailedOnly
<1>1. IInv => HeaderAbortsOnFailedOnly
  BY DEF IInv, Shape, UnraisedFailed, BodyNeedsLevel, HeaderAbortsOnFailedOnly, HeaderAborts,
         headerContract, TypeOK, Levels, VALID_UNKNOWN, VALID_TREE
<1> QED
  BY <1>1, TreeInvariant, PTL

\* Every block of activeChain_ is in the tree, has not failed and has been applied.
THEOREM ActiveChainTheorem ==
    ASSUME OnlyBlockReason
    PROVE  Spec => []ActiveChainValid
<1>1. IInv => ActiveChainValid
  BY DEF IInv
<1> QED
  BY <1>1, TreeInvariant, PTL

\* BLOCK_CAN_BE_APPLIED and BLOCK_FAILED_POP never meet: the assertions of
\* isValidUpTo and doInvalidate.
THEOREM MutualExclusionTheorem ==
    ASSUME OnlyBlockReason
    PROVE  Spec => []AppliedNeverFailedPop
<1>1. IInv => AppliedNeverFailedPop
  BY DEF IInv, Flags
<1> QED
  BY <1>1, TreeInvariant, PTL

\* A block is connected exactly when it and all its ancestors have their bodies.
THEOREM ConnectedTheorem ==
    ASSUME OnlyBlockReason
    PROVE  Spec => []ConnectedExact
<1>1. IInv => ConnectedExact
  BY DEF IInv, Shape
<1> QED
  BY <1>1, TreeInvariant, PTL

-----------------------------------------------------------------------------
(* tips_ is exact.                                                          *)

\* A block that can be a tip has a parent that could be one.
LEMMA TipParents ==
    ASSUME IInv, NEW c \in Blocks \ {Root}, canBeATip(c)
    PROVE  canBeATip(Prev[c])
<1> USE TreeFacts DEF IInv, Shape, Flags
<1>1. c \in inTree /\ ~isFailed(c) /\ isConnected(c) /\ Prev[c] \in Blocks
  BY PrevFacts DEF canBeATip
<1>2. Prev[c] \in inTree
  BY <1>1, PrevFacts DEF LevelsOrdered
<1>3. isConnected(Prev[c])
  BY <1>1 DEF ConnectedExact
<1>4. ~isFailed(Prev[c])
  BY <1>1 DEF FailedChildExact, isFailed, TypeOK
<1> QED
  BY <1>2, <1>3, <1>4 DEF canBeATip

\* TipsExact, block by block.
LEMMA TipsMembers ==
    ASSUME TypeOK
    PROVE  TipsExact <=> \A x \in Blocks : x \in tips <=> isValidTip(x)
BY DEF TypeOK, TipsExact, isValidTip, canBeATip

\* Nothing at or above b can be a tip any more: its parent may have become one.
LEMMA TipsAfterRemoval ==
    ASSUME IInv, TipsExact, NEW b \in Blocks \ {Root}, NEW X \in SUBSET Blocks,
           \A x \in Blocks : canBeATip(x)' <=> canBeATip(x) /\ b \notin Ancestors[x],
           \A x \in X : b \in Ancestors[x],
           \A x \in tips : b \in Ancestors[x] => x \in X,
           tips' = tryAddTip(tips \ X, Prev[b])
    PROVE  \A x \in Blocks : x \in tips' <=> isValidTip(x)'
<1> USE TreeFacts
<1> DEFINE q == Prev[b]
<1>1. q \in Blocks /\ b \notin Ancestors[q] /\ q # b
  BY PrevFacts
<1>2. \A x \in Blocks : x \in tips <=> isValidTip(x)
  BY TipsMembers DEF IInv
<1>3. \A x \in Blocks : \A c \in Children(x) : c \in Blocks /\ c # Root /\ Prev[c] = x
  BY DEF Children
\* apart from q, a block off the subtree has the same children that can be tips
<1>4. ASSUME NEW x \in Blocks, x # q, b \notin Ancestors[x]
      PROVE  isValidTip(x)' <=> isValidTip(x)
  <2>1. \A c \in Children(x) : b \notin Ancestors[c]
    BY <1>3, <1>4, ChildOnPath, PrevFacts
  <2> QED
    BY <2>1, <1>3, <1>4 DEF isValidTip
<1>5. ASSUME NEW x \in Blocks, x # q PROVE x \in tips \ X <=> isValidTip(x)'
  <2>1. CASE b \in Ancestors[x]
    BY <2>1, <1>2 DEF isValidTip
  <2>2. CASE b \notin Ancestors[x]
    BY <2>2, <1>2, <1>4, <1>5
  <2> QED
    BY <2>1, <2>2
<1>6. isValidTip(q) => isValidTip(q)'
  BY <1>1, <1>3 DEF isValidTip
<1>7. CASE isValidTip(q)'
  <2>1. tips' = {t \in tips \ X : q \notin Children(t)} \cup {q}
    BY <1>7 DEF tryAddTip
  <2>2. \A t \in Blocks : isValidTip(t)' => q \notin Children(t)
    BY <1>7 DEF isValidTip
  <2> QED
    BY <2>1, <2>2, <1>5, <1>7
<1>8. CASE ~isValidTip(q)'
  BY <1>8, <1>1, <1>2, <1>5, <1>6 DEF tryAddTip
<1> QED
  BY <1>7, <1>8

\* The blocks of N can be tips from now on.
LEMMA TipsAfterAddition ==
    ASSUME IInv, TipsExact, NEW N \in SUBSET Blocks,
           \A x \in N : ~canBeATip(x),
           \A x \in Blocks : canBeATip(x)' <=> canBeATip(x) \/ x \in N
    PROVE  \A x \in Blocks : x \in tryAddTips(tips, N) <=> isValidTip(x)'
<1>1. \A x \in Blocks : x \in tips <=> isValidTip(x)
  BY TipsMembers DEF IInv
<1>2. \A x \in N : \A c \in Children(x) : ~canBeATip(c)
  BY TipParents DEF Children
<1>3. \A x \in Blocks : \A c \in Children(x) : c \in Blocks
  BY DEF Children
<1>4. ASSUME NEW x \in Blocks
      PROVE  x \in tryAddTips(tips, N) <=>
               (isValidTip(x) \/ x \in N) /\ \A c \in Children(x) : c \notin N
  BY <1>1 DEF tryAddTips
<1>5. ASSUME NEW x \in Blocks
      PROVE  isValidTip(x)' <=> /\ canBeATip(x) \/ x \in N
                                /\ \A c \in Children(x) : ~canBeATip(c) /\ c \notin N
  BY <1>3 DEF isValidTip
<1> QED
  BY <1>2, <1>4, <1>5 DEF isValidTip

\* The tips do not change when no block starts or ceases to be a possible tip.
LEMMA TipsUnchanged ==
    ASSUME IInv, TipsExact, tips' = tips,
           \A x \in Blocks : canBeATip(x)' <=> canBeATip(x)
    PROVE  \A x \in Blocks : x \in tips' <=> isValidTip(x)'
<1>1. \A x \in Blocks : x \in tips <=> isValidTip(x)
  BY TipsMembers DEF IInv
<1> QED
  BY <1>1 DEF isValidTip, Children

\* InvalidateValid(b, r) with the tree otherwise unchanged.
LEMMA TipsAfterInvalidate ==
    ASSUME IInv, TipsExact, NEW b \in inTree \ {Root}, ~isFailed(b),
           NEW r \in {"BLOCK", "POP"}, InvalidateValid(b, r),
           known' = known, inTree' = inTree,
           \A x \in Blocks : isConnected(x)' <=> isConnected(x)
    PROVE  \A x \in Blocks : x \in tips' <=> isValidTip(x)'
<1> USE TreeFacts DEF IInv, Shape, Flags
<1> DEFINE X == FlaggedBelow(b) \cup {b}
<1>1. b \in Blocks
  BY DEF TypeOK
<1>2. \A x : isFailed(x)' <=> isFailed(x) \/ x = b \/ x \in FlaggedBelow(b)
  BY DEF InvalidateValid, isFailed
<1>3. X \in SUBSET Blocks /\ \A x \in X : b \in Ancestors[x]
  BY <1>1 DEF FlaggedBelow, Below, TypeOK
<1>4. ASSUME NEW x \in Blocks, canBeATip(x), b \in Ancestors[x] PROVE x \in X
  <2>1. x \in known /\ ~isFailed(x)
    BY <1>4 DEF canBeATip, TypeOK
  <2>2. CASE x # b
    <3>1. \A m \in Between(b, x) : ~isFailed(m)
      BY <1>1, <1>4, <2>1, <2>2, BetweenFacts DEF FailedDown, isFailed
    <3> QED
      BY <3>1, <2>1, <2>2, <1>4 DEF FlaggedBelow, Below
  <2> QED
    BY <2>2
<1>5. \A x \in Blocks : canBeATip(x)' <=> canBeATip(x) /\ b \notin Ancestors[x]
  BY <1>2, <1>3, <1>4 DEF canBeATip
<1>6. \A x \in tips : b \in Ancestors[x] => x \in X
  BY <1>4 DEF TipsExact, isValidTip, TypeOK
<1>7. tips' = tryAddTip(tips \ X, Prev[b])
  BY DEF InvalidateValid
<1>8. b \in Blocks \ {Root} /\ IInv
  BY <1>1
<1> HIDE DEF X, IInv, Shape, Flags
<1> QED
  BY <1>3, <1>5, <1>6, <1>7, <1>8, TipsAfterRemoval

\* TipsMembers in the next state.
LEMMA TipsMembersNext ==
    ASSUME TypeOK', \A x \in Blocks : x \in tips' <=> isValidTip(x)'
    PROVE  TipsExact'
<1>1. tips' \subseteq Blocks /\ inTree' \subseteq Blocks
  BY DEF TypeOK
<1> QED
  BY <1>1 DEF TipsExact, isValidTip, canBeATip

\* Every operation patches tips_ to exactly the valid tips.
LEMMA TipsStep ==
    ASSUME OnlyBlockReason, IInv, TipsExact, IInv', Next
    PROVE  TipsExact'
<1> USE TreeFacts DEF VALID_UNKNOWN, VALID_TREE, CONNECTED, MAYBE_WITH_OTHER, CAN_BE_APPLIED
<1> SUFFICES \A x \in Blocks : x \in tips' <=> isValidTip(x)'
  BY TipsMembersNext DEF IInv
<1>1. ASSUME NEW b \in Blocks, AcceptBlockHeader(b)
      PROVE  \A x \in Blocks : x \in tips' <=> isValidTip(x)'
  <2>1. /\ b \notin inTree /\ b # Root /\ inTree' = inTree \cup {b} /\ b \in known'
        /\ failedBlock' = failedBlock /\ failedPop' = failedPop
        /\ failedChild' \ {b} = failedChild \ {b}
    BY <1>1 DEF AcceptBlockHeader, headerContract
  <2>2. ~(level'[b] >= 2) /\ \A x \in Blocks : x # b => level'[x] = level[x]
    BY <1>1, <2>1 DEF AcceptBlockHeader, RaisedToTree, IInv, TypeOK, Levels, Shape, DeletedBare
  <2>3. \A x \in Blocks : canBeATip(x)' <=> canBeATip(x)
    <3>1. ~canBeATip(b)' /\ ~canBeATip(b)
      BY <2>1, <2>2 DEF canBeATip, isConnected
    <3>2. ASSUME NEW x \in Blocks, x # b PROVE canBeATip(x)' <=> canBeATip(x)
      <4>1. (x \in inTree' <=> x \in inTree) /\ (x \in failedChild' <=> x \in failedChild)
        BY <2>1, <3>2
      <4>2. isFailed(x)' <=> isFailed(x)
        BY <4>1, <2>1 DEF isFailed
      <4>3. isConnected(x)' <=> isConnected(x)
        BY <2>2, <3>2 DEF isConnected
      <4> QED
        BY <4>1, <4>2, <4>3 DEF canBeATip
    <3> QED
      BY <3>1, <3>2
  <2>4. ~isValidTip(b)'
    BY <2>1, <2>3 DEF isValidTip, canBeATip
  <2>5. tips' = tips
    BY <2>4, <1>1 DEF AcceptBlockHeader, headerContract, tryAddTip
  <2> QED
    BY <2>3, <2>5, TipsUnchanged
<1>2. ASSUME NEW b \in Blocks, NEW p \in PopDatas, AcceptBlock(b, p)
      PROVE  \A x \in Blocks : x \in tips' <=> isValidTip(x)'
  <2> DEFINE new   == Connects(b)
             dups  == {d \in new : HasStatefulDuplicate(d)'}
             below == UNION {FlaggedBelow(d) : d \in {x \in dups : ~isFailed(x)}}
             N     == {x \in new : canBeATip(x)'}
             Q     == {q \in {Prev[d] : d \in {x \in dups : ~isFailed(x)}} : isValidTip(q)'}
  <2>1. /\ acceptBlockContract(b) /\ inTree' = inTree /\ failedBlock' = failedBlock
        /\ level' = Raised(new, 2) /\ failedPop' = failedPop \cup dups
        /\ failedChild' = failedChild \cup below
        /\ tips' = tryAddTips(tips \ (dups \cup below), N) \cup Q
    BY <1>2 DEF AcceptBlock
  <2>2. /\ \A d \in known : b \in Ancestors[d] => level[d] < 2
        /\ \A d \in new : d \in inTree /\ d \in Blocks /\ d \in known /\ b \in Ancestors[d]
    BY <2>1, ConnectsFacts DEF IInv, TypeOK
  <2>3. \A x \in Blocks : level'[x] = IF x \in new THEN 2 ELSE level[x]
    BY <2>1, <2>2 DEF Raised, IInv, TypeOK, Levels
  <2>4. \A x \in dups \cup below : x \in known /\ x \in Blocks /\ b \in Ancestors[x]
    BY <2>2 DEF FlaggedBelow, Below, IInv, TypeOK
  <2>5. \A x \in Blocks : b \in Ancestors[x] => ~canBeATip(x)
    BY <2>2 DEF canBeATip, isConnected, IInv, TypeOK, Levels
  <2>6. N \in SUBSET Blocks /\ \A x \in N : ~canBeATip(x)
    BY <2>2, <2>5
  <2>7. \A x \in Blocks : canBeATip(x)' <=> canBeATip(x) \/ x \in N
    <3>1. ASSUME NEW x \in Blocks, x \in new PROVE canBeATip(x)' <=> canBeATip(x) \/ x \in N
      BY <3>1, <2>2, <2>5
    <3>2. ASSUME NEW x \in Blocks, x \notin new PROVE canBeATip(x)' => canBeATip(x)
      BY <3>2, <2>1, <2>3 DEF canBeATip, isFailed, isConnected
    <3>3. ASSUME NEW x \in Blocks, canBeATip(x) PROVE canBeATip(x)'
      <4>1. x \notin new /\ x \notin dups \cup below
        BY <3>3, <2>2, <2>4, <2>5
      <4> QED
        BY <3>3, <4>1, <2>1, <2>3 DEF canBeATip, isFailed, isConnected
    <3> QED
      BY <3>1, <3>2, <3>3
  <2>8. tips \ (dups \cup below) = tips
    BY <2>4, <2>5 DEF TipsExact, isValidTip
  <2>9. \A x \in Blocks : x \in tryAddTips(tips, N) <=> isValidTip(x)'
    <3> HIDE DEF N
    <3> QED
      BY <2>6, <2>7, TipsAfterAddition
  <2> QED
    BY <2>1, <2>8, <2>9
<1>3. ASSUME NEW b \in Blocks, RemovePayloads(b)
      PROVE  \A x \in Blocks : x \in tips' <=> isValidTip(x)'
  <2> DEFINE wasTip == b \in failedPop /\ ~HasOtherFlags(b, "POP") /\ isConnected(b)
  <2>1. /\ b \in inTree /\ b # Root /\ Prev[b] \in Blocks
        /\ popData[b] # NoPopData
        /\ \A c \in Children(b) : ~isConnected(c)
        /\ inTree' = inTree /\ failedBlock' = failedBlock
        /\ failedPop' = failedPop \ {b}
        /\ failedChild' = failedChild \ Cleared(b, "POP")
        /\ level' = IF isConnected(b) THEN [level EXCEPT ![b] = 1] ELSE level
        /\ tips' = tryAddTip((IF wasTip THEN tryAddTips(tips, {b}) ELSE tips) \ {b}, Prev[b])
    BY <1>3, PrevFacts DEF RemovePayloads, removePayloadsContract
  <2>2. /\ ~(level'[b] >= 2) /\ \A x \in Blocks : x # b => level'[x] = level[x]
    BY <2>1 DEF isConnected, IInv, TypeOK, Levels
  <2>3. \A x \in Blocks : x # b /\ b \in Ancestors[x] => ~canBeATip(x)
    <3> SUFFICES ASSUME NEW x \in Blocks, x # b, b \in Ancestors[x], canBeATip(x) PROVE FALSE
      OBVIOUS
    <3>1. PICK c \in Children(b) : c \in Ancestors[x]
      BY ChildOnPath
    <3>2. c \in Blocks /\ ~(level[c] >= 2)
      BY <3>1, <2>1 DEF isConnected, Children
    <3>3. x \in inTree /\ level[x] >= 2
      BY DEF canBeATip, isConnected
    <3>4. level[x] <= level[c]
      BY <3>1, <3>3 DEF IInv, Shape, LevelsOrdered
    <3>5. level[x] \in 0..4 /\ level[c] \in 0..4
      BY <3>2 DEF IInv, TypeOK, Levels
    <3> QED
      BY <3>2, <3>3, <3>4, <3>5
  <2>4. \A x \in Cleared(b, "POP") : x # b /\ b \in Ancestors[x]
    BY DEF Cleared, ClearedBelow, Below
  <2>5. \A x \in Blocks : canBeATip(x)' <=> canBeATip(x) /\ b \notin Ancestors[x]
    <3>1. ~canBeATip(b)'
      BY <2>1, <2>2 DEF canBeATip, isConnected
    <3>2. ASSUME NEW x \in Blocks, x # b, b \notin Ancestors[x]
          PROVE  canBeATip(x)' <=> canBeATip(x)
      BY <3>2, <2>1, <2>2, <2>4 DEF canBeATip, isConnected, isFailed
    <3>3. ASSUME NEW x \in Blocks, x # b, b \in Ancestors[x] PROVE ~canBeATip(x)'
      <4>1. x \in inTree => level[x] < 2
        <5> SUFFICES ASSUME x \in inTree PROVE level[x] < 2
          OBVIOUS
        <5>1. PICK c \in Children(b) : c \in Ancestors[x]
          BY <3>3, ChildOnPath
        <5>2. level[x] <= level[c] /\ c \in Blocks /\ ~(level[c] >= 2)
          BY <5>1, <2>1 DEF isConnected, Children, IInv, Shape, LevelsOrdered
        <5> QED
          BY <5>2 DEF IInv, TypeOK, Levels
      <4>2. level'[x] = level[x] /\ level[x] \in 0..4 /\ inTree' = inTree
        BY <3>3, <2>1, <2>2 DEF IInv, TypeOK, Levels
      <4>3. x \in inTree' => ~(level'[x] >= 2)
        BY <4>1, <4>2
      <4> QED
        BY <4>3 DEF canBeATip, isConnected
    <3> QED
      BY <3>1, <3>2, <3>3
  <2>6. \A x \in Blocks : x \in tips <=> isValidTip(x)
    BY TipsMembers DEF IInv
  <2>7. \A x \in tips : b \in Ancestors[x] => x \in {b}
    BY <2>3 DEF TipsExact, isValidTip, canBeATip, IInv, TypeOK
  <2>8. CASE ~wasTip
    <3> DEFINE X == {b}
    <3>1. tips' = tryAddTip(tips \ X, Prev[b])
      BY <2>1, <2>8
    <3>2. b \in Blocks \ {Root} /\ X \in SUBSET Blocks /\ \A x \in X : b \in Ancestors[x]
      BY <2>1
    <3>3. \A x \in tips : b \in Ancestors[x] => x \in X
      BY <2>7
    <3> HIDE DEF X
    <3> QED
      BY <3>1, <3>2, <3>3, <2>5, TipsAfterRemoval
  <2>9. CASE wasTip
    <3>1. ~canBeATip(b) /\ b \notin tips
      BY <2>6, <2>9 DEF canBeATip, isFailed, isValidTip
    <3>2. \A x \in Blocks : canBeATip(x)' <=> canBeATip(x)
      BY <2>3, <2>5, <3>1
    <3>3. \A x \in Blocks : isValidTip(x)' <=> isValidTip(x)
      BY <3>2 DEF isValidTip, Children
    <3>4. Prev[b] \notin Children(Prev[b]) /\ b \in Children(Prev[b])
          /\ \A t \in Blocks : b \in Children(t) => t = Prev[b]
      BY <2>1, PrevFacts DEF Children
    <3>5. \A x \in Blocks : x \in tryAddTips(tips, {b}) \ {b} <=> x \in tips /\ x # Prev[b]
      BY <3>1, <3>4 DEF tryAddTips
    <3>6. \A t \in Blocks : isValidTip(Prev[b]) /\ isValidTip(t) => Prev[b] \notin Children(t)
      BY DEF isValidTip
    <3>7. CASE isValidTip(Prev[b])'
      <4>1. tips' = {t \in tryAddTips(tips, {b}) \ {b} : Prev[b] \notin Children(t)} \cup {Prev[b]}
        BY <2>1, <2>9, <3>7 DEF tryAddTip
      <4> QED
        BY <4>1, <2>1, <2>6, <3>3, <3>5, <3>6, <3>7
    <3>8. CASE ~isValidTip(Prev[b])'
      <4>1. tips' = tryAddTips(tips, {b}) \ {b}
        BY <2>1, <2>9, <3>8 DEF tryAddTip
      <4> QED
        BY <4>1, <2>1, <2>6, <3>3, <3>5, <3>8
    <3> QED
      BY <3>7, <3>8
  <2> QED
    BY <2>8, <2>9
<1>4. ASSUME NEW b \in Blocks, InvalidateSubtree(b, "BLOCK")
      PROVE  \A x \in Blocks : x \in tips' <=> isValidTip(x)'
  <2>1. /\ b \in inTree \ {Root} /\ known' = known /\ inTree' = inTree /\ level' = level
    BY <1>4 DEF InvalidateSubtree
  <2>2. CASE isValid(b)
    <3>1. InvalidateValid(b, "BLOCK") /\ ~isFailed(b)
      BY <1>4, <2>2 DEF InvalidateSubtree, isValid
    <3>2. \A x \in Blocks : isConnected(x)' <=> isConnected(x)
      BY <2>1 DEF isConnected
    <3> QED
      BY <2>1, <3>1, <3>2, TipsAfterInvalidate
  <2>3. CASE ~isValid(b)
    <3>1. isFailed(b)
      <4>1. level[b] \in 0..4 /\ (isFailed(b) \/ level[b] < 1)
        BY <2>1, <2>3 DEF isValid, IInv, TypeOK, Levels
      <4> QED
        BY <4>1, <2>1 DEF IInv, Shape, UnraisedFailed, isFailed
    <3>2. failedBlock' = failedBlock \cup {b} /\ failedPop' = failedPop
          /\ failedChild' = failedChild /\ tips' = tips \ {b}
      BY <1>4, <2>3 DEF InvalidateSubtree
    <3>3. \A x \in Blocks : canBeATip(x)' <=> canBeATip(x)
      BY <2>1, <3>1, <3>2 DEF canBeATip, isFailed, isConnected
    <3>4. b \notin tips
      BY <3>1 DEF TipsExact, isValidTip, canBeATip
    <3> QED
      BY <3>2, <3>3, <3>4, TipsUnchanged
  <2> QED
    BY <2>2, <2>3
<1>5. ASSUME NEW b \in Blocks, RevalidateSubtree(b, "BLOCK")
      PROVE  \A x \in Blocks : x \in tips' <=> isValidTip(x)'
  <2> DEFINE N == {x \in Cleared(b, "BLOCK") \cup {b} : canBeATip(x)'}
  <2>1. /\ b \in inTree /\ b # Root /\ b \in failedBlock
        /\ inTree' = inTree /\ level' = level
        /\ failedBlock' = failedBlock \ {b} /\ failedPop' = failedPop
        /\ failedChild' = failedChild \ Cleared(b, "BLOCK")
        /\ tips' = tryAddTips(tips, N)
    BY <1>5 DEF RevalidateSubtree, FlagSet
  <2>2. \A x \in Cleared(b, "BLOCK") : x \in known /\ x \in Blocks /\ x # b /\ b \in Ancestors[x]
    BY DEF Cleared, ClearedBelow, Below, IInv, TypeOK
  <2>3. \A x \in Cleared(b, "BLOCK") \cup {b} : isFailed(x) /\ x \in Blocks
    BY <2>1, <2>2 DEF isFailed, IInv, Flags, FailedDown
  <2>4. N \in SUBSET Blocks /\ \A x \in N : ~canBeATip(x)
    BY <2>3 DEF canBeATip
  <2>5. \A x \in Blocks : canBeATip(x)' <=> canBeATip(x) \/ x \in N
    <3>1. ASSUME NEW x \in Blocks, x \notin Cleared(b, "BLOCK") \cup {b}
          PROVE  canBeATip(x)' <=> canBeATip(x)
      BY <3>1, <2>1 DEF canBeATip, isFailed, isConnected
    <3> QED
      BY <3>1, <2>3 DEF canBeATip
  <2> HIDE DEF N
  <2> QED
    BY <2>1, <2>4, <2>5, TipsAfterAddition
<1>6. ASSUME NEW b \in Blocks, RemoveSubtree(b)
      PROVE  \A x \in Blocks : x \in tips' <=> isValidTip(x)'
  <2> DEFINE gone == {d \in inTree : b \in Ancestors[d]}
  <2>1. /\ b \in inTree /\ b # Root /\ inTree' = inTree \ gone
        /\ level' = [d \in Blocks |-> IF d \in gone THEN 0 ELSE level[d]]
        /\ failedBlock' = failedBlock /\ failedPop' = failedPop /\ failedChild' = failedChild
        /\ tips' = tryAddTip(tips \ gone, Prev[b])
    BY <1>6 DEF RemoveSubtree
  <2>2. \A x \in Blocks : canBeATip(x)' <=> canBeATip(x) /\ b \notin Ancestors[x]
    BY <2>1 DEF canBeATip, isFailed, isConnected
  <2>3. gone \in SUBSET Blocks /\ \A x \in gone : b \in Ancestors[x]
    BY DEF IInv, TypeOK
  <2>4. \A x \in tips : b \in Ancestors[x] => x \in gone
    BY DEF TipsExact
  <2> HIDE DEF gone
  <2> QED
    BY <2>1, <2>2, <2>3, <2>4, TipsAfterRemoval
<1>7. ASSUME NEW b \in Blocks, b \in inTree, isConnected(b), NEW lvl \in Levels,
             level' = Raised(Unapplied(b), lvl), lvl >= CONNECTED,
             UNCHANGED <<inTree, failedBlock, failedPop, failedChild, tips>>
      PROVE  \A x \in Blocks : x \in tips' <=> isValidTip(x)'
  <2>1. \A x \in Unapplied(b) : level[x] >= 2
    BY <1>7 DEF Unapplied, isConnected, IInv, Shape, LevelsOrdered, TypeOK, Levels
  <2>2. \A x \in Blocks : isConnected(x)' <=> isConnected(x)
    BY <1>7, <2>1 DEF Raised, isConnected, IInv, TypeOK, Levels
  <2>3. \A x \in Blocks : canBeATip(x)' <=> canBeATip(x)
    BY <1>7, <2>2 DEF canBeATip, isFailed
  <2> QED
    BY <1>7, <2>3, TipsUnchanged
<1>8. ASSUME NEW b \in Blocks, b \in inTree, isConnected(b), isValid(b),
             NEW k \in Unapplied(b), NEW lvl \in Levels, NEW rest \in Levels,
             FailAt(k, b, lvl, rest)
      PROVE  \A x \in Blocks : x \in tips' <=> isValidTip(x)'
  <2>1. \A x \in Unapplied(b) : x \in Blocks /\ x \in inTree /\ ~isFailed(x) /\ level[x] >= 2
    BY <1>8, ValidChain DEF Unapplied, isConnected, IInv, Shape, LevelsOrdered, TypeOK, Levels
  <2>2. k \in inTree \ {Root} /\ ~isFailed(k)
    BY <2>1 DEF Unapplied, IInv, TypeOK
  <2>3. \A x \in Blocks : isConnected(x)' <=> isConnected(x)
    BY <1>8, <2>1, HeightAssumption DEF FailAt, isConnected, IInv, TypeOK, Levels
  <2>4. InvalidateValid(k, "POP") /\ known' = known /\ inTree' = inTree
    BY <1>8 DEF FailAt
  <2> QED
    BY <2>2, <2>3, <2>4, TipsAfterInvalidate
<1>9. ASSUME NEW b \in Blocks, SetState(b) \/ CompareSuccessor(b) \/ CompareFork(b)
      PROVE  \A x \in Blocks : x \in tips' <=> isValidTip(x)'
  <2>1. b \in inTree /\ isConnected(b)
    BY <1>9 DEF SetState, CompareSuccessor, CompareFork, setStateContract, compareContract
  <2>2. CASE Switch(b)
    BY <2>1, <2>2, <1>7 DEF Switch, Levels
  <2>3. CASE /\ level' = Raised(Unapplied(b), MAYBE_WITH_OTHER)
             /\ UNCHANGED <<known, inTree, failedBlock, failedPop, failedChild,
                            payloadVars, tips, tip>>
    BY <2>1, <2>3, <1>7 DEF Levels
  <2>4. CASE isValid(b) /\ \E k \in Unapplied(b) : \E lvl, rest \in Levels : FailAt(k, b, lvl, rest)
    BY <2>1, <2>4, <1>8
  <2> QED
    BY <1>9, <2>2, <2>3, <2>4
       DEF SetState, CompareSuccessor, CompareFork, compareContract, Levels
<1> QED
  BY <1>1, <1>2, <1>3, <1>4, <1>5, <1>6, <1>9 DEF Next, OnlyBlockReason

\* tips_ is the set of valid tips although it is only ever patched.
THEOREM TipsTheorem ==
    ASSUME OnlyBlockReason
    PROVE  Spec => []TipsExact
<1>1. Init => TipsExact
  BY TreeFacts DEF Init, TipsExact, isValidTip, canBeATip, isFailed, isConnected, Children,
     CONNECTED, CAN_BE_APPLIED
<1>2. IInv /\ TipsExact /\ IInv' /\ [Next]_vars => TipsExact'
  <2>1. ASSUME TipsExact, UNCHANGED vars PROVE TipsExact'
    BY <2>1 DEF vars, statusVars, payloadVars, TipsExact, isValidTip, canBeATip, isFailed,
       isConnected
  <2> QED
    BY <2>1, TipsStep
<1> QED
  BY <1>1, <1>2, TreeInvariant, PTL DEF Spec

-----------------------------------------------------------------------------
(* Payloads.                                                                *)

\* Switching the active chain, or failing to, connects no block, disconnects
\* none and never clears FAILED_POP.
LEMMA SwitchingFacts ==
    ASSUME IInv, NEW b \in Blocks, SetState(b) \/ CompareSuccessor(b) \/ CompareFork(b)
    PROVE  /\ inTree' = inTree /\ popData' = popData /\ payloadsIndex' = payloadsIndex
           /\ failedPop \subseteq failedPop'
           /\ \A x \in Blocks : isConnected(x)' <=> isConnected(x)
<1> USE TreeFacts DEF VALID_UNKNOWN, VALID_TREE, CONNECTED, MAYBE_WITH_OTHER, CAN_BE_APPLIED
<1>1. b \in inTree /\ isConnected(b)
  BY DEF SetState, CompareSuccessor, CompareFork, setStateContract, compareContract
<1>2. \A x \in Unapplied(b) : x \in Blocks /\ level[x] >= 2
  BY <1>1 DEF Unapplied, isConnected, IInv, Shape, LevelsOrdered, TypeOK, Levels
<1>3. ASSUME NEW lvl \in Levels, level' = Raised(Unapplied(b), lvl), lvl >= CONNECTED
      PROVE  \A x \in Blocks : isConnected(x)' <=> isConnected(x)
  BY <1>2, <1>3 DEF Raised, isConnected, IInv, TypeOK, Levels
<1>4. CASE Switch(b)
  BY <1>3, <1>4 DEF Switch, payloadVars, Levels
<1>5. CASE /\ level' = Raised(Unapplied(b), MAYBE_WITH_OTHER)
           /\ UNCHANGED <<known, inTree, failedBlock, failedPop, failedChild,
                          payloadVars, tips, tip>>
  BY <1>3, <1>5 DEF payloadVars, Levels
<1>6. ASSUME NEW k \in Unapplied(b), NEW lvl \in Levels, NEW rest \in Levels,
             FailAt(k, b, lvl, rest)
      PROVE  /\ inTree' = inTree /\ popData' = popData /\ payloadsIndex' = payloadsIndex
             /\ failedPop \subseteq failedPop'
             /\ \A x \in Blocks : isConnected(x)' <=> isConnected(x)
  <2>1. \A x \in Blocks : isConnected(x)' <=> isConnected(x)
    BY <1>2, <1>6, HeightAssumption DEF FailAt, isConnected, IInv, TypeOK, Levels
  <2> QED
    BY <2>1, <1>6 DEF FailAt, InvalidateValid, payloadVars
<1>7. CASE \E k \in Unapplied(b) : \E lvl, rest \in Levels : FailAt(k, b, lvl, rest)
  BY <1>6, <1>7
<1> QED
  BY <1>4, <1>5, <1>7 DEF SetState, CompareSuccessor, CompareFork, Levels

\* Every operation that changes a body changes payloadsIndex_ in the same way.
LEMMA PayloadsIndexStep ==
    ASSUME OnlyBlockReason, TypeOK, DeletedBare, PayloadsIndexExact, Next
    PROVE  PayloadsIndexExact'
<1> SUFFICES ASSUME NEW i \in PayloadIds
             PROVE  payloadsIndex'[i] = {x \in inTree' : i \in IdsIn(popData'[x])}
  BY DEF PayloadsIndexExact, IdsIn
<1>1. payloadsIndex[i] = {x \in inTree : i \in IdsIn(popData[x])}
  BY DEF PayloadsIndexExact
<1>2. IdsIn(NoPopData) = {}
  BY DEF IdsIn
<1>3. payloadsIndex \in [PayloadIds -> SUBSET Blocks] /\ inTree \subseteq Blocks
      /\ popData \in [Blocks -> PopDatas \cup {NoPopData}]
  BY DEF TypeOK
<1>4. ASSUME NEW b \in Blocks, AcceptBlockHeader(b)
      PROVE  payloadsIndex'[i] = {x \in inTree' : i \in IdsIn(popData'[x])}
  <2>1. popData[b] = NoPopData /\ inTree' = inTree \cup {b}
        /\ popData' = popData /\ payloadsIndex' = payloadsIndex
    BY <1>4 DEF AcceptBlockHeader, headerContract, payloadVars, DeletedBare
  <2> QED
    BY <2>1, <1>1, <1>2
<1>5. ASSUME NEW b \in Blocks, NEW p \in PopDatas, AcceptBlock(b, p)
      PROVE  payloadsIndex'[i] = {x \in inTree' : i \in IdsIn(popData'[x])}
  <2>1. /\ b \in inTree /\ popData[b] = NoPopData /\ inTree' = inTree
        /\ popData' = [popData EXCEPT ![b] = p]
        /\ payloadsIndex'[i] = IF i \in IdsOf[p] THEN payloadsIndex[i] \cup {b}
                                                 ELSE payloadsIndex[i]
    BY <1>5 DEF AcceptBlock, acceptBlockContract
  <2>2. IdsIn(p) = IdsOf[p]
    BY PopDataAssumption DEF IdsIn
  <2>3. \A x \in inTree : popData'[x] = IF x = b THEN p ELSE popData[x]
    BY <2>1, <1>3
  <2> QED
    BY <2>1, <2>2, <2>3, <1>1, <1>2
<1>6. ASSUME NEW b \in Blocks, RemovePayloads(b)
      PROVE  payloadsIndex'[i] = {x \in inTree' : i \in IdsIn(popData'[x])}
  <2>1. /\ b \in inTree /\ inTree' = inTree
        /\ popData' = [popData EXCEPT ![b] = NoPopData]
        /\ payloadsIndex'[i] = IF i \in IdsIn(popData[b]) THEN payloadsIndex[i] \ {b}
                                                          ELSE payloadsIndex[i]
    BY <1>6 DEF RemovePayloads, removePayloadsContract
  <2>2. \A x \in inTree : popData'[x] = IF x = b THEN NoPopData ELSE popData[x]
    BY <2>1, <1>3
  <2> QED
    BY <2>1, <2>2, <1>1, <1>2
<1>7. ASSUME NEW b \in Blocks, RemoveSubtree(b)
      PROVE  payloadsIndex'[i] = {x \in inTree' : i \in IdsIn(popData'[x])}
  <2> DEFINE gone == {d \in inTree : b \in Ancestors[d]}
  <2>1. /\ inTree' = inTree \ gone
        /\ popData' = [d \in Blocks |-> IF d \in gone THEN NoPopData ELSE popData[d]]
        /\ payloadsIndex'[i] = payloadsIndex[i] \ gone
    BY <1>7 DEF RemoveSubtree, Unindexed
  <2>2. \A x \in inTree' : popData'[x] = popData[x]
    BY <2>1, <1>3
  <2> HIDE DEF gone
  <2> QED
    BY <2>1, <2>2, <1>1
<1>8. ASSUME inTree' = inTree, popData' = popData, payloadsIndex' = payloadsIndex
      PROVE  payloadsIndex'[i] = {x \in inTree' : i \in IdsIn(popData'[x])}
  BY <1>1, <1>8
<1>9. ASSUME NEW b \in Blocks, InvalidateSubtree(b, "BLOCK") \/ RevalidateSubtree(b, "BLOCK")
      PROVE  inTree' = inTree /\ popData' = popData /\ payloadsIndex' = payloadsIndex
  BY <1>9 DEF InvalidateSubtree, RevalidateSubtree, payloadVars
<1>10. ASSUME NEW b \in Blocks, SetState(b) \/ CompareSuccessor(b) \/ CompareFork(b)
       PROVE  inTree' = inTree /\ popData' = popData /\ payloadsIndex' = payloadsIndex
  BY <1>10 DEF SetState, CompareSuccessor, CompareFork, Switch, FailAt, payloadVars
<1> QED
  BY <1>4, <1>5, <1>6, <1>7, <1>8, <1>9, <1>10 DEF Next, OnlyBlockReason

\* A step that connects no block, clears no FAILED_POP flag and only forgets
\* payloads brings no duplicate.
LEMMA NoDuplicateKept ==
    ASSUME TypeOK, NoDuplicateOnValidChain,
           \A x \in Blocks : IdsIn(popData'[x]) \subseteq IdsIn(popData[x]),
           \A x \in inTree' : isConnected(x)' /\ x \notin failedPop' =>
               x \in inTree /\ isConnected(x) /\ x \notin failedPop
    PROVE  NoDuplicateOnValidChain'
<1> SUFFICES ASSUME NEW b \in inTree' \ {Root}, isConnected(b)', b \notin failedPop',
                    NEW a \in Ancestors[Prev[b]]
             PROVE  IdsIn(popData'[a]) \cap IdsIn(popData'[b]) = {}
  BY DEF NoDuplicateOnValidChain, IdsIn
<1>1. b \in inTree /\ isConnected(b) /\ b \notin failedPop /\ b \in Blocks
  BY DEF TypeOK
<1>2. a \in Blocks
  BY <1>1, PrevFacts, TreeFacts
<1>3. IdsIn(popData[a]) \cap IdsIn(popData[b]) = {}
  BY <1>1 DEF NoDuplicateOnValidChain
<1> QED
  BY <1>1, <1>2, <1>3

\* connectBlock looks up the payloads of every block it connects in an index that
\* is exact, so it finds the duplicate on whichever side the body came last.
LEMMA NoDuplicateStep ==
    ASSUME OnlyBlockReason, IInv, PayloadsIndexExact, NoDuplicateOnValidChain,
           IInv', PayloadsIndexExact', Next
    PROVE  NoDuplicateOnValidChain'
<1> USE DEF VALID_UNKNOWN, VALID_TREE, CONNECTED, CAN_BE_APPLIED
<1>1. IdsIn(NoPopData) = {}
  BY DEF IdsIn
<1>2. inTree \subseteq Blocks /\ popData \in [Blocks -> PopDatas \cup {NoPopData}]
      /\ level \in [Blocks -> 0..4]
  BY DEF IInv, TypeOK, Levels
<1>3. ASSUME NEW b \in Blocks, AcceptBlockHeader(b)
      PROVE  NoDuplicateOnValidChain'
  <2>1. popData' = popData /\ inTree' = inTree \cup {b} /\ failedPop' = failedPop
        /\ level' = [level EXCEPT ![b] = IF b \in failedPop THEN level[b] ELSE 1]
        /\ level[b] = 0
    BY <1>3 DEF AcceptBlockHeader, headerContract, RaisedToTree, payloadVars, IInv, Shape, DeletedBare
  <2>2. ~(level'[b] >= 2) /\ \A x \in Blocks : x # b => level'[x] = level[x]
    BY <2>1, <1>2
  <2>3. \A x \in inTree' : isConnected(x)' => x \in inTree /\ isConnected(x)
    BY <2>1, <2>2, <1>2 DEF isConnected
  <2> QED
    BY <2>1, <2>3, NoDuplicateKept DEF IInv
<1>4. ASSUME NEW b \in Blocks, NEW p \in PopDatas, AcceptBlock(b, p)
      PROVE  NoDuplicateOnValidChain'
  <2> DEFINE new  == Connects(b)
             dups == {d \in new : HasStatefulDuplicate(d)'}
  <2>1. /\ acceptBlockContract(b) /\ inTree' = inTree
        /\ popData' = [popData EXCEPT ![b] = p]
        /\ level' = Raised(new, 2) /\ failedPop' = failedPop \cup dups
    BY <1>4 DEF AcceptBlock
  <2>2. inTree \subseteq known /\ \A d \in known : b \in Ancestors[d] => level[d] < 2
    BY <2>1, ConnectsFacts DEF IInv, TypeOK
  <2> SUFFICES ASSUME NEW d \in inTree \ {Root}, isConnected(d)', d \notin failedPop',
                      NEW a \in Ancestors[Prev[d]]
               PROVE  IdsIn(popData'[a]) \cap IdsIn(popData'[d]) = {}
    BY <2>1 DEF NoDuplicateOnValidChain, IdsIn
  <2>3. d \in Blocks /\ Prev[d] \in Blocks /\ a \in Blocks /\ a \in Ancestors[d]
    BY <1>2, PrevFacts, TreeFacts
  <2>4. CASE d \in new
    <3>1. ~HasStatefulDuplicate(d)'
      BY <2>1, <2>4
    <3>2. \A i \in IdsIn(popData'[d]) : a \notin payloadsIndex'[i]
      <4>1. a \in inTree'
        BY <2>1, <2>3 DEF IInv, Shape, LevelsOrdered
      <4> QED
        BY <3>1, <4>1 DEF HasStatefulDuplicate, IdsIn
    <3>3. \A i \in IdsIn(popData'[d]) : i \in PayloadIds
      <4>1. popData'[d] \in PopDatas \cup {NoPopData}
        BY <2>3 DEF IInv, TypeOK
      <4> QED
        BY <4>1, PopDataAssumption DEF IdsIn
    <3>4. ASSUME NEW i \in IdsIn(popData'[d]), i \in IdsIn(popData'[a]) PROVE FALSE
      <4>1. i \in PayloadIds /\ a \in inTree' /\ a \notin payloadsIndex'[i]
        BY <3>2, <3>3, <2>1, <2>3 DEF IInv, Shape, LevelsOrdered
      <4>2. payloadsIndex'[i] = {x \in inTree' : i \in IdsIn(popData'[x])}
        BY <4>1 DEF PayloadsIndexExact, IdsIn
      <4> QED
        BY <3>4, <4>1, <4>2
    <3> QED
      BY <3>4
  <2>5. CASE d \notin new
    <3>1. level'[d] = level[d]
      BY <2>1, <2>3, <2>5 DEF Raised
    <3>2. isConnected(d) /\ d \notin failedPop
      BY <3>1, <2>1 DEF isConnected
    <3>3. b \notin Ancestors[d]
      BY <3>2, <2>2, <2>3, <1>2 DEF isConnected
    <3>4. popData'[a] = popData[a] /\ popData'[d] = popData[d]
      BY <3>3, <2>1, <2>3, <1>2, TreeFacts
    <3> QED
      BY <3>2, <3>4 DEF NoDuplicateOnValidChain
  <2> QED
    BY <2>4, <2>5
<1>5. ASSUME NEW b \in Blocks, RemovePayloads(b)
      PROVE  NoDuplicateOnValidChain'
  <2>1. /\ inTree' = inTree /\ failedPop' = failedPop \ {b}
        /\ popData' = [popData EXCEPT ![b] = NoPopData]
        /\ level' = IF isConnected(b) THEN [level EXCEPT ![b] = 1] ELSE level
    BY <1>5 DEF RemovePayloads
  <2>2. ~(level'[b] >= 2) /\ \A x \in Blocks : x # b => level'[x] = level[x]
    BY <2>1, <1>2 DEF isConnected
  <2>3. \A x \in inTree' : isConnected(x)' /\ x \notin failedPop' =>
               x \in inTree /\ isConnected(x) /\ x \notin failedPop
    BY <2>1, <2>2, <1>2 DEF isConnected
  <2>4. \A x \in Blocks : IdsIn(popData'[x]) \subseteq IdsIn(popData[x])
    BY <2>1, <1>1, <1>2
  <2> QED
    BY <2>3, <2>4, NoDuplicateKept DEF IInv
<1>6. ASSUME NEW b \in Blocks, RemoveSubtree(b)
      PROVE  NoDuplicateOnValidChain'
  <2> DEFINE gone == {d \in inTree : b \in Ancestors[d]}
  <2>1. /\ inTree' = inTree \ gone /\ failedPop' = failedPop
        /\ popData' = [d \in Blocks |-> IF d \in gone THEN NoPopData ELSE popData[d]]
        /\ level' = [d \in Blocks |-> IF d \in gone THEN 0 ELSE level[d]]
    BY <1>6 DEF RemoveSubtree
  <2> HIDE DEF gone
  <2>2. \A x \in inTree' : isConnected(x)' => x \in inTree /\ isConnected(x)
    BY <2>1, <1>2 DEF isConnected
  <2>3. \A x \in Blocks : IdsIn(popData'[x]) \subseteq IdsIn(popData[x])
    BY <2>1, <1>1
  <2> QED
    BY <2>1, <2>2, <2>3, NoDuplicateKept DEF IInv
<1>7. ASSUME inTree' = inTree, popData' = popData, failedPop \subseteq failedPop',
             \A x \in Blocks : isConnected(x)' <=> isConnected(x)
      PROVE  NoDuplicateOnValidChain'
  BY <1>2, <1>7, NoDuplicateKept DEF IInv
<1>8. ASSUME NEW b \in Blocks, InvalidateSubtree(b, "BLOCK") \/ RevalidateSubtree(b, "BLOCK")
      PROVE  NoDuplicateOnValidChain'
  <2>1. inTree' = inTree /\ popData' = popData /\ failedPop' = failedPop /\ level' = level
    BY <1>8 DEF InvalidateSubtree, InvalidateValid, RevalidateSubtree, payloadVars
  <2> QED
    BY <2>1, <1>7 DEF isConnected
<1>9. ASSUME NEW b \in Blocks, SetState(b) \/ CompareSuccessor(b) \/ CompareFork(b)
      PROVE  NoDuplicateOnValidChain'
  BY <1>7, <1>9, SwitchingFacts
<1> QED
  BY <1>3, <1>4, <1>5, <1>6, <1>8, <1>9 DEF Next, OnlyBlockReason

\* payloadsIndex_ is exact: an id leads to the blocks of the tree that hold it.
THEOREM PayloadsIndexTheorem ==
    ASSUME OnlyBlockReason
    PROVE  Spec => []PayloadsIndexExact
<1>1. Init => PayloadsIndexExact
  BY TreeFacts DEF Init, PayloadsIndexExact, IdsIn
<1>2. IInv /\ PayloadsIndexExact /\ [Next]_vars => PayloadsIndexExact'
  <2>1. ASSUME PayloadsIndexExact, UNCHANGED vars PROVE PayloadsIndexExact'
    BY <2>1 DEF vars, statusVars, payloadVars, PayloadsIndexExact
  <2> QED
    BY <2>1, PayloadsIndexStep DEF IInv, Shape
<1> QED
  BY <1>1, <1>2, TreeInvariant, PTL DEF Spec

\* No payload occurs twice on a connected chain unless the later block has failed.
THEOREM NoDuplicateTheorem ==
    ASSUME OnlyBlockReason
    PROVE  Spec => []NoDuplicateOnValidChain
<1>1. Init => NoDuplicateOnValidChain
  BY DEF Init, NoDuplicateOnValidChain
<1>2. /\ IInv /\ PayloadsIndexExact /\ NoDuplicateOnValidChain
      /\ IInv' /\ PayloadsIndexExact' /\ [Next]_vars
      => NoDuplicateOnValidChain'
  <2>1. ASSUME NoDuplicateOnValidChain, UNCHANGED vars PROVE NoDuplicateOnValidChain'
    BY <2>1 DEF vars, statusVars, payloadVars, NoDuplicateOnValidChain, isConnected
  <2> QED
    BY <2>1, NoDuplicateStep
<1> QED
  BY <1>1, <1>2, TreeInvariant, PayloadsIndexTheorem, PTL DEF Spec

=============================================================================
