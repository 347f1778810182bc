----------------------------- MODULE AltBlockTree -----------------------------
(***************************************************************************)
(* The tree of altchain blocks: BaseBlockTree<AltBlock> (base_block_tree    *)
(* .hpp) and AltBlockTree (alt_block_tree.cpp).                             *)
(*                                                                          *)
(* A block is a member of a fixed header universe: a header fixes its       *)
(* parent and its height.  Every public operation of the tree is one        *)
(* action; the library is single threaded, so an operation is one step.     *)
(*                                                                          *)
(* What applying the PoP payloads of a block does to the protecting VBK     *)
(* tree is left open here: SetState and ComparePopScore choose whether, and *)
(* at which block, it fails.  Module PopStateMachine gives it a meaning and *)
(* implements this specification.                                           *)
(*                                                                          *)
(* The arguments of an action obey the VBK_ASSERTs on the arguments of the  *)
(* operation (its contract); the other VBK_ASSERTs are properties.  A       *)
(* failed VBK_ASSERT ends the process, so there is no step: HeaderAborts is *)
(* the one case there is.  Calls that change nothing (a duplicate header,   *)
(* an unknown parent) are stutters and are not listed.                      *)
(***************************************************************************)
EXTENDS Keystones

CONSTANTS
    Blocks,          \* the header universe
    Root,            \* the bootstrap block
    Prev,            \* parent of every block but Root
    Ancestors,       \* the chain from Root up to a block, the block included
    Height,
    KeystoneInterval,
    PayloadIds,      \* ids of ATVs, VTBs and VBK context blocks
    PopDatas,        \* the PopData bodies the altchain may deliver
    IdsOf,           \* the payload ids of a body
    NoPopData,       \* BLOCK_HAS_PAYLOADS is not set
    ExternalReasons  \* the invalidation reasons the altchain uses

ASSUME TreeAssumption ==
    /\ Root \in Blocks
    /\ Prev \in [Blocks \ {Root} -> Blocks]
    /\ Ancestors \in [Blocks -> SUBSET Blocks]
    /\ Ancestors[Root] = {Root}
    /\ \A b \in Blocks \ {Root} :
          Ancestors[b] = Ancestors[Prev[b]] \cup {b}
    /\ \A b \in Blocks :
          /\ Root \in Ancestors[b]
          /\ \A a \in Ancestors[b] : Ancestors[a] \subseteq Ancestors[b]
          /\ \A a, c \in Ancestors[b] : a \in Ancestors[c] \/ c \in Ancestors[a]
          /\ \A a \in Ancestors[b] \ {b} : \E c \in Ancestors[b] \ {Root} : Prev[c] = a

ASSUME HeightAssumption ==
    /\ Height \in [Blocks -> Nat]
    /\ \A b \in Blocks \ {Root} : Height[b] = Height[Prev[b]] + 1
    /\ \A b \in Blocks : \A a \in Ancestors[b] :
          Height[a] <= Height[b] /\ (Height[a] = Height[b] => a = b)
    /\ KeystoneInterval \in Nat \ {0}

ASSUME PopDataAssumption ==
    /\ IdsOf \in [PopDatas -> SUBSET PayloadIds]
    /\ NoPopData \notin PopDatas

\* "BLOCK" is BLOCK_FAILED_BLOCK, "POP" is BLOCK_FAILED_POP.
ASSUME ReasonAssumption == ExternalReasons \subseteq {"BLOCK", "POP"}

VARIABLES
    known,          \* blocks_: the allocated indices, the deleted ones included
    inTree,         \* the known blocks without BLOCK_DELETED
    level,          \* the validity level of each block
    failedBlock,    \* the blocks flagged BLOCK_FAILED_BLOCK,
    failedPop,      \*   BLOCK_FAILED_POP
    failedChild,    \*   and BLOCK_FAILED_CHILD
    popData,        \* the body of each block, NoPopData without one
    payloadsIndex,  \* payloadsIndex_: payload id -> containing blocks
    tips,           \* tips_: the valid tips
    tip             \* activeChain_.tip()

statusVars  == <<known, inTree, level, failedBlock, failedPop, failedChild>>
payloadVars == <<popData, payloadsIndex>>
vars == <<statusVars, payloadVars, tips, tip>>

-----------------------------------------------------------------------------
(* Validity levels (enum BlockStateStatus).                                 *)

VALID_UNKNOWN        == 0
VALID_TREE           == 1
CONNECTED            == 2
MAYBE_WITH_OTHER     == 3   \* BLOCK_CAN_BE_APPLIED_MAYBE_WITH_OTHER_CHAIN
CAN_BE_APPLIED       == 4

Levels == VALID_UNKNOWN .. CAN_BE_APPLIED

TypeOK ==
    /\ known \subseteq Blocks
    /\ inTree \subseteq known
    /\ level \in [Blocks -> Levels]
    /\ failedBlock \subseteq known
    /\ failedPop \subseteq known
    /\ failedChild \subseteq known
    /\ popData \in [Blocks -> PopDatas \cup {NoPopData}]
    /\ payloadsIndex \in [PayloadIds -> SUBSET Blocks]
    /\ tips \subseteq Blocks
    /\ tip \in Blocks

-----------------------------------------------------------------------------
(* Reading the tree.                                                        *)

isFailed(b) == b \in failedBlock \cup failedPop \cup failedChild

isValid(b) == ~isFailed(b) /\ level[b] >= VALID_TREE

isConnected(b) == level[b] >= CONNECTED

Children(b) == {c \in Blocks \ {Root} : Prev[c] = b}

\* A valid tip of the ALT tree is at least CONNECTED (addon_t::validTipLevel).
canBeATip(b) == b \in inTree /\ ~isFailed(b) /\ isConnected(b)

isValidTip(b) == canBeATip(b) /\ \A c \in Children(b) : ~canBeATip(c)

\* activeChain_.contains
OnActiveChain(b) == b \in Ancestors[tip]

IdsIn(p) == IF p = NoPopData THEN {} ELSE IdsOf[p]

Below(b) == {d \in known : d # b /\ b \in Ancestors[d]}

\* The blocks strictly between b and its descendant d.
Between(b, d) == Ancestors[d] \ (Ancestors[b] \cup {d})

\* The blocks from the fork with the active chain (excluded) up to `to`.
Unapplied(to) == Ancestors[to] \ Ancestors[tip]

\* The block at which the chain of `to` leaves the active chain.
ForkHeight(to) == CHOOSE h \in {Height[a] : a \in Ancestors[to] \cap Ancestors[tip]} :
                     \A a \in Ancestors[to] \cap Ancestors[tip] : Height[a] <= h

-----------------------------------------------------------------------------
(* The parts of the operations.  They constrain primed variables: tryAddTip *)
(* looks at the flags the operation leaves behind.                          *)

\* tryAddTip(b) on the tip set `base`.
tryAddTip(base, b) ==
    IF isValidTip(b)'
      THEN {t \in base : b \notin Children(t)} \cup {b}
      ELSE base

\* Mutant: a new tip leaves its parent among the tips.
tryAddTipsKeepParents(base, X) == {t \in X : \A c \in Children(t) : c \notin X} \cup base

\* tryAddTip on every member of X, parents before children, when each of them
\* is a valid tip as long as its children have not had their turn.
tryAddTips(base, X) ==
    {t \in base \cup X : \A c \in Children(t) : c \notin X}

\* The descendants that invalidateSubtree(b) visits: a preorder traversal that
\* flags every block it meets and does not go below one that had failed.
FlaggedBelow(b) == {d \in Below(b) : \A m \in Between(b, d) : ~isFailed(m)}

\* invalidateSubtree from the point where b is known to be valid and off the
\* active chain.
InvalidateValid(b, reason) ==
    /\ failedBlock' = IF reason = "BLOCK" THEN failedBlock \cup {b} ELSE failedBlock
    /\ failedPop'   = IF reason = "POP" THEN failedPop \cup {b} ELSE failedPop
    /\ failedChild' = failedChild \cup FlaggedBelow(b)
    /\ tips' = tryAddTip(tips \ (FlaggedBelow(b) \cup {b}), Prev[b])

\* Mutant: the traversal does not stop at a block that is still failed.
ClearedBelowAll(b) == Below(b)

\* The descendants that revalidateSubtree(b) visits: it clears FAILED_CHILD and
\* does not go below a block that is still failed.
ClearedBelow(b) ==
    {d \in Below(b) : \A m \in Between(b, d) : m \notin failedBlock \cup failedPop}

FlagSet(reason) == IF reason = "BLOCK" THEN failedBlock ELSE failedPop

HasOtherFlags(b, reason) ==
    b \in failedChild \cup (IF reason = "BLOCK" THEN failedPop ELSE failedBlock)

\* The blocks whose FAILED_CHILD flag revalidateSubtree(b, reason) clears.
Cleared(b, reason) ==
    IF b \in FlagSet(reason) /\ ~HasOtherFlags(b, reason) THEN ClearedBelow(b) ELSE {}

\* Mutant: a level is incremented instead of set.
RaisedByOne(S, lvl) == [b \in Blocks |-> IF b \in S THEN level[b] + 1 ELSE level[b]]

\* raiseValidity on every block of S, none of which has failed its payloads.
Raised(S, lvl) ==
    [b \in Blocks |-> IF b \in S /\ level[b] < lvl THEN lvl ELSE level[b]]

-----------------------------------------------------------------------------
(* Bootstrap.                                                               *)

Init ==
    /\ known = {Root}
    /\ inTree = {Root}
    /\ level = [b \in Blocks |-> IF b = Root THEN CAN_BE_APPLIED ELSE VALID_UNKNOWN]
    /\ failedBlock = {}
    /\ failedPop = {}
    /\ failedChild = {}
    /\ popData = [b \in Blocks |-> NoPopData]
    /\ payloadsIndex = [i \in PayloadIds |-> {}]
    /\ tips = {Root}
    /\ tip = Root

-----------------------------------------------------------------------------
(* Headers.                                                                 *)

\* acceptBlockHeader gets as far as raiseValidity on a header that is new, or whose
\* index was deleted.
headerContract(b) == b \in Blocks \ (inTree \cup {Root}) /\ Prev[b] \in inTree

\* Mutant: no block with a FAILED_* flag is raised.
RaisedToTreeUnlessFailed(b) == IF isFailed(b) THEN level[b] ELSE VALID_TREE

\* raiseValidity(BLOCK_VALID_TREE): "it's ok to raise the validity of a block
\* invalidated by altchain", but not of one that failed its payloads.
RaisedToTree(b) == IF b \in failedPop THEN level[b] ELSE VALID_TREE

\* The assertion of raiseValidity fails: the parent is below VALID_TREE.
HeaderAborts(b) ==
    headerContract(b) /\ RaisedToTree(b) > level[b] /\ level[Prev[b]] < VALID_TREE

\* acceptBlockHeader.  A deleted index still has its FAILED_* flags.
AcceptBlockHeader(b) ==
    /\ headerContract(b)
    /\ ~HeaderAborts(b)
    /\ known' = known \cup {b}
    /\ inTree' = inTree \cup {b}
    /\ level' = [level EXCEPT ![b] = RaisedToTree(b)]
    /\ failedChild' = IF b \notin known /\ isFailed(Prev[b])
                        THEN failedChild \cup {b} ELSE failedChild
    /\ UNCHANGED <<failedBlock, failedPop, payloadVars, tip>>
    /\ tips' = tryAddTip(tips, b)

-----------------------------------------------------------------------------
(* Bodies.                                                                  *)

\* Mutant: only b itself is connected.
ConnectsOne(b) == IF isConnected(Prev[b]) THEN {b} ELSE {}

\* The blocks acceptBlock(b) connects: b, if its parent is connected, and the
\* descendants whose body, and the bodies on the way to them, came before.
Connects(b) ==
    IF isConnected(Prev[b])
      THEN {d \in known : /\ b \in Ancestors[d]
                          /\ \A m \in (Ancestors[d] \ Ancestors[b]) : popData[m] # NoPopData}
      ELSE {}

\* Mutant: duplicates are looked for on the active chain, not on the chain of d.
HasActiveDuplicate(d) ==
    \E i \in IdsIn(popData[d]) : \E c \in payloadsIndex[i] :
        c \in inTree /\ c \in Ancestors[tip]

\* hasStatefulDuplicates(d) once payloadsIndex_ is what acceptBlock left: an id
\* of d is found in a block of the chain that ends before d.
HasStatefulDuplicate(d) ==
    \E i \in IdsIn(popData[d]) : \E c \in payloadsIndex[i] :
        c \in inTree /\ c \in Ancestors[Prev[d]]

acceptBlockContract(b) ==
    /\ b \in inTree \ {Root}
    /\ level[b] >= VALID_TREE
    /\ popData[b] = NoPopData
    /\ ~OnActiveChain(b)

\* acceptBlock: setPayloads, then connectBlock for b and the descendants that
\* waited for it.  A block with a duplicate payload is connected and fails.
AcceptBlock(b, p) ==
    LET new   == Connects(b)
        dups  == {d \in new : HasStatefulDuplicate(d)'}
        below == UNION {FlaggedBelow(d) : d \in {x \in dups : ~isFailed(x)}}
    IN  /\ acceptBlockContract(b)
        /\ popData' = [popData EXCEPT ![b] = p]
        /\ payloadsIndex' =
              [i \in PayloadIds |-> IF i \in IdsOf[p] THEN payloadsIndex[i] \cup {b}
                                                      ELSE payloadsIndex[i]]
        /\ UNCHANGED <<known, inTree, failedBlock, tip>>
        /\ level' = Raised(new, CONNECTED)
        /\ failedPop' = failedPop \cup dups
        /\ failedChild' = failedChild \cup below
        /\ tips' = tryAddTips(tips \ (dups \cup below), {x \in new : canBeATip(x)'})
                     \cup {q \in {Prev[d] : d \in {x \in dups : ~isFailed(x)}} : isValidTip(q)'}

\* Mutant: a body may go while connected blocks stand on it.
removePayloadsAnywhere(b) ==
    /\ b \in inTree \ {Root}
    /\ popData[b] # NoPopData
    /\ ~OnActiveChain(b)

removePayloadsContract(b) ==
    /\ b \in inTree \ {Root}
    /\ popData[b] # NoPopData
    /\ ~OnActiveChain(b)
    /\ \A c \in Children(b) : ~isConnected(c)

\* removePayloads: forget the body, clear FAILED_POP, fall back to VALID_TREE.
\* For a moment, between revalidateSubtree and lowerValidity, b may be a tip.
RemovePayloads(b) ==
    LET wasTip == /\ b \in failedPop /\ ~HasOtherFlags(b, "POP") /\ isConnected(b)
        mid    == IF wasTip THEN tryAddTips(tips, {b}) ELSE tips
    IN  /\ removePayloadsContract(b)
        /\ popData' = [popData EXCEPT ![b] = NoPopData]
        /\ payloadsIndex' =
              [i \in PayloadIds |-> IF i \in IdsIn(popData[b]) THEN payloadsIndex[i] \ {b}
                                                               ELSE payloadsIndex[i]]
        /\ UNCHANGED <<known, inTree, failedBlock, tip>>
        /\ failedPop' = failedPop \ {b}
        /\ failedChild' = failedChild \ Cleared(b, "POP")
        /\ level' = IF isConnected(b) THEN [level EXCEPT ![b] = VALID_TREE] ELSE level
        /\ tips' = tryAddTip(mid \ {b}, Prev[b])

-----------------------------------------------------------------------------
(* Invalidation, revalidation, removal.                                     *)

\* Mutant: the active chain is left where it is.
TipUnmoved(b) == tip

\* A block of the active chain is first unapplied: setState(*b.pprev).
TipWithout(b) == IF OnActiveChain(b) THEN Prev[b] ELSE tip

\* The altchain's own reason is BLOCK_FAILED_BLOCK.  BLOCK_FAILED_POP is for a block
\* that may have failed its payloads: doInvalidate asserts that it has not been
\* applied, and connectBlock that a block without a body has not failed them.
InvalidateSubtree(b, reason) ==
    /\ b \in inTree \ {Root}
    /\ b \notin FlagSet(reason)
    /\ reason = "POP" => level[b] \in {CONNECTED, MAYBE_WITH_OTHER}
    /\ IF isValid(b)
         THEN /\ tip' = TipWithout(b)
              /\ UNCHANGED <<known, inTree, level, payloadVars>>
              /\ InvalidateValid(b, reason)
         ELSE /\ failedBlock' = IF reason = "BLOCK" THEN failedBlock \cup {b} ELSE failedBlock
              /\ failedPop' = IF reason = "POP" THEN failedPop \cup {b} ELSE failedPop
              /\ tips' = tips \ {b}
              /\ UNCHANGED <<known, inTree, level, failedChild, payloadVars, tip>>

\* With another flag on b only the reason is cleared and the subtree stays
\* failed.
RevalidateSubtree(b, reason) ==
    /\ b \in inTree \ {Root}
    /\ b \in FlagSet(reason)
    /\ failedBlock' = IF reason = "BLOCK" THEN failedBlock \ {b} ELSE failedBlock
    /\ failedPop' = IF reason = "POP" THEN failedPop \ {b} ELSE failedPop
    /\ failedChild' = failedChild \ Cleared(b, reason)
    /\ UNCHANGED <<known, inTree, level, payloadVars, tip>>
    /\ tips' = tryAddTips(tips, {x \in Cleared(b, reason) \cup {b} : canBeATip(x)'})

\* Mutant: the payloads of removed blocks stay in the index.
UnindexedLate(gone) == payloadsIndex

\* onBeforeLeafRemoved of every removed block: payloadsIndex_.removeBlock.
Unindexed(gone) == [i \in PayloadIds |-> payloadsIndex[i] \ gone]

\* removeSubtree: the indices stay allocated, flagged BLOCK_DELETED, with their
\* FAILED_* flags.
RemoveSubtree(b) ==
    LET gone == {d \in inTree : b \in Ancestors[d]}
    IN  /\ b \in inTree \ {Root}
        /\ tip' = TipWithout(b)
        /\ inTree' = inTree \ gone
        /\ level' = [d \in Blocks |-> IF d \in gone THEN VALID_UNKNOWN ELSE level[d]]
        /\ popData' = [d \in Blocks |-> IF d \in gone THEN NoPopData ELSE popData[d]]
        /\ payloadsIndex' = Unindexed(gone)
        /\ UNCHANGED <<known, failedBlock, failedPop, failedChild>>
        /\ tips' = tryAddTip(tips \ gone, Prev[b])

-----------------------------------------------------------------------------
(* Switching the active chain.                                              *)

setStateContract(to) == to \in inTree /\ isConnected(to)

\* Every block of the chain of `to` has been applied, alone on its ancestors.
Switch(to) ==
    /\ tip' = to
    /\ level' = Raised(Unapplied(to), CAN_BE_APPLIED)
    /\ UNCHANGED <<known, inTree, failedBlock, failedPop, failedChild, payloadVars, tips>>

\* Mutant: a block is raised before its commands are executed.
FailAtRaised(k, to, lvl, rest) ==
    /\ k \in Unapplied(to)
    /\ level[k] < CAN_BE_APPLIED
    /\ level' = [b \in Blocks |->
                   IF b \in Unapplied(to) /\ Height[b] <= Height[k] THEN lvl ELSE level[b]]
    /\ UNCHANGED <<known, inTree, payloadVars, tip>>
    /\ InvalidateValid(k, "POP")

\* The payloads of block k of the chain of `to` do not apply: k fails, the old
\* chain is applied again.  The blocks before k have reached level lvl, k and
\* the blocks after it level rest.  A block that CAN_BE_APPLIED never fails.
FailAt(k, to, lvl, rest) ==
    /\ k \in Unapplied(to)
    /\ level[k] < CAN_BE_APPLIED
    /\ level' = [b \in Blocks |->
                   IF b \in Unapplied(to)
                     THEN LET l == IF Height[b] < Height[k] THEN lvl ELSE rest
                          IN  IF level[b] < l THEN l ELSE level[b]
                     ELSE level[b]]
    /\ UNCHANGED <<known, inTree, payloadVars, tip>>
    /\ InvalidateValid(k, "POP")

\* setState(to): an invalid `to` is refused before anything is applied.
SetState(to) ==
    /\ setStateContract(to)
    /\ \/ Unapplied(to) = {} /\ Switch(to)
       \/ isValid(to) /\ Unapplied(to) # {} /\ Switch(to)
       \/ isValid(to) /\ \E k \in Unapplied(to) :
              FailAt(k, to, CAN_BE_APPLIED, VALID_UNKNOWN)

\* comparePopScore(tip, B) for a valid B off the active chain; otherwise the
\* active chain wins and nothing changes.
compareContract(B) ==
    /\ B \in inTree /\ isConnected(B) /\ isValid(B)
    /\ ~OnActiveChain(B)

\* B continues the active chain: apply it on top.
CompareSuccessor(B) ==
    /\ compareContract(B)
    /\ tip \in Ancestors[B]
    /\ \/ Switch(B)
       \/ \E k \in Unapplied(B) : FailAt(k, B, CAN_BE_APPLIED, VALID_UNKNOWN)

CrossesKeystone(B) ==
    \/ isCrossedKeystoneBoundary(ForkHeight(B), Height[tip], KeystoneInterval)
    \/ isCrossedKeystoneBoundary(ForkHeight(B), Height[B], KeystoneInterval)

\* B is on a fork.  It is applied beside the active chain first.  Then either
\* the active chain wins and B is unapplied, or B wins: the active chain is
\* unapplied and what was not validated alone is validated again.
CompareFork(B) ==
    /\ compareContract(B)
    /\ tip \notin Ancestors[B]
    /\ CrossesKeystone(B)
    /\ \/ \E k \in Unapplied(B) : FailAt(k, B, MAYBE_WITH_OTHER, VALID_UNKNOWN)
       \/ /\ level' = Raised(Unapplied(B), MAYBE_WITH_OTHER)
          /\ UNCHANGED <<known, inTree, failedBlock, failedPop, failedChild,
                         payloadVars, tips, tip>>
       \/ Switch(B)
       \/ \E k \in Unapplied(B) : FailAt(k, B, CAN_BE_APPLIED, MAYBE_WITH_OTHER)

-----------------------------------------------------------------------------

Next ==
    \/ \E b \in Blocks : AcceptBlockHeader(b)
    \/ \E b \in Blocks, p \in PopDatas : AcceptBlock(b, p)
    \/ \E b \in Blocks : RemovePayloads(b)
    \/ \E b \in Blocks, r \in ExternalReasons : InvalidateSubtree(b, r)
    \/ \E b \in Blocks, r \in ExternalReasons : RevalidateSubtree(b, r)
    \/ \E b \in Blocks : RemoveSubtree(b)
    \/ \E b \in Blocks : SetState(b)
    \/ \E b \in Blocks : CompareSuccessor(b)
    \/ \E b \in Blocks : CompareFork(b)

Spec == Init /\ [][Next]_vars

-----------------------------------------------------------------------------
(* Properties.                                                              *)

\* A block carries BLOCK_FAILED_CHILD exactly when its parent has failed.  The
\* early returns of invalidateSubtree and revalidateSubtree rely on it, and so
\* does the constructor of BlockIndex for blocks that come later.
FailedChildExact ==
    \A b \in known \ {Root} : b \in failedChild <=> isFailed(Prev[b])

\* tips_ holds the valid tips and nothing else, although no operation recomputes
\* it: each one patches it with tryAddTip and erase.  doUpdateTips asserts one
\* half of this for every member.
TipsExact == tips = {b \in inTree : isValidTip(b)}

\* A block of the tree has its ancestors in the tree, and from CONNECTED on none of
\* them is on a lower level, whatever connects, applies, lowers or removes blocks:
\* the assertion of raiseValidity for the levels above VALID_TREE, which connectBlock
\* and applyBlock raise unasked.
LevelsDescend ==
    \A b \in inTree : \A a \in Ancestors[b] :
        a \in inTree /\ (isConnected(b) => level[b] <= level[a])

\* For VALID_TREE that assertion can fail, and acceptBlockHeader aborts the node: a
\* block that fails its payloads, is removed and comes back is not raised, and then
\* its child arrives.  This is the only way: the parent has failed its payloads and
\* has lost its body, and no header of a block on any other parent aborts, whatever
\* was invalidated, removed and accepted again.
HeaderAbortsOnFailedOnly ==
    \A b \in Blocks : HeaderAborts(b) =>
        Prev[b] \in failedPop /\ popData[Prev[b]] = NoPopData

\* The active chain is in the tree and fully valid, whatever was invalidated or
\* removed in the meantime (overrideTip asserts it for the tip).
ActiveChainValid ==
    \A b \in Ancestors[tip] :
        b \in inTree /\ ~isFailed(b) /\ level[b] = CAN_BE_APPLIED

\* "BLOCK_CAN_BE_APPLIED and BLOCK_FAILED_POP are mutually exclusive":
\* isValidUpTo and doInvalidate assert it.
AppliedNeverFailedPop == \A b \in failedPop : level[b] < CAN_BE_APPLIED

\* "Block is connected if it contains block body (PopData), and all its ancestors
\* are connected" (isConnected), in whatever order headers and bodies arrive.
ConnectedExact ==
    \A b \in inTree \ {Root} :
        isConnected(b) <=> popData[b] # NoPopData /\ isConnected(Prev[b])

\* payloadsIndex_ lists a block under an id exactly when the block is in the tree
\* and holds that payload: acceptBlock, removePayloads and removeSubtree agree.
PayloadsIndexExact ==
    \A i \in PayloadIds :
        payloadsIndex[i] = {b \in inTree : i \in IdsIn(popData[b])}

\* No payload occurs twice on a chain that has not failed: connectBlock finds the
\* duplicate even when the bodies arrive out of order.
NoDuplicateOnValidChain ==
    \A b \in inTree \ {Root} :
        isConnected(b) /\ b \notin failedPop =>
            \A a \in Ancestors[Prev[b]] : IdsIn(popData[a]) \cap IdsIn(popData[b]) = {}

=============================================================================
