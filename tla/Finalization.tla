---------------------------- MODULE Finalization ----------------------------
(***************************************************************************)
(* Finalization of altchain blocks: finalizeBlocks and finalizeBlockImpl    *)
(* (base_block_tree.hpp), run by every AltBlockTree::overrideTip.           *)
(*                                                                          *)
(* A final block is never reorganized, so the tree forgets what cannot win  *)
(* any more: outdated tips leave tips_, the blocks behind the final block   *)
(* and the branches beside it are deallocated, and the payload ids of final *)
(* blocks move to an index of their own.  Blocks with unsaved changes hold  *)
(* the final block back.                                                    *)
(*                                                                          *)
(* The header universe is a tree as in AltBlockTree, and a header commits   *)
(* to its body: Payloads[b] are the payload ids of b.  A body comes with    *)
(* its header, after the body of its parent (AltBlockTree has the other     *)
(* orders), and a block fails here only by a duplicate payload or by the    *)
(* altchain's decision (PopStateMachine has failing commands).  The tree is *)
(* loaded: overrideTip does not finalize before.                            *)
(***************************************************************************)
EXTENDS Integers, FiniteSets, SequencesExt

CONSTANTS
    Blocks,                     \* the header universe
    Bootstrap,                  \* the bootstrap block
    Prev,                       \* parent of every block but Bootstrap
    Ancestors,                  \* the chain from Bootstrap up to a block, inclusive
    Height,
    Payloads,                   \* the payload ids of a block
    PayloadIds,
    MaxReorgBlocks,             \* getMaxReorgBlocks
    PreserveBlocksBehindFinal   \* preserveBlocksBehindFinal

ASSUME ChainAssumption ==
    /\ Bootstrap \in Blocks
    /\ Prev \in [Blocks \ {Bootstrap} -> Blocks]
    /\ Ancestors \in [Blocks -> SUBSET Blocks]
    /\ Height \in [Blocks -> Nat]
    /\ Ancestors[Bootstrap] = {Bootstrap}
    /\ \A b \in Blocks \ {Bootstrap} :
          /\ Ancestors[b] = Ancestors[Prev[b]] \cup {b}
          /\ Height[b] = Height[Prev[b]] + 1
    /\ \A b \in Blocks :
          /\ Bootstrap \in Ancestors[b]
          /\ \A a \in Ancestors[b] : Ancestors[a] \subseteq Ancestors[b]
          /\ \A a, c \in Ancestors[b] : a \in Ancestors[c] <=> Height[a] <= Height[c]
          /\ \A h \in Height[Bootstrap] .. Height[b] : \E a \in Ancestors[b] : Height[a] = h

ASSUME FinalizationAssumption ==
    /\ Payloads \in [Blocks -> SUBSET PayloadIds]
    /\ Payloads[Bootstrap] = {}
    /\ MaxReorgBlocks \in Nat \ {0}
    /\ PreserveBlocksBehindFinal \in Nat

VARIABLES
    allocated,    \* blocks_; every block has its body
    failed,       \* the blocks with FAILED_BLOCK or FAILED_POP
    dirty,        \* the indices that changed since the last save
    tips,         \* tips_
    tip,          \* activeChain_.tip()
    root,         \* activeChain_.first()
    finalized,    \* the allocated blocks with `finalized` set
    finalizedIds, \* the keys of finalizedPayloadsIndex_
    filtering     \* the temporary block of filterInvalidPayloads stands on the tip

finalizationVars ==
    <<allocated, failed, dirty, tips, tip, root, finalized, finalizedIds,
      filtering>>

-----------------------------------------------------------------------------
(* Reading the tree.                                                        *)

Subtree(b) == {d \in allocated : b \in Ancestors[d]}

Children(b) == {c \in Blocks \ {Bootstrap} : Prev[c] = b}

IsFailed(b) == Ancestors[b] \cap failed # {}

CanBeATip(b) == b \in allocated /\ ~IsFailed(b)

\* activeChain_, from its first block (operator[] is null below it).
ActiveChainOf(t) == {a \in Ancestors[t] : Height[a] >= Height[root]}

BlockAt(chain, h) == CHOOSE b \in chain : Height[b] = h

\* The block at which the branch of b leaves the chain.
ForkOf(b, chain) ==
    CHOOSE a \in Ancestors[b] \cap chain : \A c \in Ancestors[b] \cap chain : Height[c] <= Height[a]

\* isStatefulDuplicate: payloadsIndex_ holds the ids of every block in memory;
\* an id in finalizedPayloadsIndex_ is a duplicate for every chain.
isStatefulDuplicate(b, i) ==
    \/ \E c \in allocated : i \in Payloads[c] /\ c \in Ancestors[Prev[b]]
    \/ i \in finalizedIds

-----------------------------------------------------------------------------
(* finalizeBlockImpl.  The tree it starts from is given by the new tip and  *)
(* by what the operation made dirty before.                                 *)

\* Mutant: a candidate is outdated only if it is not above the final block.
OutdatedByHeight(final, c) == Height[c] <= Height[final] /\ final # c

\* isBlockOutdated: its cases add up to this, since the fork of a candidate that
\* does not descend from the final block is behind it.
isBlockOutdated(final, c) == final \notin Ancestors[c]

\* Mutant: unsaved blocks do not hold the final block back.
TargetOnly(chain, changed, target) == target

\* The first loop: the lowest unsaved block of the active chain at or below the
\* target, or the target.
SavedUpTo(chain, changed, target) ==
    LET unsaved == {b \in Ancestors[target] \cap chain : b \in changed}
    IN  IF unsaved = {} THEN target
        ELSE CHOOSE b \in unsaved : \A c \in unsaved : Height[b] <= Height[c]

\* One visit of erase_if.  An outdated branch with an unsaved block moves the
\* final block down to its fork; the tips that were looked at before are not
\* looked at again.
VisitTip(acc, t, chain, changed) ==
    IF t \in chain \/ ~isBlockOutdated(acc.final, t) THEN acc
    ELSE [tips  |-> acc.tips \ {t},
          final |-> IF (Ancestors[t] \ chain) \cap allocated \cap changed # {}
                      THEN ForkOf(t, chain) ELSE acc.final]

\* erase_if over tips_ in the order of the hash set: what is left after each tip.
Visited(order, chain, changed, final) ==
    LET after[i \in 0 .. Len(order)] ==
          IF i = 0 THEN [tips |-> ToSet(order), final |-> final]
          ELSE VisitTip(after[i - 1], order[i], chain, changed)
    IN  after

EraseOutdated(order, chain, changed, final) ==
    Visited(order, chain, changed, final)[Len(order)]

\* The first block that stays in memory.
NewRoot(chain, final) ==
    LET h == Height[final] - PreserveBlocksBehindFinal
    IN  BlockAt(chain, IF h < Height[root] THEN Height[root] ELSE h)

\* deallocateTree on the part behind the new root, then on the branches that
\* start beside the final block.  Nothing goes as long as the root stays.
Deallocated(newRoot, final) ==
    IF newRoot = root THEN {}
    ELSE (allocated \ Subtree(newRoot))
           \cup (IF final = newRoot THEN {}
                 ELSE UNION {Subtree(p) : p \in Children(Prev[final]) \ {final}})

NothingFinalized == [tips |-> tips, root |-> root, gone |-> {}, marked |-> {}]

\* The outcomes of finalizeBlockImpl: the tips and the root it leaves, the blocks
\* it deallocates and the ones it marks as final.
finalizeBlockImpl(chain, changed, target) ==
    {LET e       == EraseOutdated(order, chain, changed, SavedUpTo(chain, changed, target))
         newRoot == NewRoot(chain, e.final)
     IN  [tips   |-> e.tips,
          root   |-> newRoot,
          gone   |-> Deallocated(newRoot, e.final),
          marked |-> {b \in Ancestors[e.final] : Height[b] >= Height[newRoot]}] :
     order \in SetToSeqs(tips)}

\* finalizeBlocks on the active chain that ends in t, or in a temporary block on
\* t: nothing on a short chain, and a root that is the target is only marked.
finalizeBlocks(t, tipHeight, changed) ==
    LET chain  == ActiveChainOf(t)
        h      == tipHeight - MaxReorgBlocks
        target == BlockAt(chain, IF h < Height[root] THEN Height[root] ELSE h)
    IN  IF tipHeight < MaxReorgBlocks THEN {NothingFinalized}
        ELSE IF target = root THEN {[NothingFinalized EXCEPT !.marked = {root}]}
        ELSE finalizeBlockImpl(chain, changed, target)

\* Mutant: the ids of all the blocks that go are kept.
KeepIdsOfGone(r) == finalizedIds \cup UNION {Payloads[b] : b \in r.marked \cup r.gone}

\* finalizedPayloadsIndex_.addBlock on the blocks that are newly marked.
KeepIds(r) == finalizedIds \cup UNION {Payloads[b] : b \in r.marked}

\* What finalization with the outcome r does to the tree but for its tips and
\* the dirty flags.
Forget(r) ==
    /\ allocated' = allocated \ r.gone
    /\ finalized' = (finalized \cup r.marked) \ r.gone
    /\ finalizedIds' = KeepIds(r)
    /\ root' = r.root

-----------------------------------------------------------------------------
(* The operations of the tree.                                              *)

FinalizationInit ==
    /\ allocated = {Bootstrap}
    /\ failed = {}
    /\ dirty = {Bootstrap}
    /\ tips = {Bootstrap}
    /\ tip = Bootstrap
    /\ root = Bootstrap
    /\ finalized = {Bootstrap}   \* createBootstrapBlockIndex
    /\ finalizedIds = {}
    /\ filtering = FALSE

\* No operation of the altchain falls into the middle of filterInvalidPayloads.
NotFiltering == ~filtering /\ UNCHANGED filtering

\* acceptBlockHeader and acceptBlock: a duplicate payload fails the block, else it
\* may become a tip.  A block that was deallocated comes back as a new one as long
\* as its parent is in memory.
AcceptBlock(b) ==
    /\ NotFiltering
    /\ b \notin allocated
    /\ Prev[b] \in allocated
    /\ allocated' = allocated \cup {b}
    /\ dirty' = dirty \cup {b}
    /\ failed' = IF \E i \in Payloads[b] : isStatefulDuplicate(b, i) THEN failed \cup {b} ELSE failed
    /\ tips' = IF Ancestors[b] \cap failed' = {} THEN (tips \ {Prev[b]}) \cup {b} ELSE tips
    /\ UNCHANGED <<tip, root, finalized, finalizedIds>>

\* What moving the tip to `to` changes: BLOCK_ACTIVE of the blocks on one side
\* only.  A final block cannot be unapplied (assertBlockCanBeUnapplied).
Moved(to) == (Ancestors[tip] \ Ancestors[to]) \cup (Ancestors[to] \ Ancestors[tip])

CanUnapply(to) == (Ancestors[tip] \ Ancestors[to]) \cap finalized = {}

\* setState, also to the tip itself: it ends in overrideTip and finalizes.
SetState(to) ==
    /\ NotFiltering
    /\ CanBeATip(to)
    /\ CanUnapply(to)
    /\ tip' = to
    /\ \E r \in finalizeBlocks(to, Height[to], dirty \cup Moved(to)) :
          /\ Forget(r)
          /\ tips' = r.tips
          /\ dirty' = (dirty \cup Moved(to)) \ r.gone
          /\ failed' = failed \ r.gone

\* Mutant: only the tip itself is asked whether it is final.
TipIsFinal(to) == tip \in finalized /\ Height[to] <= Height[tip]

\* The early returns of comparePopScore for a final chain: the tip, or the block
\* of the active chain next to the fork, is final.
FinalChainWins(to) ==
    \/ tip \in finalized /\ Height[to] <= Height[tip]
    \/ \E b \in ActiveChainOf(tip) \cap finalized :
          Height[b] = Height[ForkOf(to, ActiveChainOf(tip))] + 1

\* comparePopScore of the active chain and a connected block.  Only a winner moves
\* the tip, and it does so without finalization.  What the scores are is left
\* open; a successor of the tip wins.
ComparePopScore(to) ==
    /\ NotFiltering
    /\ CanBeATip(to)
    /\ to \notin ActiveChainOf(tip)
    /\ ~FinalChainWins(to)
    /\ \/ tip' = to /\ dirty' = dirty \cup Moved(to)
       \/ /\ tip \notin Ancestors[to]
          /\ tip' = tip
          /\ dirty' = dirty \cup (Ancestors[to] \ Ancestors[tip])
    /\ UNCHANGED <<allocated, failed, tips, root, finalized, finalizedIds>>

\* What is left of the tips when b fails, tryAddTip of its parent included.
TipsWithout(ts, b) ==
    LET rest == {t \in ts : b \notin Ancestors[t]}
    IN  IF \E c \in Children(Prev[b]) \ {b} : CanBeATip(c) THEN rest
        ELSE rest \cup {Prev[b]}

\* invalidateSubtree by the altchain of a valid block off the active chain, ...
InvalidateSide(b) ==
    /\ NotFiltering
    /\ b \in allocated \ ({root} \cup ActiveChainOf(tip))
    /\ ~IsFailed(b)
    /\ failed' = failed \cup {b}
    /\ dirty' = dirty \cup Subtree(b)
    /\ tips' = TipsWithout(tips, b)
    /\ UNCHANGED <<allocated, tip, root, finalized, finalizedIds>>

\* ... and of one on it: setState to its parent comes first, and finalizes.
InvalidateActive(b) ==
    /\ NotFiltering
    /\ b \in ActiveChainOf(tip) \ {root}
    /\ CanUnapply(Prev[b])
    /\ tip' = Prev[b]
    /\ \E r \in finalizeBlocks(Prev[b], Height[Prev[b]], dirty \cup Moved(Prev[b])) :
          /\ Forget(r)
          /\ tips' = TipsWithout(r.tips, b)
          /\ dirty' = (dirty \cup Moved(Prev[b]) \cup Subtree(b)) \ r.gone
          /\ failed' = (failed \cup {b}) \ r.gone

\* saveTree writes every dirty index (TreeStorage has the details).
Save ==
    /\ NotFiltering
    /\ dirty # {}
    /\ dirty' = {}
    /\ UNCHANGED <<allocated, failed, tips, tip, root, finalized, finalizedIds>>

\* MemPool::generatePopData tries its payloads out in a temporary block on the tip
\* (MemPoolBlockTree::filterInvalidPayloads).  Activating that block is a setState
\* and finalizes; so does the setState back when it is removed.
Finalize(tipHeight) ==
    \E r \in finalizeBlocks(tip, tipHeight, dirty) :
        /\ Forget(r)
        /\ tips' = r.tips
        /\ dirty' = dirty \ r.gone
        /\ failed' = failed \ r.gone
        /\ tip' = tip

ActivateTemporaryBlock == ~filtering /\ filtering' = TRUE /\ Finalize(Height[tip] + 1)

RemoveTemporaryBlock == filtering /\ filtering' = FALSE /\ Finalize(Height[tip])

FinalizationNext ==
    \/ \E b \in Blocks \ {Bootstrap} :
          \/ AcceptBlock(b)
          \/ InvalidateSide(b)
          \/ InvalidateActive(b)
    \/ \E to \in allocated :
          \/ SetState(to)
          \/ ComparePopScore(to)
    \/ Save
    \/ ActivateTemporaryBlock
    \/ RemoveTemporaryBlock

FinalizationSpec == FinalizationInit /\ [][FinalizationNext]_finalizationVars

-----------------------------------------------------------------------------
(* Properties.                                                              *)

\* Deallocation leaves a tree: the active chain is in memory from its first block
\* on, every other block still has its parent, and no tip, final or failed mark
\* dangles (finalizeBlockImpl erases from tips_ before it deallocates).
TreeIntact ==
    /\ ActiveChainOf(tip) \subseteq allocated
    /\ root \in Ancestors[tip]
    /\ \A b \in allocated \ {root} : Prev[b] \in allocated
    /\ tips \cup failed \cup dirty \cup finalized \subseteq allocated

\* A final block that is still in memory stays on the active chain, whatever fork
\* resolution compares (TIP_IS_FINAL in comparePopScore) and whatever is
\* invalidated.
FinalStaysActive ==
    [][\A b \in finalized \cap allocated' : b \in (finalized \cap ActiveChainOf(tip))']_finalizationVars

\* The chains that may still win: they hold every final block.
Alive(b) == finalized \subseteq Ancestors[b]

\* The blocks that may come next on such a chain.
NextBlocks == {b \in Blocks \ (allocated \cup {Bootstrap}) : Prev[b] \in allocated /\ Alive(b)}

OnChainBefore(b, i) == \E a \in Ancestors[Prev[b]] : i \in Payloads[a]

\* isStatefulDuplicate refuses no payload of a block whose chain may still win
\* unless that chain holds it already: an id in finalizedPayloadsIndex_ counts
\* against every chain, so no payload of a lost branch may get there.
NoFalseDuplicate ==
    \A b \in NextBlocks : \A i \in PayloadIds : isStatefulDuplicate(b, i) => OnChainBefore(b, i)

\* The other direction, also for the payloads of deallocated blocks: "[FinalizedPayloadsIndex]
\* Stores a mapping "payload id -> containing block" hash of payloads that are stored
\* in **finalized** blocks" (payloads_index.hpp), "mark `index` and all predecessors as
\* finalized" (finalizeBlockImpl).
NoMissedDuplicate ==
    \A b \in NextBlocks : \A i \in PayloadIds : OnChainBefore(b, i) => isStatefulDuplicate(b, i)

\* Finalization never deallocates an unsaved block that stays on the active chain:
\* the final block waits for it.
UnsavedActiveKept ==
    [][dirty \cap ActiveChainOf(tip) \cap Ancestors[tip'] \subseteq allocated']_finalizationVars

=============================================================================
