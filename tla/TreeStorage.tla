----------------------------- MODULE TreeStorage -----------------------------
(***************************************************************************)
(* Saving and loading the altchain tree (storage/util.hpp, util.cpp,        *)
(* loadBlockForward and loadTip), with a crash at any moment.               *)
(*                                                                          *)
(* An index that has changed is dirty; saveTrees writes the dirty indices   *)
(* and the tip in one batch, which the altchain commits atomically.  A      *)
(* crash loses the memory; the tree is then bootstrapped and loaded.  A     *)
(* crash between saveTrees and the commit is a crash without a save.        *)
(***************************************************************************)
EXTENDS AltBlockTree, FiniteSets

CONSTANTS
    NotStored,   \* the database holds no record of the block
    MaxUnsaved,  \* bound: operations between two saves
    MaxMarked,   \* bound: subtrees that the altchain has invalidated or removed
    LeavesOnly   \* the altchain removes payloads from connected leaves only

VARIABLES
    dirty,   \* the indices with the dirty flag
    db,      \* block -> its StoredBlockIndex, NotStored without one
    dbTip,   \* the tip in the database
    unsaved  \* operations since the last save or restart (for the bound)

storageVars == <<dirty, db, dbTip, unsaved>>
allVars == <<vars, storageVars>>

ASSUME StorageAssumption ==
    /\ MaxUnsaved \in Nat /\ MaxMarked \in Nat /\ LeavesOnly \in BOOLEAN
    /\ NotStored \notin Blocks
    /\ NotStored \notin [deleted : BOOLEAN, level : Levels, failedBlock : BOOLEAN,
                         failedPop : BOOLEAN, failedChild : BOOLEAN, active : BOOLEAN,
                         body : PopDatas \cup {NoPopData}]

-----------------------------------------------------------------------------
(* What makes an index dirty.                                               *)

\* The index as toStoredBlockIndex writes it.
Stored(b) ==
    [deleted     |-> b \notin inTree,
     level       |-> level[b],
     failedBlock |-> b \in failedBlock,
     failedPop   |-> b \in failedPop,
     failedChild |-> b \in failedChild,
     active      |-> OnActiveChain(b),
     body        |-> popData[b]]

\* raiseValidity and lowerValidity do not set the dirty flag.
WithoutLevel(r) == [r EXCEPT !.level = VALID_UNKNOWN]

\* Mutant: setFlag does not set the dirty flag.
ChangedBodies ==
    {b \in Blocks : (b \in inTree') # (b \in inTree) \/ popData'[b] # popData[b]}

\* The indices whose flags or body an operation changed: setFlag, unsetFlag,
\* restore, deleteTemporarily, setPayloads and clearPayloads set the dirty flag.
Changed ==
    {b \in Blocks : \/ (b \in inTree') # (b \in inTree)
                    \/ (b \in failedBlock') # (b \in failedBlock)
                    \/ (b \in failedPop') # (b \in failedPop)
                    \/ (b \in failedChild') # (b \in failedChild)
                    \/ popData'[b] # popData[b]}

\* Mutant: BLOCK_ACTIVE is kept in memory only.
TouchedFlagsOnly(toggled) == dirty' = dirty \cup Changed

\* An operation that has changed BLOCK_ACTIVE of the indices `toggled`, even if
\* it has changed it back.
Touched(toggled) == dirty' = dirty \cup Changed \cup toggled

\* The part of the active chain that is not shared with `to`.
OldPart(to) == Ancestors[tip] \ Ancestors[to]

BelowFailed(to) == {b \in Unapplied(to) : \E k \in failedPop' \ failedPop : Height[b] < Height[k]}

-----------------------------------------------------------------------------
(* The operations of the tree.                                              *)

\* connectBlock asserts that the block and its children are not yet connected
\* (alt_block_tree.cpp:251).  On a loaded tree a connected block may stand above one
\* without a body; where the assertion fails the process ends and there is no step.
Connectable(b) ==
    \A d \in Connects(b) : ~isConnected(d) /\ \A c \in Children(d) \ Connects(b) : ~isConnected(c)

\* "can remove payloads only from connected leaves" (removeAllPayloads).  The
\* assertion looks at the immediate descendants; a loaded tree may have a connected
\* block further down.
ConnectedLeaf(b) == \A d \in Below(b) : ~isConnected(d)

\* applyBlock: "attempted to apply an unconnected block".
Applicable(to) == \A b \in Unapplied(to) : isConnected(b)

TouchBlocks ==
    /\ \/ \E b \in Blocks : AcceptBlockHeader(b) /\ Touched({})
       \/ \E b \in Blocks \ {Root}, p \in PopDatas : Connectable(b) /\ AcceptBlock(b, p) /\ Touched({})
       \/ \E b \in Blocks : RemovePayloads(b) /\ (LeavesOnly => ConnectedLeaf(b)) /\ Touched({})
       \/ \E b \in Blocks, r \in ExternalReasons :
             InvalidateSubtree(b, r) /\ Touched(OldPart(tip'))
       \/ \E b \in Blocks, r \in ExternalReasons : RevalidateSubtree(b, r) /\ Touched({})
       \/ \E b \in Blocks : RemoveSubtree(b) /\ Touched(OldPart(tip'))

\* A failed switch has unapplied the old chain, applied the blocks below the
\* one that failed, and reverted both.
SwitchSetState(to) ==
    /\ Applicable(to)
    /\ SetState(to)
    /\ Touched(OldPart(to) \cup (IF tip' = to THEN Unapplied(to) ELSE BelowFailed(to)))

\* An invalid `to` is refused at the first failed block, after the old chain was
\* unapplied: setState applies the old chain again.
RefusedSetState(to) ==
    /\ setStateContract(to)
    /\ Applicable(to)
    /\ ~isValid(to)
    /\ UNCHANGED vars
    /\ dirty' = dirty \cup OldPart(to)

\* comparePopScore applies B beside the active chain before it decides.
SwitchCompare(B) ==
    /\ Applicable(B)
    /\ \/ /\ CompareSuccessor(B)
          /\ Touched(IF tip' = B THEN Unapplied(B) ELSE BelowFailed(B))
       \/ /\ CompareFork(B)
          /\ \/ tip' = B /\ Touched(Unapplied(B) \cup OldPart(B))
             \/ tip' # B /\ failedPop' = failedPop /\ Touched(Unapplied(B))
             \/ tip' # B /\ failedPop' # failedPop /\ Touched(BelowFailed(B))
             \/ tip' # B /\ failedPop' # failedPop /\ Touched(Unapplied(B) \cup OldPart(B))

-----------------------------------------------------------------------------
(* Save and restart.                                                        *)

\* saveTree walks getAllBlocks, the deleted indices included.
Written == dirty \cap known

Save ==
    /\ dirty # {} \/ dbTip # tip
    /\ db' = [b \in Blocks |-> IF b \in Written THEN Stored(b) ELSE db[b]]
    /\ dbTip' = tip
    /\ dirty' = {}
    /\ unsaved' = 0
    /\ UNCHANGED vars

\* loadBlocksAndTip skips the deleted indices.
Loaded == {b \in Blocks : db[b] # NotStored /\ ~db[b].deleted}

\* loadBlockInner and loadTip: mergeFrom, then raiseValidity.
LoadedLevel(b) ==
    IF b \notin Loaded THEN VALID_UNKNOWN
    ELSE IF db[b].failedPop THEN db[b].level
    ELSE IF b \in Ancestors[dbTip] THEN CAN_BE_APPLIED
    ELSE IF db[b].level < VALID_TREE THEN VALID_TREE ELSE db[b].level

LoadedFailed(b) == db[b].failedBlock \/ db[b].failedPop \/ db[b].failedChild

LoadedCanBeATip(b) == b \in Loaded /\ ~LoadedFailed(b) /\ LoadedLevel(b) >= CONNECTED

\* Mutant: the tip set is not rebuilt from the blocks.
LoadedTipOnly == {dbTip}

\* The blocks come sorted by height, so tryAddTip sees parents before children.
LoadedTips == tryAddTips({}, {b \in Blocks : LoadedCanBeATip(b)})

\* What the load demands of the database: every block has its parent, a connected
\* block with a stateful duplicate has failed its payloads, the tip is fully
\* valid (overrideTip), and BLOCK_ACTIVE says what loadTip makes of it, so that
\* no block outside the active chain counts as applied.
LoadAccepts ==
    /\ Root \in Loaded /\ dbTip \in Loaded
    /\ \A b \in Loaded \ {Root} : Prev[b] \in Loaded
    /\ \A b \in Loaded \ {Root} :
          LoadedLevel(b) >= CONNECTED /\ ~db[b].failedPop =>
              \A a \in Ancestors[Prev[b]] : IdsIn(db[a].body) \cap IdsIn(db[b].body) = {}
    /\ ~LoadedFailed(dbTip) /\ db[dbTip].level = CAN_BE_APPLIED
    /\ \A b \in Loaded : db[b].active <=> b \in Ancestors[dbTip]

\* Crash, bootstrap and loadTrees.  Nothing was saved: the tree is bootstrapped.
RestartEmpty ==
    /\ dbTip = NotStored
    /\ known' = {Root} /\ inTree' = {Root}
    /\ level' = [b \in Blocks |-> IF b = Root THEN CAN_BE_APPLIED ELSE VALID_UNKNOWN]
    /\ failedBlock' = {} /\ failedPop' = {} /\ failedChild' = {}
    /\ popData' = [b \in Blocks |-> NoPopData]
    /\ payloadsIndex' = [i \in PayloadIds |-> {}]
    /\ tips' = {Root} /\ tip' = Root
    /\ dirty' = {Root}
    /\ unsaved' = 0
    /\ UNCHANGED <<db, dbTip>>

RestartLoad ==
    /\ dbTip # NotStored
    /\ LoadAccepts
    /\ known' = Loaded
    /\ inTree' = Loaded
    /\ level' = [b \in Blocks |-> LoadedLevel(b)]
    /\ failedBlock' = {b \in Loaded : db[b].failedBlock}
    /\ failedPop' = {b \in Loaded : db[b].failedPop}
    /\ failedChild' = {b \in Loaded : db[b].failedChild}
    /\ popData' = [b \in Blocks |-> IF b \in Loaded THEN db[b].body ELSE NoPopData]
    /\ payloadsIndex' = [i \in PayloadIds |-> {b \in Loaded : i \in IdsIn(db[b].body)}]
    /\ tips' = LoadedTips
    /\ tip' = dbTip
    /\ dirty' = {}
    /\ unsaved' = 0
    /\ UNCHANGED <<db, dbTip>>

-----------------------------------------------------------------------------

StorageInit ==
    /\ Init
    /\ dirty = {Root}
    /\ db = [b \in Blocks |-> NotStored]
    /\ dbTip = NotStored
    /\ unsaved = 0

Operate ==
    /\ unsaved < MaxUnsaved
    /\ unsaved' = unsaved + 1
    /\ UNCHANGED <<db, dbTip>>
    /\ \/ TouchBlocks
       \/ \E b \in Blocks : SwitchSetState(b) \/ RefusedSetState(b) \/ SwitchCompare(b)
    /\ Cardinality(failedBlock' \cup {b \in (known \ inTree)' : Prev[b] \in inTree'}) <= MaxMarked

StorageNext ==
    \/ Operate
    \/ Save
    \/ RestartEmpty
    \/ RestartLoad

StorageSpec == StorageInit /\ [][StorageNext]_allVars

-----------------------------------------------------------------------------
(* Properties.                                                              *)

\* At any moment the database, whatever was saved into it and however often the
\* tree was rebuilt from it, is one that loadTrees accepts without an error or a
\* failed assertion.
LoadSucceeds == dbTip # NotStored => LoadAccepts

\* setState on a connected and valid block trips no assertion of applyBlock: the
\* blocks it has to apply are connected.  comparePopScore relies on it too.
ApplyNeverAborts ==
    \A to \in Blocks : setStateContract(to) /\ isValid(to) => Applicable(to)

\* An index that is not dirty is in the database as it is in memory, but for its
\* level: what a save skips was written before, whatever operations, saves and
\* crashes came in between.
CleanMatchesDb ==
    \A b \in known \ dirty :
        db[b] # NotStored /\ WithoutLevel(db[b]) = WithoutLevel(Stored(b))

=============================================================================
