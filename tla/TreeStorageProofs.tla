------------------------- MODULE TreeStorageProofs -------------------------
(***************************************************************************)
(* Theorems about TreeStorage, for every block universe and every set of    *)
(* payloads, when the altchain invalidates blocks for consensus reasons     *)
(* only: the dirty flags lose no change, and, as long as the altchain       *)
(* removes payloads from connected leaves only, every database that         *)
(* saveTrees has ever written can be loaded and acceptBlock never aborts.   *)
(***************************************************************************)
EXTENDS TreeStorage, AltBlockTreeProofs

-----------------------------------------------------------------------------
(* The inductive invariant: the tree in memory.                             *)

\* TreeInvariant does not survive a restart: levels are raised without the dirty
\* flag, so a loaded block may stand above its parent.  What is left of it is
\* closed under the loss of levels off the active chain.

TreeClosed == \A b \in inTree : Ancestors[b] \subseteq inTree

\* A connected block stands on bodies: what is left of ConnectedExact.
ConnectedBodies ==
    \A b \in inTree : isConnected(b) => \A a \in Ancestors[b] \ {Root} : popData[a] # NoPopData

MemoryShape == KnownClosed /\ TreeClosed /\ DeletedBare /\ UnraisedFailed /\ BodyNeedsLevel

MemoryInv == /\ TypeOK /\ MemoryShape /\ FailedDown /\ FailedChildExact
             /\ ActiveChainValid /\ PayloadsIndexExact

\* A body that goes under a connected block may come back as a duplicate.
BodiesInv == LeavesOnly => ConnectedBodies /\ NoDuplicateOnValidChain

-----------------------------------------------------------------------------
(* The inductive invariant: the database.                                   *)

Records == [deleted : BOOLEAN, level : Levels, failedBlock : BOOLEAN, failedPop : BOOLEAN,
            failedChild : BOOLEAN, active : BOOLEAN, body : PopDatas \cup {NoPopData}]

DbTypes ==
    /\ db \in [Blocks -> Records \cup {NotStored}]
    /\ dbTip \in Blocks \cup {NotStored}
    /\ dirty \subseteq Blocks

\* The record of b holds what the index holds, but for a level that went up.
Recorded(b) ==
    /\ db[b] # NotStored
    /\ db[b].deleted <=> b \notin inTree
    /\ db[b].failedBlock <=> b \in failedBlock
    /\ db[b].failedPop <=> b \in failedPop
    /\ db[b].failedChild <=> b \in failedChild
    /\ db[b].active <=> OnActiveChain(b)
    /\ db[b].body = popData[b]
    /\ db[b].level <= level[b]
    /\ OnActiveChain(b) => db[b].level = CAN_BE_APPLIED

CleanRecorded == \A b \in known \ dirty : Recorded(b)

\* A restart forgets the deleted indices; their records stay.
ForgottenDeleted == \A b \in Blocks \ known : db[b] = NotStored \/ db[b].deleted

RecordedBodyNeedsLevel ==
    \A b \in Blocks : db[b] # NotStored /\ db[b].body # NoPopData => db[b].level >= VALID_TREE

\* The database describes a tree that satisfies MemoryInv ...
StoredShape ==
    /\ \A b \in Loaded : Ancestors[b] \subseteq Loaded
    /\ \A d \in Loaded : \A a \in Ancestors[d] : a # d /\ LoadedFailed(a) => db[d].failedChild
    /\ \A d \in Loaded \ {Root} : db[d].failedChild <=> LoadedFailed(Prev[d])
    /\ \A a \in Ancestors[dbTip] :
          a \in Loaded /\ ~LoadedFailed(a) /\ db[a].level = CAN_BE_APPLIED
    /\ \A b \in Loaded : db[b].active <=> b \in Ancestors[dbTip]

\* ... and BodiesInv.
StoredBodies ==
    /\ \A b \in Loaded : LoadedLevel(b) >= CONNECTED =>
          \A a \in Ancestors[b] \ {Root} : db[a].body # NoPopData
    /\ \A b \in Loaded \ {Root} :
          LoadedLevel(b) >= CONNECTED /\ ~db[b].failedPop =>
              \A a \in Ancestors[Prev[b]] : IdsIn(db[a].body) \cap IdsIn(db[b].body) = {}

DatabaseInv ==
    /\ DbTypes /\ ForgottenDeleted /\ RecordedBodyNeedsLevel
    /\ dbTip = NotStored => \A b \in Blocks : db[b] = NotStored
    /\ dbTip # NotStored => StoredShape /\ (LeavesOnly => StoredBodies)

StorageInv == MemoryInv /\ BodiesInv /\ DatabaseInv /\ CleanRecorded

-----------------------------------------------------------------------------
(* The operations of the tree preserve the memory's part.                   *)

\* acceptBlockHeader on a new or a restored index.
LEMMA HeaderMemory ==
    ASSUME MemoryInv, BodiesInv, NEW b \in Blocks, AcceptBlockHeader(b)
    PROVE  /\ MemoryShape' /\ FailedDown' /\ FailedChildExact' /\ TypeOK' /\ ActiveChainValid'
           /\ BodiesInv'
<1> USE TreeFacts DEF VALID_UNKNOWN, VALID_TREE, CONNECTED, CAN_BE_APPLIED, Levels
<1> USE DEF MemoryInv, MemoryShape
<1>1. /\ b \notin inTree /\ b # Root
      /\ Prev[b] \in Blocks /\ Prev[b] \in inTree /\ Prev[b] # b
      /\ Ancestors[b] = Ancestors[Prev[b]] \cup {b}
      /\ known' = known \cup {b} /\ inTree' = inTree \cup {b}
      /\ popData' = popData /\ failedBlock' = failedBlock /\ failedPop' = failedPop
      /\ tip' = tip /\ payloadsIndex' = payloadsIndex
  BY PrevFacts DEF AcceptBlockHeader, headerContract, payloadVars
<1>2. /\ level[b] = 0 /\ popData[b] = NoPopData
      /\ level' = [level EXCEPT ![b] = IF b \in failedPop THEN 0 ELSE 1]
  BY <1>1 DEF AcceptBlockHeader, RaisedToTree, DeletedBare, TypeOK
<1>3. failedChild' = IF b \notin known /\ isFailed(Prev[b])
                        THEN failedChild \cup {b} ELSE failedChild
  BY DEF AcceptBlockHeader, headerContract
<1>4. TypeOK'
  <2>1. tips' \subseteq Blocks
    BY DEF AcceptBlockHeader, headerContract, tryAddTip, TypeOK
  <2> QED
    BY <1>1, <1>2, <1>3, <2>1 DEF TypeOK
<1>5. MemoryShape'
  <2>1. KnownClosed' /\ TreeClosed'
    BY <1>1 DEF KnownClosed, TreeClosed, TypeOK
  <2>2. DeletedBare' /\ UnraisedFailed' /\ BodyNeedsLevel'
    BY <1>1, <1>2 DEF DeletedBare, UnraisedFailed, BodyNeedsLevel, TypeOK
  <2> QED
    BY <2>1, <2>2
<1>6. \A x \in known : isFailed(x)' <=> isFailed(x)
  BY <1>1, <1>3 DEF isFailed
<1>7. isFailed(Prev[b])' <=> isFailed(Prev[b])
  BY <1>1, <1>6 DEF TypeOK
<1>8. FailedDown'
  <2> SUFFICES ASSUME NEW d \in known', NEW a \in Ancestors[d], a # d, isFailed(a)'
               PROVE  d \in failedChild'
    BY DEF FailedDown
  <2>1. CASE d \in known
    BY <2>1, <1>3, <1>6 DEF KnownClosed, FailedDown
  <2>2. CASE d = b /\ b \notin known
    <3>1. a \in Ancestors[Prev[b]] /\ a \in known /\ Prev[b] \in known
      BY <1>1, <2>2 DEF KnownClosed, TypeOK
    <3>2. isFailed(Prev[b])
      BY <3>1, <1>6 DEF FailedDown, isFailed
    <3> QED
      BY <2>2, <3>2, <1>3
  <2> QED
    BY <1>1, <2>1, <2>2
<1>9. FailedChildExact'
  <2> SUFFICES ASSUME NEW d \in known' \ {Root}
               PROVE  d \in failedChild' <=> isFailed(Prev[d])'
    BY DEF FailedChildExact
  <2>1. d \in Blocks /\ Prev[d] \in Ancestors[d]
    BY <1>1, PrevFacts DEF TypeOK
  <2>2. CASE d \in known
    BY <2>1, <2>2, <1>3, <1>6 DEF KnownClosed, FailedChildExact
  <2>3. CASE d = b /\ b \notin known
    BY <2>3, <1>3, <1>7 DEF TypeOK
  <2> QED
    BY <1>1, <2>2, <2>3
<1>10. ActiveChainValid'
  BY <1>1, <1>2, <1>3 DEF ActiveChainValid, isFailed, TypeOK
<1>11. BodiesInv'
  <2> SUFFICES ASSUME LeavesOnly PROVE ConnectedBodies' /\ NoDuplicateOnValidChain'
    BY DEF BodiesInv
  <2>1. \A x \in inTree' : isConnected(x)' => x \in inTree /\ isConnected(x)
    BY <1>1, <1>2 DEF isConnected, TypeOK
  <2>2. ConnectedBodies'
    BY <1>1, <2>1 DEF BodiesInv, ConnectedBodies
  <2>3. NoDuplicateOnValidChain'
    BY <1>1, <2>1, NoDuplicateKept DEF BodiesInv
  <2> QED
    BY <2>2, <2>3
<1> QED
  BY <1>4, <1>5, <1>8, <1>9, <1>10, <1>11

\* invalidateSubtree and its early return.
LEMMA InvalidateMemory ==
    ASSUME MemoryInv, BodiesInv, NEW b \in Blocks, InvalidateSubtree(b, "BLOCK")
    PROVE  /\ MemoryShape' /\ FailedDown' /\ FailedChildExact' /\ TypeOK' /\ ActiveChainValid'
           /\ BodiesInv'
           /\ Ancestors[tip'] \subseteq Ancestors[tip] /\ tip' \in Blocks
<1> USE TreeFacts DEF VALID_UNKNOWN, VALID_TREE, CONNECTED, CAN_BE_APPLIED, Levels
<1> USE DEF MemoryInv, MemoryShape
<1>1. /\ b \in inTree /\ b # Root /\ b \in known
      /\ known' = known /\ inTree' = inTree /\ level' = level /\ popData' = popData
      /\ payloadsIndex' = payloadsIndex /\ failedPop' = failedPop
  BY DEF InvalidateSubtree, InvalidateValid, payloadVars, TypeOK
<1>2. MemoryShape'
  BY <1>1 DEF KnownClosed, TreeClosed, DeletedBare, UnraisedFailed, BodyNeedsLevel
<1>3. BodiesInv'
  <2>1. ConnectedBodies <=> ConnectedBodies'
    BY <1>1 DEF ConnectedBodies, isConnected
  <2>2. NoDuplicateOnValidChain <=> NoDuplicateOnValidChain'
    BY <1>1 DEF NoDuplicateOnValidChain, isConnected
  <2> QED
    BY <2>1, <2>2 DEF BodiesInv
<1>4. CASE isValid(b)
  <2>1. InvalidateValid(b, "BLOCK") /\ ~isFailed(b) /\ tip' = TipWithout(b)
    BY <1>4 DEF InvalidateSubtree, isValid
  <2>2. /\ FailedDown' /\ FailedChildExact'
        /\ failedBlock' \subseteq known /\ failedPop' \subseteq known
        /\ failedChild' \subseteq known /\ tips' \subseteq Blocks
        /\ \A x \in Blocks : isFailed(x)' => isFailed(x) \/ b \in Ancestors[x]
    BY <1>1, <2>1, FailBlock
  <2>3. /\ tip' \in Blocks /\ Ancestors[tip'] \subseteq Ancestors[tip]
        /\ b \notin Ancestors[tip']
    BY <1>1, <2>1, PrevFacts DEF TipWithout, OnActiveChain, TypeOK
  <2>4. TypeOK'
    BY <1>1, <2>2, <2>3 DEF TypeOK
  <2>5. ActiveChainValid'
    BY <1>1, <2>2, <2>3 DEF ActiveChainValid
  <2> QED
    BY <1>2, <1>3, <2>2, <2>3, <2>4, <2>5
<1>5. CASE ~isValid(b)
  <2>1. /\ failedBlock' = failedBlock \cup {b}
        /\ failedChild' = failedChild /\ tips' = tips \ {b} /\ tip' = tip
    BY <1>5 DEF InvalidateSubtree
  <2>2. isFailed(b)
    <3>1. level[b] \in 0..4 /\ (isFailed(b) \/ level[b] < 1)
      BY <1>1, <1>5 DEF isValid, TypeOK
    <3>2. level[b] = 0 => b \in failedPop
      BY <1>1 DEF UnraisedFailed
    <3> QED
      BY <3>1, <3>2 DEF isFailed
  <2>3. \A x : isFailed(x)' <=> isFailed(x)
    BY <1>1, <2>1, <2>2 DEF isFailed
  <2>4. TypeOK'
    BY <1>1, <2>1 DEF TypeOK
  <2>5. FailedDown' /\ FailedChildExact'
    BY <1>1, <2>1, <2>3 DEF FailedDown, FailedChildExact
  <2>6. ActiveChainValid'
    BY <1>1, <2>1, <2>3 DEF ActiveChainValid
  <2> QED
    BY <1>2, <1>3, <2>1, <2>4, <2>5, <2>6 DEF TypeOK
<1> QED
  BY <1>4, <1>5

\* revalidateSubtree.
LEMMA RevalidateMemory ==
    ASSUME MemoryInv, BodiesInv, NEW b \in Blocks, RevalidateSubtree(b, "BLOCK")
    PROVE  /\ MemoryShape' /\ FailedDown' /\ FailedChildExact' /\ TypeOK' /\ ActiveChainValid'
           /\ BodiesInv'
<1> USE TreeFacts DEF MemoryInv, MemoryShape
<1>1. /\ b \in inTree /\ b # Root /\ b \in known /\ b \in FlagSet("BLOCK")
      /\ known' = known /\ inTree' = inTree /\ level' = level /\ popData' = popData
      /\ payloadsIndex' = payloadsIndex /\ tip' = tip
      /\ failedBlock' = failedBlock \ {b} /\ failedPop' = failedPop
      /\ failedChild' = failedChild \ Cleared(b, "BLOCK")
  BY DEF RevalidateSubtree, payloadVars, TypeOK
<1>2. tips' \subseteq Blocks
  BY <1>1 DEF RevalidateSubtree, tryAddTips, Cleared, ClearedBelow, Below, TypeOK
<1>3. TypeOK'
  BY <1>1, <1>2 DEF TypeOK
<1>4. MemoryShape'
  BY <1>1 DEF KnownClosed, TreeClosed, DeletedBare, UnraisedFailed, BodyNeedsLevel
<1>5. FailedDown' /\ FailedChildExact'
  BY <1>1, ClearSubtree
<1>6. ActiveChainValid'
  BY <1>1 DEF ActiveChainValid, isFailed
<1>7. BodiesInv'
  <2>1. ConnectedBodies <=> ConnectedBodies'
    BY <1>1 DEF ConnectedBodies, isConnected
  <2>2. NoDuplicateOnValidChain <=> NoDuplicateOnValidChain'
    BY <1>1 DEF NoDuplicateOnValidChain, isConnected
  <2> QED
    BY <2>1, <2>2 DEF BodiesInv
<1> QED
  BY <1>3, <1>4, <1>5, <1>6, <1>7

\* removeSubtree.
LEMMA RemoveMemory ==
    ASSUME MemoryInv, BodiesInv, NEW b \in Blocks, RemoveSubtree(b)
    PROVE  /\ MemoryShape' /\ FailedDown' /\ FailedChildExact' /\ TypeOK' /\ ActiveChainValid'
           /\ BodiesInv'
           /\ Ancestors[tip'] \subseteq Ancestors[tip] /\ tip' \in Blocks
           /\ \A x \in Blocks : (x \in inTree' <=> x \in inTree) => level'[x] = level[x]
<1> USE TreeFacts DEF VALID_UNKNOWN, VALID_TREE, CONNECTED, CAN_BE_APPLIED, Levels
<1> USE DEF MemoryInv, MemoryShape
<1> DEFINE gone == {d \in inTree : b \in Ancestors[d]}
<1>1. /\ b \in inTree /\ b # Root /\ b \in known /\ Prev[b] \in Blocks
      /\ known' = known /\ inTree' = inTree \ gone
      /\ level' = [d \in Blocks |-> IF d \in gone THEN 0 ELSE level[d]]
      /\ popData' = [d \in Blocks |-> IF d \in gone THEN NoPopData ELSE popData[d]]
      /\ payloadsIndex' = [i \in PayloadIds |-> payloadsIndex[i] \ gone]
      /\ failedBlock' = failedBlock /\ failedPop' = failedPop /\ failedChild' = failedChild
      /\ tip' = TipWithout(b)
  BY PrevFacts DEF RemoveSubtree, Unindexed, TypeOK
<1>2. tips' \subseteq Blocks
  BY <1>1 DEF RemoveSubtree, tryAddTip, TypeOK
<1>3. /\ tip' \in Blocks /\ Ancestors[tip'] \subseteq Ancestors[tip]
      /\ b \notin Ancestors[tip']
  BY <1>1, PrevFacts DEF TipWithout, OnActiveChain, TypeOK
<1>4. TypeOK'
  <2>1. level' \in [Blocks -> Levels] /\ popData' \in [Blocks -> PopDatas \cup {NoPopData}]
    BY <1>1 DEF TypeOK
  <2>2. payloadsIndex' \in [PayloadIds -> SUBSET Blocks]
    BY <1>1 DEF TypeOK
  <2> QED
    BY <1>1, <1>2, <1>3, <2>1, <2>2 DEF TypeOK
<1>5. \A x \in inTree' : /\ x \in inTree /\ x \in Blocks /\ level'[x] = level[x]
                         /\ \A a \in Ancestors[x] : a \in inTree' /\ popData'[a] = popData[a]
  BY <1>1 DEF TreeClosed, TypeOK
<1>6. MemoryShape'
  <2>1. KnownClosed' /\ TreeClosed'
    BY <1>1, <1>5 DEF KnownClosed, TreeClosed
  <2>2. DeletedBare' /\ UnraisedFailed' /\ BodyNeedsLevel'
    BY <1>1 DEF DeletedBare, UnraisedFailed, BodyNeedsLevel, TypeOK
  <2> QED
    BY <2>1, <2>2
<1>7. FailedDown' /\ FailedChildExact'
  BY <1>1 DEF FailedDown, FailedChildExact, isFailed
<1>8. ActiveChainValid'
  <2> SUFFICES ASSUME NEW a \in Ancestors[tip']
               PROVE  a \in inTree' /\ ~isFailed(a)' /\ level'[a] = CAN_BE_APPLIED
    BY DEF ActiveChainValid
  <2>1. a \in Ancestors[tip] /\ b \notin Ancestors[a] /\ a \in Blocks
    BY <1>3
  <2> QED
    BY <2>1, <1>1 DEF ActiveChainValid, isFailed
<1>9. BodiesInv'
  <2> SUFFICES ASSUME LeavesOnly PROVE ConnectedBodies' /\ NoDuplicateOnValidChain'
    BY DEF BodiesInv
  <2>1. ConnectedBodies'
    BY <1>5 DEF BodiesInv, ConnectedBodies, isConnected
  <2>2. \A x \in Blocks : IdsIn(popData'[x]) \subseteq IdsIn(popData[x])
    BY <1>1 DEF IdsIn
  <2>3. \A x \in inTree' : isConnected(x)' /\ x \notin failedPop' =>
               x \in inTree /\ isConnected(x) /\ x \notin failedPop
    BY <1>1, <1>5 DEF isConnected
  <2> QED
    BY <2>1, <2>2, <2>3, NoDuplicateKept DEF BodiesInv
<1>10. \A x \in Blocks : (x \in inTree' <=> x \in inTree) => level'[x] = level[x]
  BY <1>1
<1> QED
  BY <1>3, <1>4, <1>6, <1>7, <1>8, <1>9, <1>10

\* No block above one without a body is connected.
LEMMA NothingAbove ==
    ASSUME MemoryInv, ConnectedBodies, NEW b \in Blocks \ {Root}, popData[b] = NoPopData,
           NEW d \in Blocks, b \in Ancestors[d]
    PROVE  ~isConnected(d)
<1>1. CASE d \in inTree
  BY <1>1 DEF ConnectedBodies
<1>2. CASE d \notin inTree
  BY <1>2 DEF MemoryInv, MemoryShape, DeletedBare, isConnected, VALID_UNKNOWN, CONNECTED
<1> QED
  BY <1>1, <1>2

\* acceptBlock, whichever descendants it connects and whichever of those hold a
\* duplicate.
LEMMA AcceptMemory ==
    ASSUME MemoryInv, BodiesInv, NEW b \in Blocks, NEW p \in PopDatas, AcceptBlock(b, p),
           PayloadsIndexExact'
    PROVE  /\ MemoryShape' /\ FailedDown' /\ FailedChildExact' /\ TypeOK' /\ ActiveChainValid'
           /\ BodiesInv'
           /\ \A x \in Blocks : level[x] <= level'[x]
<1> USE TreeFacts DEF VALID_UNKNOWN, VALID_TREE, CONNECTED, CAN_BE_APPLIED, Levels
<1> USE DEF MemoryInv, MemoryShape
<1> DEFINE new  == Connects(b)
           dups == {d \in new : HasStatefulDuplicate(d)'}
           below == UNION {FlaggedBelow(d) : d \in {x \in dups : ~isFailed(x)}}
<1>1. /\ b \in inTree /\ b # Root /\ level[b] >= 1
      /\ b \notin Ancestors[tip] /\ popData[b] = NoPopData /\ p # NoPopData
      /\ known' = known /\ inTree' = inTree /\ failedBlock' = failedBlock /\ tip' = tip
      /\ popData' = [popData EXCEPT ![b] = p]
      /\ level' = Raised(new, 2)
      /\ failedPop' = failedPop \cup dups
      /\ failedChild' = failedChild \cup below
  BY PopDataAssumption DEF AcceptBlock, acceptBlockContract, OnActiveChain
<1>2. ASSUME NEW d \in new
      PROVE  /\ d \in known /\ d \in Blocks /\ b \in Ancestors[d] /\ isConnected(Prev[b])
             /\ \A m \in Ancestors[d] \ Ancestors[b] : popData[m] # NoPopData
             /\ d \in inTree /\ d # Root
  <2>1. /\ d \in known /\ d \in Blocks /\ b \in Ancestors[d] /\ isConnected(Prev[b])
        /\ \A m \in Ancestors[d] \ Ancestors[b] : popData[m] # NoPopData
    BY DEF Connects, TypeOK
  <2>2. d # Root
    BY <2>1, <1>1, TreeAssumption
  <2>3. d = b \/ d \notin Ancestors[b]
    BY <2>1
  <2> QED
    BY <2>1, <2>2, <2>3, <1>1 DEF DeletedBare
<1>3. /\ level' \in [Blocks -> Levels]
      /\ \A x \in Blocks : level'[x] = IF x \in new /\ level[x] < 2 THEN 2 ELSE level[x]
  BY <1>1, <1>2 DEF Raised, TypeOK
<1>4. /\ \A x \in Blocks : level[x] <= level'[x]
      /\ \A x \in Blocks : isConnected(x)' <=> x \in new \/ isConnected(x)
      /\ \A x \in Blocks : popData'[x] = IF x = b THEN p ELSE popData[x]
  BY <1>1, <1>3 DEF isConnected, TypeOK
<1> HIDE DEF new
<1>5. TypeOK'
  <2>1. tips' \subseteq Blocks
    BY <1>2, PrevFacts DEF AcceptBlock, tryAddTips, TypeOK, new
  <2>2. payloadsIndex' \in [PayloadIds -> SUBSET Blocks]
    BY DEF AcceptBlock, TypeOK
  <2>3. below \subseteq known /\ dups \subseteq known
    BY <1>2 DEF FlaggedBelow, Below
  <2> QED
    BY <1>1, <1>3, <2>1, <2>2, <2>3 DEF TypeOK
<1>6. MemoryShape'
  <2>1. KnownClosed' /\ TreeClosed'
    BY <1>1 DEF KnownClosed, TreeClosed
  <2>2. DeletedBare' /\ UnraisedFailed' /\ BodyNeedsLevel'
    BY <1>1, <1>2, <1>3, <1>4 DEF DeletedBare, UnraisedFailed, BodyNeedsLevel, TypeOK
  <2> QED
    BY <2>1, <2>2
<1>7. FailedDown' /\ FailedChildExact'
  <2>1. dups \in SUBSET known
    BY <1>2
  <2>2. failedBlock' \cup failedPop' = failedBlock \cup failedPop \cup dups
    BY <1>1
  <2>3. \A x : x \in failedChild' <=>
                 x \in failedChild \/ \E y \in dups : ~isFailed(y) /\ x \in FlaggedBelow(y)
    BY <1>1
  <2> HIDE DEF dups
  <2> QED
    BY <1>1, <2>1, <2>2, <2>3, FlagSubtrees
<1>8. ActiveChainValid'
  <2> SUFFICES ASSUME NEW a \in Ancestors[tip]
               PROVE  a \in inTree /\ ~isFailed(a)' /\ level'[a] = CAN_BE_APPLIED
    BY <1>1 DEF ActiveChainValid
  <2>1. a \in Blocks /\ b \notin Ancestors[a]
    BY <1>1 DEF TypeOK
  <2>2. a \notin new /\ a \notin dups
    BY <2>1, <1>2
  <2>3. a \notin below
    BY <2>1, <1>2 DEF FlaggedBelow, Below, TypeOK
  <2> QED
    BY <1>1, <1>3, <2>1, <2>2, <2>3 DEF ActiveChainValid, isFailed
<1>9. BodiesInv'
  <2> SUFFICES ASSUME LeavesOnly PROVE ConnectedBodies' /\ NoDuplicateOnValidChain'
    BY DEF BodiesInv
  <2>0. ConnectedBodies /\ NoDuplicateOnValidChain
    BY DEF BodiesInv
  <2>1. /\ Prev[b] \in inTree /\ Prev[b] \in Blocks
        /\ Ancestors[b] = Ancestors[Prev[b]] \cup {b}
    BY <1>1, PrevFacts DEF TreeClosed
  <2>2. ConnectedBodies'
    <3> SUFFICES ASSUME NEW x \in inTree, isConnected(x)', NEW a \in Ancestors[x] \ {Root}
                 PROVE  popData'[a] # NoPopData
      BY <1>1 DEF ConnectedBodies
    <3>1. x \in Blocks /\ a \in Blocks
      BY DEF TypeOK
    <3>2. CASE x \in new
      <4>1. isConnected(Prev[b]) /\ (a \in Ancestors[b] \/ popData[a] # NoPopData)
        BY <3>2, <1>2
      <4>2. a \in Ancestors[Prev[b]] => popData[a] # NoPopData
        BY <4>1, <2>0, <2>1 DEF ConnectedBodies
      <4> QED
        BY <3>1, <4>1, <4>2, <2>1, <1>1, <1>4
    <3>3. CASE x \notin new
      <4>1. isConnected(x)
        BY <3>1, <3>3, <1>4
      <4>2. popData[a] # NoPopData
        BY <4>1, <2>0 DEF ConnectedBodies
      <4> QED
        BY <3>1, <4>2, <1>1, <1>4
    <3> QED
      BY <3>2, <3>3
  <2>3. NoDuplicateOnValidChain'
    <3> SUFFICES ASSUME NEW d \in inTree \ {Root}, isConnected(d)', d \notin failedPop',
                        NEW a \in Ancestors[Prev[d]]
                 PROVE  IdsIn(popData'[a]) \cap IdsIn(popData'[d]) = {}
      BY <1>1 DEF NoDuplicateOnValidChain, IdsIn
    <3>1. /\ d \in Blocks /\ Prev[d] \in Blocks /\ a \in Blocks /\ a \in Ancestors[d]
          /\ a \in inTree
      BY PrevFacts DEF TypeOK, TreeClosed
    <3>2. CASE d \in new
      <4>1. ~HasStatefulDuplicate(d)'
        BY <1>1, <3>2
      <4>2. \A i \in IdsIn(popData'[d]) : a \notin payloadsIndex'[i]
        BY <4>1, <3>1, <1>1 DEF HasStatefulDuplicate, IdsIn
      <4>3. \A i \in IdsIn(popData'[d]) : i \in PayloadIds
        BY <3>1, <1>5, PopDataAssumption DEF IdsIn, TypeOK
      <4>4. ASSUME NEW i \in IdsIn(popData'[d]), i \in IdsIn(popData'[a]) PROVE FALSE
        <5>1. payloadsIndex'[i] = {x \in inTree' : i \in IdsIn(popData'[x])}
          BY <4>3 DEF PayloadsIndexExact, IdsIn
        <5> QED
          BY <4>2, <4>4, <5>1, <3>1, <1>1
      <4> QED
        BY <4>4
    <3>3. CASE d \notin new
      <4>1. isConnected(d) /\ d \notin failedPop
        BY <3>1, <3>3, <1>1, <1>4
      <4>2. b \notin Ancestors[d]
        BY <4>1, <3>1, <1>1, <2>0, NothingAbove
      <4>3. popData'[a] = popData[a] /\ popData'[d] = popData[d]
        BY <4>2, <3>1, <1>4
      <4> QED
        BY <4>1, <4>3, <2>0 DEF NoDuplicateOnValidChain
    <3> QED
      BY <3>2, <3>3
  <2> QED
    BY <2>2, <2>3
<1> QED
  BY <1>4, <1>5, <1>6, <1>7, <1>8, <1>9

\* removePayloads, when the block is a connected leaf.
LEMMA RemovePayloadsMemory ==
    ASSUME MemoryInv, BodiesInv, NEW b \in Blocks, RemovePayloads(b),
           LeavesOnly => ConnectedLeaf(b)
    PROVE  /\ MemoryShape' /\ FailedDown' /\ FailedChildExact' /\ TypeOK' /\ ActiveChainValid'
           /\ BodiesInv'
           /\ \A x \in Blocks : popData'[x] = popData[x] => level'[x] = level[x]
<1> USE TreeFacts DEF VALID_UNKNOWN, VALID_TREE, CONNECTED, CAN_BE_APPLIED, Levels
<1> USE DEF MemoryInv, MemoryShape
<1>1. /\ b \in inTree /\ b # Root /\ b \in known /\ Prev[b] \in Blocks
      /\ popData[b] # NoPopData /\ b \notin Ancestors[tip]
      /\ known' = known /\ inTree' = inTree /\ failedBlock' = failedBlock /\ tip' = tip
      /\ popData' = [popData EXCEPT ![b] = NoPopData]
      /\ failedPop' = failedPop \ {b}
      /\ failedChild' = failedChild \ Cleared(b, "POP")
      /\ level' = IF isConnected(b) THEN [level EXCEPT ![b] = 1] ELSE level
  BY PrevFacts DEF RemovePayloads, removePayloadsContract, OnActiveChain, TypeOK
<1>2. /\ level' \in [Blocks -> Levels] /\ level[b] >= 1
      /\ \A x \in Blocks : x # b => level'[x] = level[x] /\ popData'[x] = popData[x]
      /\ level'[b] = 1 /\ popData'[b] = NoPopData
  BY <1>1 DEF isConnected, BodyNeedsLevel, TypeOK
<1>3. TypeOK'
  <2>1. tips' \subseteq Blocks
    BY <1>1 DEF RemovePayloads, tryAddTip, tryAddTips, TypeOK
  <2>2. payloadsIndex' \in [PayloadIds -> SUBSET Blocks]
    BY DEF RemovePayloads, TypeOK
  <2> QED
    BY <1>1, <1>2, <2>1, <2>2 DEF TypeOK
<1>4. MemoryShape'
  <2>1. KnownClosed' /\ TreeClosed'
    BY <1>1 DEF KnownClosed, TreeClosed
  <2>2. DeletedBare' /\ UnraisedFailed' /\ BodyNeedsLevel'
    BY <1>1, <1>2 DEF DeletedBare, UnraisedFailed, BodyNeedsLevel, TypeOK
  <2> QED
    BY <2>1, <2>2
<1>5. FailedDown' /\ FailedChildExact'
  <2>1. CASE b \in failedPop
    BY <1>1, <2>1, ClearSubtree DEF FlagSet
  <2>2. CASE b \notin failedPop
    <3>1. failedPop' = failedPop /\ failedChild' = failedChild
      BY <1>1, <2>2 DEF Cleared, FlagSet
    <3> QED
      BY <1>1, <3>1 DEF FailedDown, FailedChildExact, isFailed
  <2> QED
    BY <2>1, <2>2
<1>6. ActiveChainValid'
  BY <1>1, <1>2 DEF ActiveChainValid, isFailed, TypeOK
<1>7. BodiesInv'
  <2> SUFFICES ASSUME LeavesOnly PROVE ConnectedBodies' /\ NoDuplicateOnValidChain'
    BY DEF BodiesInv
  <2>1. \A x \in inTree' : isConnected(x)' =>
               x # b /\ b \notin Ancestors[x] /\ x \in inTree /\ isConnected(x) /\ x \in Blocks
    <3> SUFFICES ASSUME NEW x \in inTree', isConnected(x)'
                 PROVE  x # b /\ b \notin Ancestors[x] /\ isConnected(x)
      BY <1>1 DEF TypeOK
    <3>1. x # b /\ isConnected(x) /\ x \in known
      BY <1>1, <1>2 DEF isConnected, TypeOK
    <3> QED
      BY <3>1 DEF ConnectedLeaf, Below
  <2>2. ConnectedBodies'
    BY <1>1, <1>2, <2>1 DEF BodiesInv, ConnectedBodies
  <2>3. \A x \in Blocks : IdsIn(popData'[x]) \subseteq IdsIn(popData[x])
    BY <1>2 DEF IdsIn
  <2>4. \A x \in inTree' : isConnected(x)' /\ x \notin failedPop' =>
               x \in inTree /\ isConnected(x) /\ x \notin failedPop
    BY <1>1, <2>1
  <2> QED
    BY <2>2, <2>3, <2>4, NoDuplicateKept DEF BodiesInv
<1>8. \A x \in Blocks : popData'[x] = popData[x] => level'[x] = level[x]
  BY <1>1, <1>2
<1> QED
  BY <1>3, <1>4, <1>5, <1>6, <1>7, <1>8

\* The levels of connected blocks of the tree go up, their flags and bodies stay.
LEMMA RaiseMemory ==
    ASSUME MemoryInv, BodiesInv, known' = known, inTree' = inTree, popData' = popData,
           failedPop \subseteq failedPop', level' \in [Blocks -> Levels],
           \A x \in Blocks : level[x] <= level'[x],
           \A x \in Blocks : level'[x] # level[x] => x \in inTree /\ isConnected(x)
    PROVE  MemoryShape' /\ BodiesInv'
<1> USE DEF VALID_UNKNOWN, VALID_TREE, CONNECTED, CAN_BE_APPLIED, Levels
<1> USE DEF MemoryInv, MemoryShape
<1>1. \A x \in Blocks : isConnected(x)' <=> isConnected(x)
  BY DEF isConnected, TypeOK
<1>2. KnownClosed' /\ TreeClosed' /\ DeletedBare' /\ UnraisedFailed' /\ BodyNeedsLevel'
  <2>1. KnownClosed' /\ TreeClosed' /\ DeletedBare'
    BY DEF KnownClosed, TreeClosed, DeletedBare, TypeOK
  <2>2. UnraisedFailed' /\ BodyNeedsLevel'
    BY DEF UnraisedFailed, BodyNeedsLevel, TypeOK
  <2> QED
    BY <2>1, <2>2
<1>3. BodiesInv'
  <2> SUFFICES ASSUME LeavesOnly PROVE ConnectedBodies' /\ NoDuplicateOnValidChain'
    BY DEF BodiesInv
  <2>1. ConnectedBodies'
    BY <1>1 DEF BodiesInv, ConnectedBodies, TypeOK
  <2>2. \A x \in inTree' : isConnected(x)' /\ x \notin failedPop' =>
               x \in inTree /\ isConnected(x) /\ x \notin failedPop
    BY <1>1 DEF TypeOK
  <2> QED
    BY <2>1, <2>2, NoDuplicateKept DEF BodiesInv
<1> QED
  BY <1>2, <1>3

\* setState and comparePopScore, however they end.
LEMMA SwitchMemory ==
    ASSUME MemoryInv, BodiesInv, NEW to \in Blocks, Applicable(to),
           SetState(to) \/ CompareSuccessor(to) \/ CompareFork(to)
    PROVE  /\ MemoryShape' /\ FailedDown' /\ FailedChildExact' /\ TypeOK' /\ ActiveChainValid'
           /\ BodiesInv'
           /\ known' = known
           /\ \A x \in Blocks : level[x] <= level'[x]
           /\ tip' = to \/ tip' = tip
<1> USE TreeFacts
        DEF VALID_UNKNOWN, VALID_TREE, CONNECTED, MAYBE_WITH_OTHER, CAN_BE_APPLIED, Levels
<1> USE DEF MemoryInv, MemoryShape
<1>1. to \in inTree /\ tip \in Blocks
  BY DEF SetState, CompareSuccessor, CompareFork, setStateContract, compareContract, TypeOK
<1>2. \A x \in Unapplied(to) : x \in Blocks /\ x \in inTree /\ isConnected(x) /\ x \in Ancestors[to]
  BY <1>1 DEF Unapplied, TreeClosed, Applicable
<1>3. isValid(to) => \A x \in Ancestors[to] : ~isFailed(x)
  BY <1>1 DEF isValid, isFailed, FailedDown, TypeOK
<1>4. ASSUME NEW lvl \in 0..4, level' = Raised(Unapplied(to), lvl)
      PROVE  /\ level' \in [Blocks -> Levels]
             /\ \A x \in Blocks : level[x] <= level'[x]
             /\ \A x \in Blocks : level'[x] # level[x] => x \in inTree /\ isConnected(x)
             /\ \A x \in Blocks \ Unapplied(to) : level'[x] = level[x]
             /\ lvl = 4 => \A x \in Unapplied(to) : level'[x] = 4
  BY <1>2, <1>4 DEF Raised, TypeOK
<1>5. ASSUME Switch(to), isValid(to) \/ Unapplied(to) = {}
      PROVE  /\ MemoryShape' /\ FailedDown' /\ FailedChildExact' /\ TypeOK' /\ ActiveChainValid'
             /\ BodiesInv' /\ known' = known
             /\ \A x \in Blocks : level[x] <= level'[x]
             /\ tip' = to \/ tip' = tip
  <2>1. /\ known' = known /\ inTree' = inTree /\ popData' = popData /\ tips' = tips
        /\ payloadsIndex' = payloadsIndex /\ tip' = to
        /\ failedBlock' = failedBlock /\ failedPop' = failedPop /\ failedChild' = failedChild
        /\ level' = Raised(Unapplied(to), 4)
    BY <1>5 DEF Switch, payloadVars
  <2>2. /\ level' \in [Blocks -> Levels]
        /\ \A x \in Blocks : level[x] <= level'[x]
        /\ \A x \in Blocks : level'[x] # level[x] => x \in inTree /\ isConnected(x)
        /\ \A x \in Blocks \ Unapplied(to) : level'[x] = level[x]
        /\ \A x \in Unapplied(to) : level'[x] = 4
    BY <2>1, <1>4
  <2>3. MemoryShape' /\ BodiesInv'
    BY <2>1, <2>2, RaiseMemory
  <2>4. TypeOK'
    BY <2>1, <2>2 DEF TypeOK
  <2>5. FailedDown' /\ FailedChildExact'
    BY <2>1 DEF FailedDown, FailedChildExact, isFailed
  <2>6. ActiveChainValid'
    <3> SUFFICES ASSUME NEW a \in Ancestors[to]
                 PROVE  a \in inTree /\ ~isFailed(a) /\ level'[a] = 4
      BY <2>1 DEF ActiveChainValid, isFailed
    <3>1. CASE a \in Unapplied(to)
      BY <3>1, <1>2, <1>3, <1>5, <2>2
    <3>2. CASE a \in Ancestors[tip]
      BY <3>2, <2>2 DEF ActiveChainValid, Unapplied
    <3> QED
      BY <3>1, <3>2 DEF Unapplied
  <2> QED
    BY <2>1, <2>2, <2>3, <2>4, <2>5, <2>6
<1>6. ASSUME level' = Raised(Unapplied(to), MAYBE_WITH_OTHER),
             UNCHANGED <<known, inTree, failedBlock, failedPop, failedChild,
                         payloadVars, tips, tip>>
      PROVE  /\ MemoryShape' /\ FailedDown' /\ FailedChildExact' /\ TypeOK' /\ ActiveChainValid'
             /\ BodiesInv' /\ known' = known
             /\ \A x \in Blocks : level[x] <= level'[x]
             /\ tip' = to \/ tip' = tip
  <2>1. /\ known' = known /\ inTree' = inTree /\ popData' = popData /\ tips' = tips
        /\ payloadsIndex' = payloadsIndex /\ tip' = tip
        /\ failedBlock' = failedBlock /\ failedPop' = failedPop /\ failedChild' = failedChild
        /\ level' = Raised(Unapplied(to), 3)
    BY <1>6 DEF payloadVars
  <2>2. /\ level' \in [Blocks -> Levels]
        /\ \A x \in Blocks : level[x] <= level'[x]
        /\ \A x \in Blocks : level'[x] # level[x] => x \in inTree /\ isConnected(x)
        /\ \A x \in Blocks \ Unapplied(to) : level'[x] = level[x]
    BY <2>1, <1>4
  <2>3. MemoryShape' /\ BodiesInv'
    BY <2>1, <2>2, RaiseMemory
  <2>4. TypeOK'
    BY <2>1, <2>2 DEF TypeOK
  <2>5. FailedDown' /\ FailedChildExact'
    BY <2>1 DEF FailedDown, FailedChildExact, isFailed
  <2>6. ActiveChainValid'
    BY <2>1, <2>2, <1>1 DEF ActiveChainValid, Unapplied, isFailed
  <2> QED
    BY <2>1, <2>2, <2>3, <2>4, <2>5, <2>6
<1>7. ASSUME isValid(to), NEW k \in Unapplied(to), NEW lvl \in 0..4, NEW rest \in 0..4,
             FailAt(k, to, lvl, rest)
      PROVE  /\ MemoryShape' /\ FailedDown' /\ FailedChildExact' /\ TypeOK' /\ ActiveChainValid'
             /\ BodiesInv' /\ known' = known
             /\ \A x \in Blocks : level[x] <= level'[x]
             /\ tip' = to \/ tip' = tip
  <2> DEFINE target(x) == IF Height[x] < Height[k] THEN lvl ELSE rest
  <2>1. /\ known' = known /\ inTree' = inTree /\ popData' = popData
        /\ payloadsIndex' = payloadsIndex /\ tip' = tip /\ InvalidateValid(k, "POP")
        /\ level' = [x \in Blocks |->
                       IF x \in Unapplied(to)
                         THEN IF level[x] < target(x) THEN target(x) ELSE level[x]
                         ELSE level[x]]
    BY <1>7 DEF FailAt, payloadVars
  <2>2. \A x \in Blocks : target(x) \in 0..4
    OBVIOUS
  <2>3. /\ level' \in [Blocks -> Levels]
        /\ \A x \in Blocks : level[x] <= level'[x]
        /\ \A x \in Blocks \ Unapplied(to) : level'[x] = level[x]
    BY <2>1, <2>2 DEF TypeOK
  <2>4. \A x \in Blocks : level'[x] # level[x] => x \in inTree /\ isConnected(x)
    BY <2>3, <1>2
  <2>5. k \in inTree \ {Root} /\ k \in Blocks /\ k \notin Ancestors[tip] /\ ~isFailed(k)
    BY <1>1, <1>2, <1>3, <1>7 DEF Unapplied
  <2>6. /\ FailedDown' /\ FailedChildExact'
        /\ failedBlock' \subseteq known /\ failedPop' \subseteq known
        /\ failedChild' \subseteq known /\ tips' \subseteq Blocks
        /\ \A x \in Blocks : isFailed(x)' => isFailed(x) \/ k \in Ancestors[x]
        /\ failedPop \subseteq failedPop'
    BY <2>1, <2>5, FailBlock
  <2>7. MemoryShape' /\ BodiesInv'
    BY <2>1, <2>3, <2>4, <2>6, RaiseMemory
  <2>8. TypeOK'
    BY <2>1, <2>3, <2>6 DEF TypeOK
  <2>9. ActiveChainValid'
    <3> SUFFICES ASSUME NEW a \in Ancestors[tip]
                 PROVE  a \in inTree /\ ~isFailed(a)' /\ level'[a] = CAN_BE_APPLIED
      BY <2>1 DEF ActiveChainValid
    <3>1. a \in Blocks /\ k \notin Ancestors[a] /\ a \notin Unapplied(to)
      BY <2>5, <1>1 DEF Unapplied
    <3> QED
      BY <3>1, <2>3, <2>6 DEF ActiveChainValid
  <2> QED
    BY <2>1, <2>3, <2>6, <2>7, <2>8, <2>9
<1>8. CASE SetState(to)
  BY <1>5, <1>7, <1>8 DEF SetState
<1>9. CASE CompareSuccessor(to)
  BY <1>5, <1>7, <1>9 DEF CompareSuccessor, compareContract
<1>10. CASE CompareFork(to)
  BY <1>5, <1>6, <1>7, <1>10 DEF CompareFork, compareContract
<1> QED
  BY <1>8, <1>9, <1>10

-----------------------------------------------------------------------------
(* The dirty flags.                                                         *)

\* What stays clean is as it was: its flags and its body, BLOCK_ACTIVE, and a
\* level that has not gone down.
LEMMA CleanKept ==
    ASSUME CleanRecorded, DbTypes, TypeOK, db' = db, dirty' \subseteq Blocks,
           dirty \cup Changed \subseteq dirty',
           known' \ known \subseteq inTree' \ inTree,
           \A x \in Blocks \ dirty' : x \in Ancestors[tip'] <=> x \in Ancestors[tip],
           \A x \in Blocks \ dirty' : level[x] <= level'[x],
           known' \subseteq Blocks, level' \in [Blocks -> Levels]
    PROVE  CleanRecorded'
<1> USE DEF Levels, VALID_UNKNOWN, CAN_BE_APPLIED
<1> SUFFICES ASSUME NEW b \in known' \ dirty'
             PROVE  Recorded(b)'
  BY DEF CleanRecorded
<1>1. b \in Blocks /\ b \notin dirty /\ b \notin Changed
  OBVIOUS
<1>2. /\ b \in inTree' <=> b \in inTree
      /\ b \in failedBlock' <=> b \in failedBlock
      /\ b \in failedPop' <=> b \in failedPop
      /\ b \in failedChild' <=> b \in failedChild
      /\ popData'[b] = popData[b]
  BY <1>1 DEF Changed
<1>3. b \in known
  BY <1>2
<1>4. Recorded(b)
  BY <1>1, <1>3 DEF CleanRecorded
<1>5. db[b] \in Records /\ level[b] \in 0..4 /\ level'[b] \in 0..4 /\ level[b] <= level'[b]
  BY <1>1, <1>4 DEF DbTypes, Recorded, TypeOK
<1>6. db[b].level \in 0..4
  BY <1>5 DEF Records
<1>7. b \in Ancestors[tip'] <=> b \in Ancestors[tip]
  BY <1>1
<1>8. db'[b].level <= level'[b]
  BY <1>4, <1>5, <1>6 DEF Recorded
<1> QED
  BY <1>2, <1>4, <1>7, <1>8 DEF Recorded, OnActiveChain

\* The operations leave the database as it is and forget no index.
LEMMA DatabaseKept ==
    ASSUME DatabaseInv, db' = db, dbTip' = dbTip, known \subseteq known', dirty' \subseteq Blocks
    PROVE  DatabaseInv'
<1>1. DbTypes' /\ ForgottenDeleted' /\ RecordedBodyNeedsLevel'
  BY DEF DatabaseInv, DbTypes, ForgottenDeleted, RecordedBodyNeedsLevel
<1>2. Loaded' = Loaded /\ \A b : LoadedFailed(b)' <=> LoadedFailed(b)
  BY DEF Loaded, LoadedFailed
<1>3. \A b : LoadedLevel(b)' = LoadedLevel(b)
  BY <1>2 DEF LoadedLevel
<1>4. StoredShape' <=> StoredShape
  BY <1>2 DEF StoredShape
<1>5. StoredBodies' <=> StoredBodies
  BY <1>2, <1>3 DEF StoredBodies, IdsIn
<1> QED
  BY <1>1, <1>4, <1>5 DEF DatabaseInv

\* An operation on a block, with the flags it sets and the indices it makes dirty.
LEMMA TouchStep ==
    ASSUME OnlyBlockReason, StorageInv, TouchBlocks, db' = db, dbTip' = dbTip
    PROVE  StorageInv'
<1> USE DEF StorageInv
<1>1. TypeOK /\ DbTypes /\ dirty \subseteq Blocks /\ Changed \subseteq Blocks
  BY DEF MemoryInv, DatabaseInv, DbTypes, Changed
<1> DEFINE Kept == /\ MemoryShape' /\ FailedDown' /\ FailedChildExact' /\ TypeOK'
                   /\ ActiveChainValid' /\ BodiesInv' /\ PayloadsIndexExact'
<1>3. ASSUME Kept, dirty' \subseteq Blocks, dirty \cup Changed \subseteq dirty',
             known \subseteq known', known' \ known \subseteq inTree' \ inTree,
             \A x \in Blocks \ dirty' : x \in Ancestors[tip'] <=> x \in Ancestors[tip],
             \A x \in Blocks \ Changed : level[x] <= level'[x]
      PROVE  StorageInv'
  <2>1. CleanRecorded'
    BY <1>1, <1>3, CleanKept DEF TypeOK
  <2>2. DatabaseInv'
    BY <1>3, DatabaseKept
  <2> QED
    BY <1>3, <2>1, <2>2 DEF MemoryInv
<1> HIDE DEF Kept
<1>4. ASSUME NEW b \in Blocks, AcceptBlockHeader(b), Touched({})
      PROVE  StorageInv'
  <2>1. Kept
    BY <1>4, HeaderMemory, PayloadsIndexStep DEF Kept, MemoryInv, MemoryShape, Next
  <2>2. /\ known' = known \cup {b} /\ inTree' = inTree \cup {b} /\ b \notin inTree
        /\ tip' = tip /\ level' = [level EXCEPT ![b] = IF b \in failedPop THEN @ ELSE VALID_TREE]
        /\ dirty' = dirty \cup Changed
    BY <1>4 DEF AcceptBlockHeader, headerContract, RaisedToTree, Touched
  <2>3. b \in Changed
    BY <2>2 DEF Changed
  <2>4. \A x \in Blocks \ Changed : level[x] <= level'[x]
    BY <2>2, <2>3, <1>1 DEF TypeOK, Levels
  <2> QED
    BY <2>1, <2>2, <2>4, <1>1, <1>3
<1>5. ASSUME NEW b \in Blocks, NEW p \in PopDatas, AcceptBlock(b, p), Touched({})
      PROVE  StorageInv'
  <2>1. PayloadsIndexExact'
    BY <1>5, PayloadsIndexStep DEF MemoryInv, MemoryShape, Next
  <2>2. Kept /\ \A x \in Blocks : level[x] <= level'[x]
    BY <1>5, <2>1, AcceptMemory DEF Kept
  <2>3. known' = known /\ tip' = tip /\ dirty' = dirty \cup Changed
    BY <1>5 DEF AcceptBlock, Touched
  <2> QED
    BY <2>2, <2>3, <1>1, <1>3
<1>6. ASSUME NEW b \in Blocks, RemovePayloads(b), LeavesOnly => ConnectedLeaf(b), Touched({})
      PROVE  StorageInv'
  <2>1. PayloadsIndexExact'
    BY <1>6, PayloadsIndexStep DEF MemoryInv, MemoryShape, Next
  <2>2. Kept /\ \A x \in Blocks : popData'[x] = popData[x] => level'[x] = level[x]
    BY <1>6, <2>1, RemovePayloadsMemory DEF Kept
  <2>3. known' = known /\ tip' = tip /\ dirty' = dirty \cup Changed
    BY <1>6 DEF RemovePayloads, Touched
  <2>4. \A x \in Blocks \ Changed : level[x] <= level'[x]
    BY <2>2, <1>1 DEF Changed, TypeOK, Levels, VALID_UNKNOWN, CAN_BE_APPLIED
  <2> QED
    BY <2>2, <2>3, <2>4, <1>1, <1>3
<1>7. ASSUME NEW b \in Blocks, InvalidateSubtree(b, "BLOCK"), "BLOCK" \in ExternalReasons,
             Touched(OldPart(tip'))
      PROVE  StorageInv'
  <2>1. PayloadsIndexExact'
    BY <1>7, PayloadsIndexStep DEF MemoryInv, MemoryShape, Next
  <2>2. Kept /\ Ancestors[tip'] \subseteq Ancestors[tip]
    BY <1>7, <2>1, InvalidateMemory DEF Kept
  <2>3. known' = known /\ level' = level /\ dirty' = dirty \cup Changed \cup OldPart(tip')
    BY <1>7 DEF InvalidateSubtree, Touched
  <2>4. OldPart(tip') \subseteq Blocks
        /\ \A x \in Blocks \ dirty' : x \in Ancestors[tip'] <=> x \in Ancestors[tip]
    BY <2>2, <2>3, <1>1, TreeFacts DEF OldPart, TypeOK
  <2>5. \A x \in Blocks : level[x] <= level'[x]
    BY <2>3, <1>1 DEF TypeOK, Levels, VALID_UNKNOWN, CAN_BE_APPLIED
  <2> QED
    BY <2>2, <2>3, <2>4, <2>5, <1>1, <1>3
<1>8. ASSUME NEW b \in Blocks, RevalidateSubtree(b, "BLOCK"), "BLOCK" \in ExternalReasons,
             Touched({})
      PROVE  StorageInv'
  <2>1. PayloadsIndexExact'
    BY <1>8, PayloadsIndexStep DEF MemoryInv, MemoryShape, Next
  <2>2. Kept
    BY <1>8, <2>1, RevalidateMemory DEF Kept
  <2>3. known' = known /\ level' = level /\ tip' = tip /\ dirty' = dirty \cup Changed
    BY <1>8 DEF RevalidateSubtree, Touched
  <2>4. \A x \in Blocks : level[x] <= level'[x]
    BY <2>3, <1>1 DEF TypeOK, Levels, VALID_UNKNOWN, CAN_BE_APPLIED
  <2> QED
    BY <2>2, <2>3, <2>4, <1>1, <1>3
<1>9. ASSUME NEW b \in Blocks, RemoveSubtree(b), Touched(OldPart(tip'))
      PROVE  StorageInv'
  <2>1. PayloadsIndexExact'
    BY <1>9, PayloadsIndexStep DEF MemoryInv, MemoryShape, Next
  <2>2. Kept /\ Ancestors[tip'] \subseteq Ancestors[tip]
        /\ \A x \in Blocks : (x \in inTree' <=> x \in inTree) => level'[x] = level[x]
    BY <1>9, <2>1, RemoveMemory DEF Kept
  <2>3. known' = known /\ dirty' = dirty \cup Changed \cup OldPart(tip')
    BY <1>9 DEF RemoveSubtree, Touched
  <2>4. OldPart(tip') \subseteq Blocks
        /\ \A x \in Blocks \ dirty' : x \in Ancestors[tip'] <=> x \in Ancestors[tip]
    BY <2>2, <2>3, <1>1, TreeFacts DEF OldPart, TypeOK
  <2>5. \A x \in Blocks \ Changed : level[x] <= level'[x]
    BY <2>2, <1>1 DEF Changed, TypeOK, Levels, VALID_UNKNOWN, CAN_BE_APPLIED
  <2> QED
    BY <2>2, <2>3, <2>4, <2>5, <1>1, <1>3
<1> QED
  BY <1>4, <1>5, <1>6, <1>7, <1>8, <1>9 DEF TouchBlocks, OnlyBlockReason

\* A switch of the active chain, a switch that failed or was refused, and a
\* comparison: every index whose BLOCK_ACTIVE is no longer what it was is dirty.
LEMMA SwitchStorage ==
    ASSUME OnlyBlockReason, StorageInv, NEW to \in Blocks,
           SwitchSetState(to) \/ RefusedSetState(to) \/ SwitchCompare(to),
           db' = db, dbTip' = dbTip
    PROVE  StorageInv'
<1> USE DEF StorageInv
<1>1. TypeOK /\ DbTypes /\ dirty \subseteq Blocks /\ Changed \subseteq Blocks
      /\ tip \in Blocks /\ Ancestors[tip] \subseteq Blocks /\ Ancestors[to] \subseteq Blocks
  BY TreeFacts DEF MemoryInv, DatabaseInv, DbTypes, Changed, TypeOK
<1>2. ASSUME Applicable(to), SetState(to) \/ CompareSuccessor(to) \/ CompareFork(to),
             NEW toggled \in SUBSET Blocks, Touched(toggled),
             tip' = to => OldPart(to) \cup Unapplied(to) \subseteq toggled
      PROVE  StorageInv'
  <2>1. PayloadsIndexExact'
    BY <1>2, PayloadsIndexStep DEF MemoryInv, MemoryShape, Next
  <2>2. /\ MemoryShape' /\ FailedDown' /\ FailedChildExact' /\ TypeOK' /\ ActiveChainValid'
        /\ BodiesInv' /\ known' = known
        /\ \A x \in Blocks : level[x] <= level'[x]
        /\ tip' = to \/ tip' = tip
    BY <1>2, SwitchMemory
  <2>3. dirty' = dirty \cup Changed \cup toggled
    BY <1>2 DEF Touched
  <2>4. \A x \in Blocks \ dirty' : x \in Ancestors[tip'] <=> x \in Ancestors[tip]
    BY <1>2, <2>2, <2>3 DEF OldPart, Unapplied
  <2>5. CleanRecorded'
    BY <1>1, <2>2, <2>3, <2>4, CleanKept DEF TypeOK
  <2>6. DatabaseInv'
    BY <1>1, <2>2, <2>3, DatabaseKept
  <2> QED
    BY <2>1, <2>2, <2>5, <2>6 DEF MemoryInv
<1>3. OldPart(to) \subseteq Blocks /\ Unapplied(to) \subseteq Blocks /\ BelowFailed(to) \subseteq Blocks
  BY <1>1 DEF OldPart, Unapplied, BelowFailed
<1>4. CASE SwitchSetState(to)
  BY <1>2, <1>3, <1>4 DEF SwitchSetState
<1>5. CASE RefusedSetState(to)
  <2>1. /\ UNCHANGED vars /\ dirty' = dirty \cup OldPart(to)
    BY <1>5 DEF RefusedSetState
  <2>2. /\ known' = known /\ inTree' = inTree /\ level' = level /\ popData' = popData
        /\ failedBlock' = failedBlock /\ failedPop' = failedPop /\ failedChild' = failedChild
        /\ payloadsIndex' = payloadsIndex /\ tips' = tips /\ tip' = tip
    BY <2>1 DEF vars, statusVars, payloadVars
  <2>3. MemoryInv'
    BY <2>2 DEF MemoryInv, MemoryShape, TypeOK, KnownClosed, TreeClosed, DeletedBare,
       UnraisedFailed, BodyNeedsLevel, FailedDown, FailedChildExact, ActiveChainValid,
       PayloadsIndexExact, isFailed
  <2>4. BodiesInv'
    BY <2>2 DEF BodiesInv, ConnectedBodies, NoDuplicateOnValidChain, isConnected
  <2>5. CleanRecorded'
    BY <2>1, <2>2 DEF CleanRecorded, Recorded, OnActiveChain
  <2>6. DatabaseInv'
    BY <1>1, <1>3, <2>1, <2>2, DatabaseKept
  <2> QED
    BY <2>3, <2>4, <2>5, <2>6
<1>6. CASE SwitchCompare(to)
  <2>1. CASE CompareSuccessor(to) /\ Touched(IF tip' = to THEN Unapplied(to) ELSE BelowFailed(to))
    <3>1. OldPart(to) = {}
      BY <2>1, TreeFacts DEF CompareSuccessor, OldPart
    <3>2. Applicable(to)
      BY <1>6 DEF SwitchCompare
    <3> QED
      BY <1>2, <1>3, <2>1, <3>1, <3>2
  <2>2. CASE /\ CompareFork(to)
             /\ \/ tip' = to /\ Touched(Unapplied(to) \cup OldPart(to))
                \/ tip' # to /\ Touched(Unapplied(to))
                \/ tip' # to /\ Touched(BelowFailed(to))
                \/ tip' # to /\ Touched(Unapplied(to) \cup OldPart(to))
    <3>1. Applicable(to)
      BY <1>6 DEF SwitchCompare
    <3> QED
      BY <1>2, <1>3, <2>2, <3>1
  <2> QED
    BY <1>6, <2>1, <2>2 DEF SwitchCompare
<1> QED
  BY <1>4, <1>5, <1>6

-----------------------------------------------------------------------------
(* Save and restart.                                                        *)

\* What toStoredBlockIndex writes.
LEMMA StoredFacts ==
    ASSUME TypeOK, NEW b \in Blocks
    PROVE  /\ Stored(b) \in Records /\ Stored(b) # NotStored
           /\ Stored(b).deleted <=> b \notin inTree
           /\ Stored(b).failedBlock <=> b \in failedBlock
           /\ Stored(b).failedPop <=> b \in failedPop
           /\ Stored(b).failedChild <=> b \in failedChild
           /\ Stored(b).active <=> OnActiveChain(b)
           /\ Stored(b).body = popData[b]
           /\ Stored(b).level = level[b]
<1>1. level[b] \in Levels /\ popData[b] \in PopDatas \cup {NoPopData}
  BY DEF TypeOK
<1>2. Stored(b) \in Records
  BY <1>1 DEF Stored, Records, OnActiveChain
<1>3. Stored(b) # NotStored
  BY <1>2, StorageAssumption DEF Records
<1> QED
  BY <1>2, <1>3 DEF Stored

\* saveTrees: the records that were not written again are still right, so the
\* database describes the whole tree as it is in memory.
LEMMA SaveStep ==
    ASSUME StorageInv, Save
    PROVE  StorageInv'
<1> USE TreeFacts DEF VALID_UNKNOWN, VALID_TREE, CONNECTED, CAN_BE_APPLIED, Levels
<1>1. TypeOK /\ DbTypes /\ MemoryInv /\ MemoryShape /\ DatabaseInv /\ CleanRecorded /\ BodiesInv
  BY DEF StorageInv, MemoryInv, DatabaseInv
<1>2. /\ known' = known /\ inTree' = inTree /\ level' = level /\ popData' = popData
      /\ failedBlock' = failedBlock /\ failedPop' = failedPop /\ failedChild' = failedChild
      /\ payloadsIndex' = payloadsIndex /\ tips' = tips /\ tip' = tip
      /\ dbTip' = tip /\ dirty' = {}
      /\ db' = [b \in Blocks |-> IF b \in Written THEN Stored(b) ELSE db[b]]
  BY DEF Save, vars, statusVars, payloadVars
<1>3. \A b \in Blocks : db'[b] = IF b \in dirty /\ b \in known THEN Stored(b) ELSE db[b]
  BY <1>2 DEF Written
<1>4. MemoryInv'
  BY <1>1, <1>2 DEF MemoryInv, MemoryShape, TypeOK, KnownClosed, TreeClosed, DeletedBare,
     UnraisedFailed, BodyNeedsLevel, FailedDown, FailedChildExact, ActiveChainValid,
     PayloadsIndexExact, isFailed
<1>5. BodiesInv'
  BY <1>1, <1>2 DEF BodiesInv, ConnectedBodies, NoDuplicateOnValidChain, isConnected
<1>6. ASSUME NEW b \in known
      PROVE  /\ db'[b] # NotStored
             /\ db'[b].deleted <=> b \notin inTree
             /\ db'[b].failedBlock <=> b \in failedBlock
             /\ db'[b].failedPop <=> b \in failedPop
             /\ db'[b].failedChild <=> b \in failedChild
             /\ db'[b].active <=> b \in Ancestors[tip]
             /\ db'[b].body = popData[b]
             /\ db'[b].level <= level[b]
             /\ b \in Ancestors[tip] => db'[b].level = 4
  <2>1. b \in Blocks /\ level[b] \in 0..4
    BY <1>1 DEF TypeOK
  <2>2. CASE b \in dirty
    <3>1. db'[b] = Stored(b)
      BY <2>1, <2>2, <1>3
    <3>2. b \in Ancestors[tip] => level[b] = 4
      BY <1>1 DEF MemoryInv, ActiveChainValid
    <3> QED
      BY <1>1, <2>1, <3>1, <3>2, StoredFacts DEF OnActiveChain
  <2>3. CASE b \notin dirty
    <3>1. db'[b] = db[b]
      BY <2>1, <2>3, <1>3
    <3> QED
      BY <1>1, <2>3, <3>1 DEF CleanRecorded, Recorded, OnActiveChain
  <2> QED
    BY <2>2, <2>3
<1>7. CleanRecorded'
  BY <1>2, <1>6 DEF CleanRecorded, Recorded, OnActiveChain
<1>8. \A b \in Blocks \ known : db'[b] = db[b] /\ (db'[b] = NotStored \/ db'[b].deleted)
  BY <1>1, <1>3 DEF DatabaseInv, ForgottenDeleted
<1>9. DbTypes'
  BY <1>1, <1>2, <1>3, StoredFacts DEF DbTypes, TypeOK
<1>10. ForgottenDeleted'
  BY <1>2, <1>8 DEF ForgottenDeleted
<1>11. RecordedBodyNeedsLevel'
  <2> SUFFICES ASSUME NEW b \in Blocks, db'[b] # NotStored, db'[b].body # NoPopData
               PROVE  db'[b].level >= 1
    BY DEF RecordedBodyNeedsLevel
  <2>1. CASE db'[b] = Stored(b)
    BY <2>1, <1>1, StoredFacts DEF MemoryShape, BodyNeedsLevel
  <2>2. CASE db'[b] = db[b]
    BY <2>2, <1>1 DEF DatabaseInv, RecordedBodyNeedsLevel
  <2> QED
    BY <2>1, <2>2, <1>3
<1>12. Loaded' = inTree
  BY <1>1, <1>6, <1>8 DEF Loaded, TypeOK
<1>13. \A b \in inTree : /\ b \in known /\ b \in Blocks /\ Ancestors[b] \subseteq inTree
                         /\ LoadedFailed(b)' <=> isFailed(b)
  BY <1>1, <1>6 DEF TypeOK, MemoryShape, TreeClosed, LoadedFailed, isFailed
<1>14. \A a \in Ancestors[tip] : a \in inTree /\ ~isFailed(a) /\ level[a] = 4
  BY <1>1 DEF MemoryInv, ActiveChainValid
<1>15. StoredShape'
  <2>1. \A b \in Loaded' : Ancestors[b] \subseteq Loaded'
    BY <1>12, <1>13
  <2>2. ASSUME NEW d \in inTree, NEW a \in Ancestors[d], a # d, LoadedFailed(a)'
        PROVE  db'[d].failedChild
    BY <2>2, <1>1, <1>6, <1>13 DEF MemoryInv, FailedDown
  <2>3. ASSUME NEW d \in inTree \ {Root}
        PROVE  db'[d].failedChild <=> LoadedFailed(Prev[d])'
    <3>1. Prev[d] \in inTree /\ d \in known
      BY <1>13, PrevFacts
    <3> QED
      BY <3>1, <1>1, <1>6, <1>13 DEF MemoryInv, FailedChildExact
  <2>4. \A a \in Ancestors[tip] : a \in inTree /\ ~LoadedFailed(a)' /\ db'[a].level = 4
    BY <1>6, <1>13, <1>14
  <2>5. \A b \in inTree : db'[b].active <=> b \in Ancestors[tip]
    BY <1>6, <1>13
  <2> QED
    BY <2>1, <2>2, <2>3, <2>4, <2>5, <1>2, <1>12 DEF StoredShape
<1>16. ASSUME NEW b \in inTree, LoadedLevel(b)' >= 2
       PROVE  level[b] >= 2
  <2>1. level[b] \in 0..4 /\ db'[b].level \in 0..4 /\ db'[b].level <= level[b]
    <3>1. db'[b] \in Records
      BY <1>6, <1>9, <1>13 DEF DbTypes
    <3> QED
      BY <3>1, <1>1, <1>6, <1>13 DEF Records, TypeOK
  <2>2. CASE b \in Ancestors[tip]
    BY <2>2, <1>14
  <2>3. CASE b \notin Ancestors[tip]
    BY <2>1, <2>3, <1>2, <1>12, <1>16 DEF LoadedLevel
  <2> QED
    BY <2>2, <2>3
<1>17. LeavesOnly => StoredBodies'
  <2> SUFFICES ASSUME LeavesOnly PROVE StoredBodies'
    OBVIOUS
  <2>1. ConnectedBodies /\ NoDuplicateOnValidChain
    BY <1>1 DEF BodiesInv
  <2>2. \A b \in inTree : \A a \in Ancestors[b] : db'[a].body = popData[a]
    BY <1>6, <1>13
  <2>3. ASSUME NEW b \in inTree, LoadedLevel(b)' >= 2, NEW a \in Ancestors[b] \ {Root}
        PROVE  db'[a].body # NoPopData
    BY <2>1, <2>2, <2>3, <1>16 DEF ConnectedBodies, isConnected
  <2>4. ASSUME NEW b \in inTree \ {Root}, LoadedLevel(b)' >= 2, ~db'[b].failedPop,
               NEW a \in Ancestors[Prev[b]]
        PROVE  IdsIn(db'[a].body) \cap IdsIn(db'[b].body) = {}
    <3>1. a \in Ancestors[b] /\ b \in Ancestors[b]
      BY <1>13, PrevFacts
    <3>2. isConnected(b) /\ b \notin failedPop
      BY <2>4, <1>6, <1>13, <1>16 DEF isConnected
    <3>3. IdsIn(popData[a]) \cap IdsIn(popData[b]) = {}
      BY <3>2, <2>1 DEF NoDuplicateOnValidChain
    <3> QED
      BY <3>1, <3>3, <2>2
  <2> QED
    BY <2>3, <2>4, <1>12 DEF StoredBodies, IdsIn
<1>18. DatabaseInv'
  <2>1. dbTip' # NotStored
    BY <1>1, <1>2, StorageAssumption DEF TypeOK
  <2> QED
    BY <2>1, <1>9, <1>10, <1>11, <1>15, <1>17 DEF DatabaseInv
<1> QED
  BY <1>4, <1>5, <1>7, <1>18 DEF StorageInv

\* The bootstrapped tree.
LEMMA InitMemory == Init => MemoryInv /\ BodiesInv
<1> SUFFICES ASSUME Init PROVE MemoryInv /\ BodiesInv
  OBVIOUS
<1>1. IInv
  BY InitIInv
<1>2. TreeClosed
  BY <1>1 DEF IInv, Shape, LevelsOrdered, TreeClosed
<1>3. PayloadsIndexExact
  BY TreeFacts DEF Init, PayloadsIndexExact, IdsIn
<1>4. ConnectedBodies /\ NoDuplicateOnValidChain
  BY TreeAssumption DEF Init, ConnectedBodies, NoDuplicateOnValidChain
<1> QED
  BY <1>1, <1>2, <1>3, <1>4 DEF IInv, Shape, Flags, MemoryInv, MemoryShape, BodiesInv

\* A restart that finds an empty database.
LEMMA RestartEmptyStep ==
    ASSUME StorageInv, RestartEmpty
    PROVE  StorageInv'
<1>1. Init'
  BY DEF RestartEmpty, Init
<1>2. (Init => MemoryInv /\ BodiesInv)'
  BY InitMemory, PTL
<1>3. MemoryInv' /\ BodiesInv'
  BY <1>1, <1>2
<1>4. /\ known' = {Root} /\ dirty' = {Root} /\ db' = db /\ dbTip' = dbTip /\ dbTip = NotStored
      /\ \A b \in Blocks : db[b] = NotStored
  BY DEF RestartEmpty, StorageInv, DatabaseInv
<1>5. CleanRecorded'
  BY <1>4 DEF CleanRecorded
<1>6. DatabaseInv'
  <2>1. DbTypes' /\ ForgottenDeleted' /\ RecordedBodyNeedsLevel'
    BY <1>4, TreeFacts DEF StorageInv, DatabaseInv, DbTypes, ForgottenDeleted,
                           RecordedBodyNeedsLevel
  <2> QED
    BY <1>4, <2>1 DEF DatabaseInv
<1> QED
  BY <1>3, <1>5, <1>6 DEF StorageInv

\* loadTrees: the tree it builds satisfies the invariant, although levels that were
\* raised after the last save are lost.
LEMMA RestartLoadStep ==
    ASSUME StorageInv, RestartLoad
    PROVE  StorageInv'
<1> USE TreeFacts DEF VALID_UNKNOWN, VALID_TREE, CONNECTED, CAN_BE_APPLIED, Levels
<1>1. /\ DatabaseInv /\ DbTypes /\ StoredShape /\ RecordedBodyNeedsLevel
      /\ LeavesOnly => StoredBodies
  BY DEF StorageInv, DatabaseInv, RestartLoad
<1>2. /\ known' = Loaded /\ inTree' = Loaded
      /\ level' = [b \in Blocks |-> LoadedLevel(b)]
      /\ failedBlock' = {b \in Loaded : db[b].failedBlock}
      /\ failedPop' = {b \in Loaded : db[b].failedPop}
      /\ failedChild' = {b \in Loaded : db[b].failedChild}
      /\ popData' = [b \in Blocks |-> IF b \in Loaded THEN db[b].body ELSE NoPopData]
      /\ payloadsIndex' = [i \in PayloadIds |-> {b \in Loaded : i \in IdsIn(db[b].body)}]
      /\ tips' = LoadedTips /\ tip' = dbTip /\ dirty' = {} /\ db' = db /\ dbTip' = dbTip
      /\ dbTip # NotStored
  BY DEF RestartLoad
<1>3. dbTip \in Blocks
  BY <1>1, <1>2 DEF DbTypes
<1>4. \A b \in Loaded : b \in Blocks /\ db[b] \in Records /\ db[b] # NotStored /\ ~db[b].deleted
  BY <1>1 DEF Loaded, DbTypes
<1>5. \A b \in Loaded : db[b].level \in 0..4 /\ db[b].body \in PopDatas \cup {NoPopData}
  BY <1>4 DEF Records
<1>6. \A a \in Ancestors[dbTip] :
          a \in Loaded /\ ~LoadedFailed(a) /\ ~db[a].failedPop /\ db[a].level = 4
  BY <1>1 DEF StoredShape, LoadedFailed
<1>7. /\ \A b \in Blocks : LoadedLevel(b) \in 0..4
      /\ \A b \in Loaded : db[b].level <= LoadedLevel(b)
      /\ \A b \in Loaded : LoadedLevel(b) = 0 => db[b].failedPop
      /\ \A b \in Blocks \ Loaded : LoadedLevel(b) = 0
      /\ \A b \in Ancestors[dbTip] : LoadedLevel(b) = 4
  BY <1>5, <1>6 DEF LoadedLevel
<1>8. \A b \in Loaded : LoadedFailed(b) <=> isFailed(b)'
  BY <1>2 DEF LoadedFailed, isFailed
<1>9. \A b \in Blocks : level'[b] = LoadedLevel(b)
  BY <1>2
<1>10. \A b \in Loaded : popData'[b] = db[b].body /\ \A a \in Ancestors[b] : a \in Loaded
  BY <1>1, <1>2, <1>4 DEF StoredShape
<1>11. TypeOK'
  <2>1. tips' \subseteq Blocks
    BY <1>2 DEF LoadedTips, tryAddTips
  <2>2. level' \in [Blocks -> Levels] /\ popData' \in [Blocks -> PopDatas \cup {NoPopData}]
    BY <1>2, <1>5, <1>7
  <2>3. payloadsIndex' \in [PayloadIds -> SUBSET Blocks]
    BY <1>2, <1>4
  <2> QED
    BY <1>2, <1>3, <1>4, <2>1, <2>2, <2>3 DEF TypeOK
<1>12. MemoryShape'
  <2>1. KnownClosed' /\ TreeClosed'
    BY <1>2, <1>10 DEF KnownClosed, TreeClosed
  <2>2. DeletedBare'
    BY <1>2, <1>7, <1>9 DEF DeletedBare
  <2>3. UnraisedFailed'
    BY <1>2, <1>4, <1>7, <1>9 DEF UnraisedFailed
  <2>4. BodyNeedsLevel'
    <3> SUFFICES ASSUME NEW b \in Blocks, popData'[b] # NoPopData PROVE LoadedLevel(b) >= 1
      BY <1>9 DEF BodyNeedsLevel
    <3>1. b \in Loaded /\ db[b].body # NoPopData
      BY <1>2
    <3>2. db[b].level >= 1
      BY <3>1, <1>1, <1>4 DEF RecordedBodyNeedsLevel
    <3> QED
      BY <3>1, <3>2, <1>5, <1>7
  <2> QED
    BY <2>1, <2>2, <2>3, <2>4 DEF MemoryShape
<1>13. FailedDown'
  BY <1>1, <1>2, <1>8, <1>10 DEF FailedDown, StoredShape
<1>14. FailedChildExact'
  <2> SUFFICES ASSUME NEW d \in Loaded \ {Root}
               PROVE  d \in failedChild' <=> isFailed(Prev[d])'
    BY <1>2 DEF FailedChildExact
  <2>1. Prev[d] \in Loaded
    BY <1>4, <1>10, PrevFacts
  <2> QED
    BY <2>1, <1>1, <1>2, <1>8 DEF StoredShape
<1>15. ActiveChainValid'
  BY <1>2, <1>3, <1>6, <1>7, <1>8, <1>9 DEF ActiveChainValid
<1>16. PayloadsIndexExact'
  <2> SUFFICES ASSUME NEW i \in PayloadIds
               PROVE  payloadsIndex'[i] = {x \in inTree' : i \in IdsIn(popData'[x])}
    BY DEF PayloadsIndexExact, IdsIn
  <2> QED
    BY <1>2, <1>10
<1>17. BodiesInv'
  <2> SUFFICES ASSUME LeavesOnly PROVE ConnectedBodies' /\ NoDuplicateOnValidChain'
    BY DEF BodiesInv
  <2>1. ConnectedBodies'
    BY <1>1, <1>2, <1>4, <1>9, <1>10 DEF ConnectedBodies, StoredBodies, isConnected
  <2>2. ASSUME NEW b \in Loaded \ {Root}, isConnected(b)', b \notin failedPop',
               NEW a \in Ancestors[Prev[b]]
        PROVE  IdsIn(popData'[a]) \cap IdsIn(popData'[b]) = {}
    <3>1. a \in Loaded /\ LoadedLevel(b) >= 2 /\ ~db[b].failedPop
      BY <2>2, <1>2, <1>4, <1>9, <1>10, PrevFacts DEF isConnected
    <3>2. IdsIn(db[a].body) \cap IdsIn(db[b].body) = {}
      BY <3>1, <1>1 DEF StoredBodies
    <3> QED
      BY <3>1, <3>2, <1>10
  <2> QED
    BY <2>1, <2>2, <1>2 DEF NoDuplicateOnValidChain, IdsIn
<1>18. CleanRecorded'
  <2> SUFFICES ASSUME NEW b \in Loaded PROVE Recorded(b)'
    BY <1>2 DEF CleanRecorded
  <2>1. b \in Blocks /\ db[b] # NotStored /\ ~db[b].deleted /\ popData'[b] = db[b].body
    BY <1>4, <1>10
  <2>2. db[b].active <=> b \in Ancestors[dbTip]
    BY <1>1 DEF StoredShape
  <2>3. db[b].level <= level'[b] /\ (b \in Ancestors[dbTip] => db[b].level = 4)
    BY <2>1, <1>6, <1>7, <1>9
  <2> QED
    BY <2>1, <2>2, <2>3, <1>2 DEF Recorded, OnActiveChain
<1>19. DatabaseInv'
  <2>1. DbTypes' /\ RecordedBodyNeedsLevel'
    BY <1>1, <1>2 DEF DbTypes, RecordedBodyNeedsLevel
  <2>2. ForgottenDeleted'
    BY <1>2 DEF ForgottenDeleted, Loaded
  <2>3. Loaded' = Loaded /\ \A b : LoadedFailed(b)' <=> LoadedFailed(b)
    BY <1>2 DEF Loaded, LoadedFailed
  <2>4. \A b : LoadedLevel(b)' = LoadedLevel(b)
    BY <1>2, <2>3 DEF LoadedLevel
  <2>5. StoredShape' /\ (LeavesOnly => StoredBodies')
    BY <1>1, <1>2, <2>3, <2>4 DEF StoredShape, StoredBodies, IdsIn
  <2> QED
    BY <2>1, <2>2, <2>5, <1>2 DEF DatabaseInv
<1> QED
  BY <1>11, <1>12, <1>13, <1>14, <1>15, <1>16, <1>17, <1>18, <1>19 DEF StorageInv, MemoryInv

-----------------------------------------------------------------------------
(* The theorems.                                                            *)

\* StorageInv holds in every state, whatever operations, saves and crashes came
\* before.
THEOREM StorageInvariant ==
    ASSUME OnlyBlockReason
    PROVE  StorageSpec => []StorageInv
<1>1. ASSUME StorageInit PROVE StorageInv
  <2>1. MemoryInv /\ BodiesInv
    BY <1>1, InitMemory DEF StorageInit
  <2>2. known = {Root} /\ dirty = {Root} /\ db = [b \in Blocks |-> NotStored] /\ dbTip = NotStored
    BY <1>1 DEF StorageInit, Init
  <2>3. CleanRecorded
    BY <2>2 DEF CleanRecorded
  <2>4. DatabaseInv
    BY <2>2, TreeFacts DEF DatabaseInv, DbTypes, ForgottenDeleted, RecordedBodyNeedsLevel
  <2> QED
    BY <2>1, <2>3, <2>4 DEF StorageInv
<1>2. ASSUME StorageInv, [StorageNext]_allVars PROVE StorageInv'
  <2>1. CASE Operate
    BY <1>2, <2>1, TouchStep, SwitchStorage DEF Operate
  <2>2. CASE Save \/ RestartEmpty \/ RestartLoad
    BY <1>2, <2>2, SaveStep, RestartEmptyStep, RestartLoadStep
  <2>3. CASE UNCHANGED allVars
    <3>1. UNCHANGED <<known, inTree, level, failedBlock, failedPop, failedChild, popData,
                      payloadsIndex, tips, tip, dirty, db, dbTip>>
      BY <2>3 DEF allVars, storageVars, vars, statusVars, payloadVars
    <3>2. MemoryInv'
      BY <1>2, <3>1 DEF StorageInv, MemoryInv, MemoryShape, TypeOK, KnownClosed, TreeClosed,
         DeletedBare, UnraisedFailed, BodyNeedsLevel, FailedDown, FailedChildExact,
         ActiveChainValid, PayloadsIndexExact, isFailed
    <3>3. BodiesInv'
      BY <1>2, <3>1 DEF StorageInv, BodiesInv, ConnectedBodies, NoDuplicateOnValidChain, isConnected
    <3>4. CleanRecorded'
      BY <1>2, <3>1 DEF StorageInv, CleanRecorded, Recorded, OnActiveChain
    <3>5. DatabaseInv'
      BY <1>2, <3>1, DatabaseKept DEF StorageInv, DatabaseInv, DbTypes
    <3> QED
      BY <3>2, <3>3, <3>4, <3>5 DEF StorageInv
  <2> QED
    BY <1>2, <2>1, <2>2, <2>3 DEF StorageNext
<1> QED
  BY <1>1, <1>2, PTL DEF StorageSpec

\* What a save skips was written before: an index without the dirty flag is in the
\* database as it is in memory, but for its level.
THEOREM CleanTheorem ==
    ASSUME OnlyBlockReason
    PROVE  StorageSpec => []CleanMatchesDb
<1>1. ASSUME StorageInv PROVE CleanMatchesDb
  <2> SUFFICES ASSUME NEW b \in known \ dirty
               PROVE  db[b] # NotStored /\ WithoutLevel(db[b]) = WithoutLevel(Stored(b))
    BY DEF CleanMatchesDb
  <2>1. Recorded(b) /\ TypeOK /\ DbTypes /\ b \in Blocks
    BY <1>1 DEF StorageInv, CleanRecorded, MemoryInv, DatabaseInv, TypeOK
  <2>2. db[b] # NotStored
    BY <2>1 DEF Recorded
  <2>3. db[b] \in Records
    BY <2>1, <2>2 DEF DbTypes
  <2>4. /\ db[b].deleted = (b \notin inTree) /\ db[b].failedBlock = (b \in failedBlock)
        /\ db[b].failedPop = (b \in failedPop) /\ db[b].failedChild = (b \in failedChild)
        /\ db[b].active = OnActiveChain(b) /\ db[b].body = popData[b]
    BY <2>1, <2>3 DEF Recorded, Records, OnActiveChain
  <2>5. WithoutLevel(db[b]) = WithoutLevel(Stored(b))
    BY <2>3, <2>4 DEF WithoutLevel, Stored, Records
  <2> QED
    BY <2>2, <2>5
<1> QED
  BY <1>1, StorageInvariant, PTL

\* Every database that saveTrees has written is one that loadTrees accepts, after
\* any number of crashes and restarts, when payloads leave connected leaves only.
THEOREM LoadTheorem ==
    ASSUME OnlyBlockReason, LeavesOnly
    PROVE  StorageSpec => []LoadSucceeds
<1>1. ASSUME StorageInv PROVE LoadSucceeds
  <2> SUFFICES ASSUME dbTip # NotStored PROVE LoadAccepts
    BY DEF LoadSucceeds
  <2>1. StoredShape /\ StoredBodies /\ dbTip \in Blocks
    BY <1>1 DEF StorageInv, DatabaseInv, DbTypes
  <2>2. Root \in Ancestors[dbTip] /\ dbTip \in Ancestors[dbTip]
    BY <2>1, TreeFacts
  <2>3. \A b \in Loaded \ {Root} : Prev[b] \in Loaded
    <3> SUFFICES ASSUME NEW b \in Loaded \ {Root} PROVE Prev[b] \in Loaded
      OBVIOUS
    <3>1. b \in Blocks /\ Ancestors[b] \subseteq Loaded
      BY <2>1 DEF StoredShape, Loaded
    <3> QED
      BY <3>1, PrevFacts
  <2> QED
    BY <2>1, <2>2, <2>3 DEF LoadAccepts, StoredShape, StoredBodies
<1> QED
  BY <1>1, StorageInvariant, PTL

=============================================================================
