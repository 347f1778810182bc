--------------------------- MODULE PopStateMachine ---------------------------
(***************************************************************************)
(* How the payloads of altchain blocks are applied to the protecting VBK    *)
(* tree: PopStateMachine (pop_state_machine.hpp), the comparator that       *)
(* drives it (PopAwareForkResolutionComparator, fork_resolution.hpp) and    *)
(* the commands it executes (addblock.hpp, addendorsement.hpp).             *)
(*                                                                          *)
(* The operations that switch the active chain, one step in AltBlockTree,   *)
(* are runs of small steps here, one per command.  The tree operations that *)
(* leave the active chain alone are those of AltBlockTree.                  *)
(*                                                                          *)
(* a and b of `sm` are the last applied blocks of the chain that was active *)
(* when the operation began (A) and of the chain it moves to (B).           *)
(***************************************************************************)
EXTENDS AltBlockTree, Sequences, FiniteSets

CONSTANTS
    VbkBlocks,
    VbkRoot,        \* the bootstrap block of the VBK tree
    VbkPrev,        \* parent of every VBK block but VbkRoot
    Commands,       \* body -> the commands of its payloads, in execution order
    EndorsementSettlementInterval

\* AddBlock(vbk) of a VBK context block or of the block of proof of an ATV, and
\* AddAltEndorsement(endorsed, vbk) of the ATV with that id.
CommandSet ==
    [op : {"AddBlock"}, vbk : VbkBlocks]
      \cup [op : {"AddEndorsement"}, vbk : VbkBlocks, endorsed : Blocks, id : PayloadIds]

ASSUME VbkAssumption ==
    /\ VbkRoot \in VbkBlocks
    /\ VbkPrev \in [VbkBlocks \ {VbkRoot} -> VbkBlocks]
    /\ Commands \in [PopDatas -> Seq(CommandSet)]
    /\ EndorsementSettlementInterval \in Nat

\* acceptBlock asserts checkPopDataForDuplicates: no ATV is twice in a body.
ASSUME DistinctAtvs ==
    \A p \in PopDatas : \A i, j \in DOMAIN Commands[p] :
        /\ Commands[p][i].op = "AddEndorsement" /\ Commands[p][j].op = "AddEndorsement"
        /\ Commands[p][i].id = Commands[p][j].id
        => i = j

VARIABLES
    refs,               \* _refCount of each VBK block; 0: not in the VBK tree
    endorsements,       \* blockOfProofEndorsements of the VBK blocks
    active,             \* the blocks flagged BLOCK_ACTIVE
    appliedBlockCount,
    sm,                 \* the operation in progress
    job,                \* the block that is being applied or unapplied
    saved               \* the tree as it was when the operation began

protectingVars == <<refs, endorsements>>
appliedVars == <<active, appliedBlockCount>>
runVars == <<protectingVars, appliedVars, sm, job, saved>>
allVars == <<vars, runVars>>

NoJob  == [mode |-> "none"]
Idle   == [phase |-> "idle"]
NoSnapshot == [taken |-> FALSE]

idle == sm = Idle

-----------------------------------------------------------------------------
(* The protecting tree.                                                     *)

InVbkTree(v) == refs[v] > 0

CommandsOf(b) == IF popData[b] = NoPopData THEN <<>> ELSE Commands[popData[b]]

\* AddBlock::Execute accepts the header of a block that is not in the VBK tree yet,
\* which needs its parent (acceptBlockHeader).
CanAddBlock(v) == InVbkTree(v) \/ InVbkTree(VbkPrev[v])

\* AddEndorsement::Execute in block b.
CanAddEndorsement(b, c) ==
    /\ c.endorsed \in inTree \cap Ancestors[b]
    /\ Height[b] - Height[c.endorsed] <= EndorsementSettlementInterval
    /\ InVbkTree(c.vbk)

CanExecute(b, c) ==
    IF c.op = "AddBlock" THEN CanAddBlock(c.vbk) ELSE CanAddEndorsement(b, c)

Endorsement(b, c) ==
    [containing |-> b, endorsed |-> c.endorsed, vbk |-> c.vbk, id |-> c.id]

addRef(v) == refs' = [refs EXCEPT ![v] = @ + 1]

\* A VBK block that loses its last reference leaves the tree (removeLeaf).
removeRef(v) == refs' = [refs EXCEPT ![v] = @ - 1]

Execute(b, c) ==
    IF c.op = "AddBlock"
      THEN addRef(c.vbk) /\ UNCHANGED endorsements
      ELSE endorsements' = endorsements \cup {Endorsement(b, c)} /\ UNCHANGED refs

UnExecute(b, c) ==
    IF c.op = "AddBlock"
      THEN removeRef(c.vbk) /\ UNCHANGED endorsements
      ELSE endorsements' = endorsements \ {Endorsement(b, c)} /\ UNCHANGED refs

-----------------------------------------------------------------------------
(* applyBlock and unapplyBlock, command by command.  `done` counts the      *)
(* executed commands of the block.                                          *)

startApply(b) ==
    /\ job' = [mode |-> "apply", block |-> b, done |-> 0]
    /\ UNCHANGED <<vars, protectingVars, appliedVars, sm, saved>>

startUnapply(b) ==
    /\ job' = [mode |-> "unapply", block |-> b, done |-> Len(CommandsOf(b))]
    /\ UNCHANGED <<vars, protectingVars, appliedVars, sm, saved>>

\* Mutant: the commands before the one that fails are not rolled back.
ExecuteCommandHalf ==
    /\ job.mode = "apply"
    /\ job.done < Len(CommandsOf(job.block))
    /\ LET c == CommandsOf(job.block)[job.done + 1]
       IN  IF CanExecute(job.block, c)
             THEN Execute(job.block, c) /\ job' = [job EXCEPT !.done = @ + 1]
             ELSE UNCHANGED protectingVars /\ job' = [job EXCEPT !.mode = "abort", !.done = 0]
    /\ UNCHANGED <<vars, appliedVars, sm, saved>>

ExecuteCommand ==
    /\ job.mode = "apply"
    /\ job.done < Len(CommandsOf(job.block))
    /\ LET c == CommandsOf(job.block)[job.done + 1]
       IN  IF CanExecute(job.block, c)
             THEN Execute(job.block, c) /\ job' = [job EXCEPT !.done = @ + 1]
             ELSE UNCHANGED protectingVars /\ job' = [job EXCEPT !.mode = "abort"]
    /\ UNCHANGED <<vars, appliedVars, sm, saved>>

\* Mutant: the commands are taken back in the order they were executed.
UnExecuteCommandForward ==
    /\ job.mode \in {"unapply", "abort"}
    /\ job.done > 0
    /\ UnExecute(job.block, CommandsOf(job.block)[Len(CommandsOf(job.block)) - job.done + 1])
    /\ job' = [job EXCEPT !.done = @ - 1]
    /\ UNCHANGED <<vars, appliedVars, sm, saved>>

UnExecuteCommand ==
    /\ job.mode \in {"unapply", "abort"}
    /\ job.done > 0
    /\ UnExecute(job.block, CommandsOf(job.block)[job.done])
    /\ job' = [job EXCEPT !.done = @ - 1]
    /\ UNCHANGED <<vars, appliedVars, sm, saved>>

\* Mutant: the other applied chain is not noticed.
LevelOnApplyNoCount(b) ==
    IF ~isFailed(Prev[b]) /\ level[Prev[b]] >= CAN_BE_APPLIED
      THEN CAN_BE_APPLIED ELSE MAYBE_WITH_OTHER

\* applyBlock's verdict: the block is alone on its ancestors, or it was applied
\* together with another chain.
LevelOnApply(b) ==
    IF /\ ~isFailed(Prev[b]) /\ level[Prev[b]] >= CAN_BE_APPLIED
       /\ Height[b] = Height[Root] + appliedBlockCount
      THEN CAN_BE_APPLIED ELSE MAYBE_WITH_OTHER

\* The last applied block of the chain the current phase works on is now x.
Moved(x) ==
    IF sm.phase \in {"unapplyOld", "reapplyOld"}
      THEN [sm EXCEPT !.a = x] ELSE [sm EXCEPT !.b = x]

BlockApplied ==
    /\ job.mode = "apply"
    /\ job.done = Len(CommandsOf(job.block))
    /\ level' = Raised({job.block}, LevelOnApply(job.block))
    /\ active' = active \cup {job.block}
    /\ appliedBlockCount' = appliedBlockCount + 1
    /\ sm' = Moved(job.block)
    /\ job' = NoJob
    /\ UNCHANGED <<known, inTree, failedBlock, failedPop, failedChild, payloadVars,
                   tips, tip, protectingVars, saved>>

BlockUnapplied ==
    /\ job.mode = "unapply"
    /\ job.done = 0
    /\ active' = active \ {job.block}
    /\ appliedBlockCount' = appliedBlockCount - 1
    /\ sm' = Moved(Prev[job.block])
    /\ job' = NoJob
    /\ UNCHANGED <<vars, protectingVars, saved>>

\* Mutants: the block is tried again; the block is not flagged.
BlockRetried ==
    /\ job.mode = "abort"
    /\ job.done = 0
    /\ job' = NoJob
    /\ UNCHANGED <<vars, protectingVars, appliedVars, sm, saved>>
BlockUnflagged ==
    /\ job.mode = "abort"
    /\ job.done = 0
    /\ sm' = [sm EXCEPT !.phase = "undoNew"]
    /\ job' = NoJob
    /\ UNCHANGED <<vars, protectingVars, appliedVars, saved>>

\* A command failed, the ones before it are rolled back: the block is invalid,
\* and so is the operation.
BlockRefused ==
    /\ job.mode = "abort"
    /\ job.done = 0
    /\ UNCHANGED <<known, inTree, level, payloadVars, tip, protectingVars,
                   appliedVars, saved>>
    /\ \E x \in Blocks : x = job.block /\ InvalidateValid(x, "POP")
    /\ sm' = [sm EXCEPT !.phase = "undoNew"]
    /\ job' = NoJob

-----------------------------------------------------------------------------
(* The operations: from one block to the next.                              *)

getForkBlock(x, y) ==
    CHOOSE f \in Ancestors[x] \cap Ancestors[y] :
        \A c \in Ancestors[x] \cap Ancestors[y] : c \in Ancestors[f]

\* The block after x on the chain of y.
Successor(x, y) == CHOOSE n \in Ancestors[y] \ {Root} : Prev[n] = x

Begin(phase, to, then, block, reason) ==
    /\ sm' = [phase |-> phase, to |-> to, fork |-> getForkBlock(tip, to), a |-> tip,
              b |-> getForkBlock(tip, to), then |-> then, block |-> block,
              reason |-> reason]
    /\ saved' = [taken |-> TRUE, level |-> level, failedPop |-> failedPop,
                 failedChild |-> failedChild, tips |-> tips]
    /\ UNCHANGED <<vars, protectingVars, appliedVars, job>>

\* AltBlockTree::setState; a call for the current tip returns at once.
BeginSetState(to) ==
    /\ idle /\ setStateContract(to) /\ to # tip
    /\ Begin("unapplyOld", to, "switch", to, "none")

\* AltBlockTree::comparePopScore.
BeginCompare(B) ==
    /\ idle /\ compareContract(B)
    /\ tip \in Ancestors[B] \/ CrossesKeystone(B)
    /\ Begin("applyNew", B, "switch", B, "none")

\* invalidateSubtree and removeSubtree of an active block call setState for its
\* parent first.
BeginInvalidate(x, r) ==
    /\ idle /\ x \in inTree \ {Root} /\ OnActiveChain(x) /\ x \notin FlagSet(r)
    /\ r = "BLOCK"
    /\ Begin("unapplyOld", Prev[x], "invalidate", x, r)

BeginRemove(x) ==
    /\ idle /\ x \in inTree \ {Root} /\ OnActiveChain(x)
    /\ Begin("unapplyOld", Prev[x], "remove", x, "none")

GoTo(phase) ==
    /\ sm' = [sm EXCEPT !.phase = phase]
    /\ UNCHANGED <<vars, protectingVars, appliedVars, job, saved>>

EndRun == sm' = Idle /\ saved' = NoSnapshot /\ UNCHANGED <<protectingVars, appliedVars, job>>

\* The chain of `to` is the only applied one: the tip moves (overrideTip), and
\* the operation that asked for it does the rest.
Complete ==
    /\ EndRun
    /\ \/ sm.then = "switch" /\ tip' = sm.to
          /\ UNCHANGED <<statusVars, payloadVars, tips>>
       \/ /\ sm.then = "invalidate"
          /\ \E x \in Blocks, r \in ExternalReasons :
                x = sm.block /\ r = sm.reason /\ InvalidateSubtree(x, r)
       \/ sm.then = "remove" /\ \E x \in Blocks : x = sm.block /\ RemoveSubtree(x)

UnapplyOld ==
    /\ sm.phase = "unapplyOld"
    /\ IF sm.a # sm.fork THEN startUnapply(sm.a)
       ELSE IF sm.b = sm.to THEN Complete
       ELSE IF isValid(sm.to) THEN GoTo("applyNew")
       ELSE GoTo("reapplyOld")

ApplyNew ==
    /\ sm.phase = "applyNew"
    /\ IF sm.b # sm.to THEN startApply(Successor(sm.b, sm.to))
       ELSE IF sm.a = sm.fork THEN Complete
       ELSE GoTo("decide")

\* comparePopScoreImpl on the two reduced publication views: its result is
\* left open.
Decide ==
    /\ sm.phase = "decide"
    /\ \/ GoTo("undoNew")
       \/ GoTo("trimNew")

\* The part of B that never was applied alone is unapplied before A is.
TrimNew ==
    /\ sm.phase = "trimNew"
    /\ IF sm.b # sm.fork /\ ~(~isFailed(sm.b) /\ level[sm.b] >= CAN_BE_APPLIED)
         THEN startUnapply(sm.b)
         ELSE GoTo("unapplyOld")

\* Mutant: the part of B that was applied before the failure stays applied.
UndoNothing == sm.phase = "undoNew" /\ GoTo("reapplyOld")

UndoNew ==
    /\ sm.phase = "undoNew"
    /\ IF sm.b # sm.fork THEN startUnapply(sm.b) ELSE GoTo("reapplyOld")

ReapplyOld ==
    /\ sm.phase = "reapplyOld"
    /\ IF sm.a # tip THEN startApply(Successor(sm.a, tip))
                     ELSE EndRun /\ UNCHANGED vars

Step ==
    \/ ExecuteCommand
    \/ UnExecuteCommand
    \/ BlockApplied
    \/ BlockUnapplied
    \/ BlockRefused
    \/ job = NoJob /\ (UnapplyOld \/ ApplyNew \/ Decide \/ TrimNew \/ UndoNew \/ ReapplyOld)

-----------------------------------------------------------------------------
(* Tree operations that do not touch the active chain.                      *)

TreeOperation ==
    /\ idle
    /\ UNCHANGED runVars
    /\ \/ \E b \in Blocks : AcceptBlockHeader(b)
       \/ \E b \in Blocks, p \in PopDatas : AcceptBlock(b, p)
       \/ \E b \in Blocks : RemovePayloads(b)
       \/ \E b \in Blocks, r \in ExternalReasons :
             ~OnActiveChain(b) /\ InvalidateSubtree(b, r)
       \/ \E b \in Blocks, r \in ExternalReasons : RevalidateSubtree(b, r)
       \/ \E b \in Blocks : ~OnActiveChain(b) /\ RemoveSubtree(b)

SMInit ==
    /\ Init
    /\ refs = [v \in VbkBlocks |-> IF v = VbkRoot THEN 1 ELSE 0]
    /\ endorsements = {}
    /\ active = {Root}
    /\ appliedBlockCount = 1
    /\ sm = Idle
    /\ job = NoJob
    /\ saved = NoSnapshot

SMNext ==
    \/ TreeOperation
    \/ \E b \in Blocks : BeginSetState(b)
    \/ \E b \in Blocks : BeginCompare(b)
    \/ \E b \in Blocks, r \in ExternalReasons : BeginInvalidate(b, r)
    \/ \E b \in Blocks : BeginRemove(b)
    \/ Step

\* An operation is a function call: once begun it runs to its end.
SMSpec == SMInit /\ [][SMNext]_allVars /\ WF_allVars(Step)

-----------------------------------------------------------------------------
(* Properties.                                                              *)

Phases == {"unapplyOld", "applyNew", "decide", "trimNew", "undoNew", "reapplyOld"}

\* The values the variables take.
SMTypeOK ==
    /\ TypeOK
    /\ refs \in [VbkBlocks -> Nat]
    /\ endorsements \subseteq
          [containing : Blocks, endorsed : Blocks, vbk : VbkBlocks, id : PayloadIds]
    /\ active \subseteq Blocks
    /\ appliedBlockCount \in Nat
    /\ idle \/ /\ sm.phase \in Phases
               /\ {sm.to, sm.fork, sm.a, sm.b, sm.block} \subseteq Blocks
    /\ job = NoJob \/ /\ job.block \in Blocks \ {Root}
                      /\ job.done \in 0 .. Len(CommandsOf(job.block))

\* The commands that have been executed and not taken back, as positions in the
\* bodies of blocks.
Executed ==
    LET whole == {x \in active : job = NoJob \/ job.block # x}
        part  == IF job = NoJob THEN {} ELSE {<<job.block, i>> : i \in 1 .. job.done}
    IN  (UNION {{<<x, i>> : i \in DOMAIN CommandsOf(x)} : x \in whole}) \cup part

CommandAt(e) == CommandsOf(e[1])[e[2]]

\* The VBK tree holds the effects of the executed commands and nothing else, at
\* every moment of every switch, after any number of failed ones: a reference per
\* AddBlock, an endorsement per AddAltEndorsement.
ProtectingStateExact ==
    /\ \A v \in VbkBlocks :
          refs[v] = Cardinality({e \in Executed : CommandAt(e).op = "AddBlock"
                                                    /\ CommandAt(e).vbk = v})
                      + (IF v = VbkRoot THEN 1 ELSE 0)
    /\ endorsements = {Endorsement(e[1], CommandAt(e)) :
                         e \in {x \in Executed : CommandAt(x).op = "AddEndorsement"}}

\* removeLeaf asserts that a VBK block that loses its last reference has no
\* children left, assertBlockCanBeRemoved that nothing endorses through it.
VbkTreeClosed ==
    /\ \A v \in VbkBlocks \ {VbkRoot} : InVbkTree(v) => InVbkTree(VbkPrev[v])
    /\ \A e \in endorsements : InVbkTree(e.vbk)

\* The applied blocks are the chains of a and b, never a chain with a hole, and
\* between operations exactly the active chain; appliedBlockCount counts them
\* (setState and comparePopScore assert it on entry and on exit).
AppliedExact ==
    /\ active = IF idle THEN Ancestors[tip] ELSE Ancestors[sm.a] \cup Ancestors[sm.b]
    /\ appliedBlockCount = Cardinality(active)

\* "state corruption: failed to rollback the state", "chainA as a former best
\* chain should be valid": the old chain can always be applied again, whatever
\* the failed candidate did to the VBK tree.
RollbackSucceeds == sm.phase = "reapplyOld" => job.mode # "abort"

Positions(b) == UNION {{<<d, i>> : i \in DOMAIN CommandsOf(d)} : d \in Ancestors[b]}

Before(e, f) == Height[e[1]] < Height[f[1]] \/ (e[1] = f[1] /\ e[2] < f[2])

\* VBK block v is there once the commands at the positions S have been executed.
Provided(v, S) ==
    v = VbkRoot \/ \E e \in S : CommandAt(e).op = "AddBlock" /\ CommandAt(e).vbk = v

\* The command at f executes after those at the positions S.
Supported(f, S) ==
    LET c == CommandAt(f)
    IN  IF c.op = "AddBlock"
          THEN c.vbk = VbkRoot \/ Provided(VbkPrev[c.vbk], S)
          ELSE /\ Provided(c.vbk, S)
               /\ c.endorsed \in Ancestors[f[1]]
               /\ Height[f[1]] - Height[c.endorsed] <= EndorsementSettlementInterval

\* The commands of the chain of b come in an order in which they execute on the
\* bootstrapped VBK tree, with no other chain applied.
AppliesAlone(b) ==
    \A f \in Positions(b) : Supported(f, {e \in Positions(b) : Before(e, f)})

\* BLOCK_CAN_BE_APPLIED keeps its promise: the chain of such a block is valid on
\* its own.  A block that was applied beside another chain must not get it, nor
\* keep it when bodies below it change.
CanBeAppliedAlone ==
    \A b \in inTree : level[b] = CAN_BE_APPLIED => AppliesAlone(b)

\* A switch ends: every command is executed or taken back a bounded number of
\* times and the old chain is reached again when the new one fails.
OperationEnds == (~idle) ~> idle

\* AltBlockTree, with the tree as it was before the operation while one runs.
Abs == INSTANCE AltBlockTree WITH
         level       <- IF idle THEN level ELSE saved.level,
         failedPop   <- IF idle THEN failedPop ELSE saved.failedPop,
         failedChild <- IF idle THEN failedChild ELSE saved.failedChild,
         tips        <- IF idle THEN tips ELSE saved.tips

\* Every operation takes effect at its end or not at all, as AltBlockTree says:
\* "either changes the state to 'to' or leaves it unchanged" (setState).
ImplementsAltBlockTree == Abs!Spec
=============================================================================
