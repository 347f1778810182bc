# A TLA+ model of alt-integration-cpp

alt-integration-cpp is the library an altchain embeds to inherit the security of
Bitcoin through VeriBlock ("proof of proof", PoP). Every altchain block may carry
PoP payloads. Applying a block means executing its payloads on a tree of VeriBlock
(VBK) blocks, and a fork of the altchain is resolved by comparing how early the two
branches were published in VBK. This directory holds a TLA+ model of the core of the
library, its TLC runs and TLAPS proofs. Paths below are relative to the repository.

## 1. Inventory

| component | state | operations | correct when |
|---|---|---|---|
| `BaseBlockTree`, `BlockIndex` (`base_block_tree.hpp`, `block_index.hpp`) | `blocks_`, per block a status word (validity level, FAILED_BLOCK, FAILED_POP, FAILED_CHILD, DELETED, HAS_PAYLOADS, ACTIVE), `tips_`, `activeChain_` | insert header, remove/invalidate/revalidate subtree, override tip, finalize | flags, levels and tips agree with the shape of the tree after any sequence of calls |
| `AltBlockTree` (`alt_block_tree.cpp`) | the above, and `payloadsIndex_` | acceptBlockHeader, acceptBlock, removePayloads, setState, comparePopScore, finalizeBlocks, load | bodies may arrive in any order; no payload twice on a chain; the active chain is valid |
| `PopStateMachine` and the comparator (`pop_state_machine.hpp`, `fork_resolution.hpp`) | BLOCK_ACTIVE flags, `appliedBlockCount` | applyBlock, unapplyBlock, apply, unapply, unapplyWhile, setState, comparePopScore | a switch is all or nothing; the protecting tree holds the effects of the applied blocks and nothing else |
| commands (`commands/*.hpp`, `command_group.hpp`) | reference counts and endorsements of VBK blocks, VTBs | Execute, UnExecute | UnExecute in reverse order undoes Execute |
| PoP score (`comparePopScoreImpl`, `getKeystoneContext`) | local | one call per fork resolution | same winner on every node |
| `VbkBlockTree`, BTC tree (`vbk_block_tree.cpp`, `blocktree.hpp`) | as `BaseBlockTree`; VTB ids per VBK block, references by height per BTC block, deferred fork resolution | addPayloads, unsafelyRemovePayload, fork resolution and its deferral | two altchain branches may share payloads; the verdict on a payload follows from the applied payloads |
| `MemPool` (`mempool.cpp`, `mempool_block_tree.cpp`) | relations, payload maps, payloads in flight, temporary trees | submit, generatePopData, removeAll, cleanUp, clear | what it generates connects to the tip; nothing is lost |
| storage (`storage/util.*`) | dirty flags, the database | saveTrees, loadTrees | a restart gives the saved tree |
| `PopValidator` (`pop_stateless_validator.cpp`, `thread_pool/`) | a queue per worker thread, futures | checkPopData, addCheck, work stealing | the verdict does not depend on scheduling; every check ends |
| stateless validation, cryptography, rewards, serialization, bindings | none | pure functions | |

Interactions are nested calls: `AltBlockTree` owns the comparator, which owns the VBK
tree and drives it through commands; commands call `acceptBlockHeader` and
`removeLeaf` of the VBK tree; the state machine calls back into the altchain tree
(`invalidateSubtree`) when a block fails; `invalidateSubtree` and `removeSubtree` of
an active block call `setState`. Apart from `PopValidator` the library is
single threaded.

What is hard here is not concurrency but long sequences of legal calls on state
that is patched incrementally (flags, tips, payload index, counters), partial
failure with rollback in the middle of a switch, two chains applied at once
during fork resolution, and a crash between two saves. The one component with threads
is `PopValidator`. The list of hazards, each at its line, is in `PROJECT.json`.

## 2. Modules

| module | models | composed from |
|---|---|---|
| `Keystones` | `isCrossedKeystoneBoundary` | |
| `AltBlockTree` | the altchain block tree, one action per public operation | `Keystones` |
| `PopStateMachine` | a chain switch command by command, with the VBK tree it works on | extends `AltBlockTree`, and implements it |
| `PopScore` | the loop of `comparePopScoreImpl`, one step per iteration | |
| `PopScoreMirror` | the same with the chains exchanged | instantiates `PopScore` |
| `KeystoneContext` | `getKeystoneContext`, one step per visited block of proof | |
| `TreeStorage` | dirty flags, saves, crash and load of the altchain tree | extends `AltBlockTree` |
| `VbkBlockTree` | VBK blocks, VTBs, the BTC tree and deferred fork resolution, driven by altchain branches | `Keystones` |
| `Finalization` | `finalizeBlocks` on the altchain tree and what depends on it | |
| `MemPool` | the mempool with its temporary trees | |
| `PopValidator` | `checkPopData` and the thread pool | |
| `MC...` | instances for TLC | |
| `...Proofs` | theorems about the module of that name | |

### AltBlockTree

Blocks are a fixed universe of headers; a header fixes parent, ancestors and height.
The status word is split: `level` is the validity level, `failedBlock`, `failedPop`
and `failedChild` the sets of blocks with each flag. `known` are the allocated
indices; `inTree` those without BLOCK_DELETED (a removed index stays allocated and
keeps its FAILED flags). `popData` is the body (HAS_PAYLOADS), `payloadsIndex` is
`payloadsIndex_`, `tips` is `tips_`, `tip` the end of `activeChain_`.

| action | code |
|---|---|
| `AcceptBlockHeader` | `acceptBlockHeader`, `insertBlockHeader`, `createBlockIndex`, `restore` |
| `AcceptBlock` | `acceptBlock`, `setPayloads`, `connectBlock` of the block and of the descendants that waited for it, `hasStatefulDuplicates` |
| `RemovePayloads` | `removePayloads`, `removeAllPayloads` |
| `InvalidateSubtree`, `RevalidateSubtree`, `RemoveSubtree` | the functions of those names, with the inner `setState` |
| `SetState` | `setState`, `overrideTip` |
| `CompareSuccessor`, `CompareFork` | `comparePopScore`; the result of the score is left open |

Arguments obey the assertions on the arguments of an operation; every other
assertion of the code is a property. One of them does fail: `HeaderAborts` is the case in
which `acceptBlockHeader` fails the assertion of `raiseValidity` (`block_index.hpp:202`).
The process ends there, so the action has no step, and `HeaderAbortsOnFailedOnly` says
exactly when that happens. Whether the payloads of a block apply is a free
choice here. `updateTips` calls `AltBlockTree::determineBestChain`, which does
nothing in this tree, so it has no counterpart.

### PopStateMachine

An operation that switches the chain is a run of small steps. `sm` holds the phase
(`unapplyOld`, `applyNew`, `decide`, `trimNew`, `undoNew`, `reapplyOld`), the goal,
the fork block, and the last applied blocks `a`, `b` of the two chains; `job` is the
block that is being applied or unapplied and the number of executed commands. The
protecting tree is reduced to what the commands touch: `refs` counts the references
of each VBK block (0: not in the tree) and `endorsements` holds the applied ones, each
with its id: no ATV is twice in a body (`DistinctAtvs`, asserted by `acceptBlock`).
`AddBlock` needs the parent VBK block; `AddAltEndorsement` needs the endorsed block
on the chain, within the settlement interval, and its block of proof in the VBK tree.
Which chain has the better score is left open (`Decide`). `saved` is a history
variable: the tree as it was when the operation began, used by the refinement
mapping only.

### PopScore, KeystoneContext

The two views start at the same keystone (asserted by the code), so a view is the
sequence of first publication heights, `NO_ENDORSEMENT` for a keystone without one.
`KeystoneContext` visits the blocks of proof in any order, because the code iterates
over a `std::set` of pointers.

### TreeStorage

`AltBlockTree` with four more variables: `dirty`, the database `db` and `dbTip`, and a
counter for the bound. Every operation of the tree is taken over (`TouchBlocks`,
`SwitchSetState`, `RefusedSetState`, `SwitchCompare`) together with the indices whose
dirty flag it sets: setFlag, unsetFlag, restore, deleteTemporarily and the setters of
payloads set it, raiseValidity and lowerValidity do not, and a switch that is reverted
has toggled BLOCK_ACTIVE and dirtied indices that look unchanged. `Save` is
`saveTrees` and the commit of the batch, which the altchain makes atomic;
`RestartLoad` (or `RestartEmpty`, before the first save) is a crash at any moment
followed by `bootstrap`, `loadBlockForward` of every stored block by height, and
`loadTip`. What the load asserts or refuses is `LoadAccepts`. Where `connectBlock` would fail
its assertion (`Connectable` is false) `acceptBlock` has no step.

`removeAllPayloads` says that it removes payloads "only from connected leaves", but checks
the immediate descendants alone. With `LeavesOnly` the altchain keeps to the rule
(`ConnectedLeaf`, no connected descendant at all); section 6 says what happens if it does
not.

### VbkBlockTree

One record `vbk` holds the tree: reference counts, the VTB ids of each block in order,
the best tip, and for each BTC block the number of references by height. `ok` becomes
FALSE when an assertion fails. The altchain is reduced to command sequences: `main` is
applied, `rival` is the branch that is being applied. The phases of `op` follow
`setState` and `comparePopScore`: `BeginSetState`, `BeginCompare`, `Beside` (the
candidate is applied beside the active chain), `Decide`, `Trim` (`unapplyWhile`),
`Clear`, `Apply`, `Finish` (`continueForkResolution`), and after a failure `Drop`,
`Redo` and `Override` (`overrideDeferredForkResolution`). Commands are `AddVbkBlock`
and `AddVtb`, undone by `RemoveVbkBlock` and `RemoveVtb`. Which of two VBK chains has
the better score is left open, and tips are resolved in any order (`tips_` is a hash
set). A VBK chain that does not apply counts as a failed assertion: the code relies on
there being none.

### Finalization

The tree of `AltBlockTree` reduced to what finalization reads: allocated blocks,
failed blocks, `tips_`, the active chain from `root` to `tip`, dirty indices, the
`finalized` marks and the keys of `finalizedPayloadsIndex_`. `finalizeBlocks` and
`finalizeBlockImpl` are operators that return the set of outcomes, one for each order in
which `erase_if` may visit `tips_`. `SetState`, `InvalidateActive` and the two steps of
`filterInvalidPayloads` finalize, `ComparePopScore` does not (it moves the tip through
the comparator), `Save` clears the dirty flags. The bootstrap block is finalized from the start.

### MemPool

`pool` is the mempool: the relations (VBK blocks with their ATVs and VTBs), the stored
payloads, the payloads in flight and the blocks of the temporary trees; `chain` is the
active altchain as a sequence of bodies, from which the stable VBK and BTC trees
follow. Actions are `SubmitVbkBlock`, `SubmitVtb`, `SubmitAtv`, `GeneratePopData`
(`tryConnectPayloads`, `filterInvalidPayloads`, `cleanUp`), `CleanUp`, `Clear`,
`MineGenerated` and `ReceiveBlock` (a block becomes the tip and `removeAll` is called)
and `DisconnectTip` (a reorganisation, of which the pool is not told). A payload has a
`Size` in bytes; `canFit` is the check of `CountingContext`, on the number of payloads of a
kind and on the bytes of the whole body, and `Applies` the one of `checkPopData`, with
`estimateSize` of the finished body. `cleanUp` erases
ATVs from a set while it iterates over it, which is undefined behaviour: the model
removes at least one and any others. `ValueSortedMap` is modelled as the code has it, a
map and a sequence in which a value is found by its height alone.

### PopValidator

One caller and `Threads` workers. `Begin`, `AddCheck`, `AllPosted`, `GetResult` and
`End` are `checkPopData`; `Own`, `Steal` and `Execute` a worker's loop; `Restart` is
`stop` and `start`. A task is a check number and a position, so that tasks left behind
by a check that returned early are told apart from those of the next one. Such a task holds a
reference to a payload that may be gone (undefined behaviour): it may find anything
(`Results`). `popData.checked` belongs to an object, so a body that was checked once is either
taken as checked (the object or a copy) or checked again (parsed anew). The limits per
kind and on bytes are one limit here; `MemPool` has them apart.

## 3. Runs

| run | states | shows |
|---|---|---|
| `alt_tree` | 147 thousand | the tree invariants, for every order of operations |
| `pop_sm` | 292 thousand | atomicity, exact rollback, termination, refinement |
| `pop_score` | 123 thousand | winner, early exits, symmetry, independence of the visiting order |
| `storage` | 574 thousand | the database always loads and says what memory says |
| `vbk_tree` | 398 thousand | shared VBK blocks and VTBs, exact VBK and BTC state, what a verdict depends on |
| `finalization` | 69 thousand | the tree stays whole and final blocks stay active |
| `mempool` | 148 thousand | generated bodies connect, nothing is left out or lost |
| `validator` | 93 thousand | verdicts, termination, queue limits |
| `storage_abort`, `vtb_order`, `finalized_index`, `in_flight` | violations | see section 6 |

**Properties.** `alt_tree`: `FailedChildExact` (a block is FAILED_CHILD exactly when
its parent has failed), `TipsExact` (the patched `tips_` are the valid tips),
`LevelsDescend` (from BLOCK_CONNECTED on no block is on a higher level than its ancestors,
so `connectBlock` and `applyBlock` never fail the assertion of `raiseValidity`),
`HeaderAbortsOnFailedOnly` (`acceptBlockHeader` does fail it, at a child of a block that
failed its payloads, was removed and came back, and nowhere else), `ActiveChainValid`,
`AppliedNeverFailedPop`, `ConnectedExact`, `PayloadsIndexExact`, `NoDuplicateOnValidChain`.

`pop_sm`: `ProtectingStateExact` (at every moment the VBK tree holds exactly the
effects of the executed commands), `VbkTreeClosed`, `AppliedExact`,
`RollbackSucceeds` (the old chain always applies again), `CanBeAppliedAlone`
(BLOCK_CAN_BE_APPLIED keeps its promise although blocks are also tried beside
another chain), `OperationEnds` and `ImplementsAltBlockTree`.

`pop_score`: `EndorsedWins`, `EarlyExitSound`, `EarliestOfVisited`, `Symmetric`.

`storage`: `LoadSucceeds` (whatever was saved and whenever the crash comes, the load
finds parents, a valid tip and BLOCK_ACTIVE as it will set it), `CleanMatchesDb` (an
index that a save skips is stored as it is, but for its level), and `TipsExact` again, now
with a tree that may come from the database.

`vbk_tree`: `AssertionsHold`, `ChainsApply` (every VBK chain applies from the root,
whichever was active while its VTBs came and went), `VbkStateExact` (VTBs and BTC
references are those of the applied branches), `VerdictExact` (whether a command is accepted
follows from the commands that are applied, and not from this node's VBK tip,
although a VTB is validated by visiting its chain), `RefusedBesideAtLimit` (the commands that
are applied include those of the active chain while a candidate is tried beside it; the
one thing they can spoil is the limit of VTBs per VBK block), `FailedSwitchRestores`. `VerdictExact`
and `RefusedBesideAtLimit` together say how far nodes agree on which altchain blocks fail: up to that limit.

`finalization`: `TreeIntact`, `FinalStaysActive`, `UnsavedActiveKept`,
`NoFalseDuplicate` (no payload of a lost branch is refused on a chain that may win).

`mempool`: `GeneratedApplies` (what was generated passes the limits of `checkPopData` and
executes on the tip), `NoAtvLeftOut` (`generatePopData`, called in any state, leaves an ATV out
only if it, or a VBK block it needs, does not fit), `NoPayloadLost` (what leaves the
relations and the payloads in flight was mined, expired or too old; a payload that is merely
stored cannot be mined and does not count as kept).

`validator`: `CheckExact` (no result of an abandoned task answers for a payload of a later
check), `CheckEnds`, `FullOfAbandoned` (a queue that can take a full
PopData overflows only with tasks of an abandoned check).

Each property has a mutant of the model that breaks it.

**Bounds.** `alt_tree` has a chain of three blocks on the root, a fourth beside it and
one payload id: the smallest tree with a fork and with a failed block between a failed
one and a third, where the traversals have to stop, and with the same payload on one
chain and on two. `pop_sm` has a chain of two blocks with a third beside it, three VBK
blocks, and four bodies, so that a body may depend on a VBK block brought by its parent,
by the other chain, or by nobody, and an endorsement may be of a block on the wrong
chain or too old. `pop_score` has views of up to three keystones over four heights and
NO_ENDORSEMENT with finality delay 2 and a table of length 2: differences inside the
table, beyond it but within the delay (as with the parameters of the library), and
beyond both; and keystone contexts over four heights and three timestamps.
`storage` has a chain of two blocks and a third beside it, at most two operations
between saves (`MaxUnsaved`; a stale record needs one operation after a save) and one
subtree at a time that the altchain has invalidated or removed (`MaxMarked`); saves and
crashes are not bounded. `storage_abort` has a chain of three blocks. `vbk_tree` has a chain of three VBK blocks, one of them brought
by the altchain, with a fourth beside it, two BTC blocks and four VTBs: two fill the
same VBK block, one needs the BTC block of another, one comes too late for it; up to
four commands on a branch (`MaxCommands`). `finalization` has a chain of five blocks, a
branch of two that leaves it early and a block beside its end that repeats a payload of
a block that may be deallocated; one block of reorganisation and one preserved block.
`mempool` has three VBK blocks, two VTBs of which one needs the other, and two ATVs in
the same VBK block, the limits on VTBs and on bytes small enough to be hit (one VTB and both
ATVs are too large for one body), and an altchain of up to two blocks. `validator` has two workers, a queue of two, four checks (`MaxChecks`) of a
valid, a duplicate, two invalid and one too large PopData: enough for abandoned tasks of
two checks to fill a queue.

**Deadlock** is checked except in `pop_score`, which models functions that return, and
in `validator`, which stops when all checks are made or the program has aborted.

**Fairness.** Weak fairness of `Step` in `PopStateMachine`: the next step of an
operation that has begun. An operation is a function call in one thread, so it goes
on until it returns. Nothing is assumed about the altchain's calls. In `PopValidator`,
weak fairness of the caller within a check and of each worker: threads are scheduled by
the system, and a worker that found no task looks again after a millisecond.

**Refinement.** `ImplementsAltBlockTree` maps the tree variables to their value
before the operation while one runs: every switch takes effect in one step, at its
end, as `SetState`, `CompareSuccessor`, `CompareFork`, `InvalidateSubtree` or
`RemoveSubtree` of `AltBlockTree`, or leaves the tree unchanged.

## 4. Proofs

All theorems hold for every value of the constants that satisfies the named
assumptions: `TreeAssumption` (the ancestors form chains from the root),
`HeightAssumption`, `PopDataAssumption`, `ReasonAssumption`; for the score
`ScoreAssumption` (NO_ENDORSEMENT lies further from every publication height than
the finality delay and the table reach, and the first score is positive); for the VBK
tree `VbkChainAssumption` and `VtbAssumption` (a VTB brings at least one BTC block, its
block of proof, and no block twice); for the mempool `MemPoolAssumption`
(a VTB endorses a block no later than the one it is in, settlement intervals are
positive, an empty PopData fits).

**The tree** (`AltBlockTreeProofs`), when the altchain invalidates blocks for consensus reasons only (`OnlyBlockReason`; with
BLOCK_FAILED_POP from outside, the early return of `invalidateSubtree` breaks
`FailedChildExact`, see section 6). The invariant is `IInv`. `FailedChildExact`
speaks of parent and child; the traversals of `invalidateSubtree` and
`revalidateSubtree` stop at failed blocks, and to know that nothing below such a
block was missed the invariant has to say it of all ancestors (`FailedDown`). It
further says that deleted indices are bare (`DeletedBare`), that a block below
VALID_TREE has failed its payloads (`UnraisedFailed`), that bodies need a level
(`BodyNeedsLevel`) and that the allocated blocks are closed under ancestors
(`KnownClosed`). One lemma per action shows that it is kept. The tip set, the payload
index and the absence of duplicates are proved on top of it. `LevelsDescend` and
`HeaderAbortsOnFailedOnly` are two sides of one invariant (`LevelsOrdered`, `UnraisedFailed`, `BodyNeedsLevel`):
levels descend but where a block is below VALID_TREE, such a block has failed its
payloads and has no body, and its children are the headers that abort.

**The state machine** (`PopStateMachineProofs`), under `OnlyBlockReason`, for any altchain, any VBK tree, any bodies and any settlement interval.
The invariant is `SMInv`, in two halves.

* `ControlInv`: `IInv` of the tree at every command and not only between operations; where
  the two chains of an operation stand (`Paths`: they part at the fork, `a` is on the old
  one and `b` on the new one); what each phase relies on (`PhaseInv`); which block a job may
  be at work on (`JobInv`); and the applied blocks with their count (`AppliedExact`).
  The conjunct of `PhaseInv` that took finding is about blocks applied while
  the old chain is gone: they are BLOCK_CAN_BE_APPLIED, so `unapplyWhile` and the second
  application of a won comparison never meet a block validated with help only.
* `VbkInv`: `ProtectingStateExact` says what the VBK tree is, not that the commands will
  succeed again. For this `ExecutedSupported` says of every executed command that what it
  needs (the parent VBK block, or the block of proof) comes from
  commands before it on its own chain, or from the old chain as long as that is applied as
  a whole. With `CanBeAppliedAlone` it is inductive: a block raised to CAN_BE_APPLIED was
  supported by its own chain.

`VbkTreeClosed`, `AppliedExact`, `RollbackSucceeds` and `CanBeAppliedAlone` follow. The
argument about counts of references is that removing the last reference of a VBK block
removes the last command that brings it, so no executed command leans on it.

**The refinement** (also there): `SMSpec` implements `AltBlockTree` under
the mapping of section 3. `SMInv` does not speak of `saved`; `RefInv` does: it says how the
tree differs from the saved one in each phase. Levels have been raised on the new
chain from the fork to `b` (`Reached`), to CAN_BE_APPLIED if the old chain was gone;
no flag has changed until a block is refused; and after a refusal (`Outcome`) the
flags are those of one invalidation at that block (`Refused`). The step that ends the operation is then
one of the abstract actions, every other step a stutter.

**The validator** (`PopValidatorProofs`): `CheckExact` for any number of workers, any queue
size, any payloads, any number of checks and whatever an abandoned task reads, and `FullOfAbandoned` when a queue can take a
full PopData (`MaxPayloads <= QueueSize`,
`pop_stateless_validator.cpp:71`). `ValidatorInv` says
that the tasks in queues and workers were posted, that none is anywhere twice, and
that one a finished check left behind belongs to a PopData with an invalid payload; and that
the results of the check under way are right (`ResultInv`).
A queue overflows only if it holds a task of another check, and by the last part that check
failed.

**The score** (`PopScoreProofs`): type correctness; the loop on exchanged chains is the
same loop (a refinement by `Mirror`); a published chain beats an unpublished one; early
exits do not change the winner; and `getKeystoneContext` finds the earliest publication in
any order of visits. For the published chain, `WinsInv` says that the chains score alike
until the first publication is reached, and that from then on the unpublished chain is
outside finality and behind. For the exits, `ExitInv` says that the loop is where the
loop without exits is (`Unexited`, a recursive function of the keystone) until it ends; a
chain that is outside finality scores no more, so the leader at the exit stays the leader.
That the recursive function exists and obeys its equation is proved by a least
counterexample, since the induction theorems of the library cannot be instantiated here.

**Storage** (`TreeStorageProofs`), under `OnlyBlockReason`: `CleanMatchesDb`; and with
`LeavesOnly` also `LoadSucceeds`. `IInv` does not hold of a loaded
tree: levels are stored stale, so they need not descend along a chain. `StorageInv` keeps
what survives: the shape of the tree, the flags, the valid active chain and the payload
index (`MemoryInv`), and of `ConnectedExact` one direction, a connected block stands on
bodies (`BodiesInv`). The same is said of the records the database holds (`StoredShape`,
`StoredBodies`), and `CleanRecorded` ties the two: an index that is not dirty agrees
with its record, with a level at least as high. `BodiesInv` is what needs `LeavesOnly`.

**Finalization** (`FinalizationProofs`): `TreeIntact`, `FinalStaysActive`,
`UnsavedActiveKept` and `NoFalseDuplicate`, for any tree, any preserved and reorganisation
distances and every order in which `erase_if` visits `tips_`. `FinalizationInv` says that
everything in memory descends from the root (`Rooted`), that the blocks between the root
and an allocated block are allocated (`PathsAllocated`), that the tip and its ancestors have
not failed, that `tips_` are leaves, and where final blocks and final payloads are:
on the active chain (`FinalOnChain`), or, for the payloads, in a block that was
deallocated below the root and is an ancestor of all that is left (`FinalIdsOnChain`).
The last is why a payload of the final index is never one of a lost branch. The loop over
`tips_` is a fold over an arbitrary order; the invariant of the loop is that the
allocated blocks stay closed towards the new root and that the active chain is untouched.

**The VBK tree** (`VbkBlockTreeProofs`): `VbkStateExact`, for any VBK and BTC trees, any
VTBs, any scores, and every order of tips and of commands. `VbkInv` has three parts. `Exact`
says of a tree that the references of a BTC block at a height are those which the VTBs of
the active VBK chain make there; `Carries` says that the VBK references and the VTBs are
those of the commands of `main` and of `rival`, counted; `Saved` says the same of the tree an
operation has put aside. The effect of each loop is a lemma: a BTC block changes one
counter, a VTB the counters of its context, a VBK block those of its VTBs, a switch those
of the blocks between the fork and the two tips, so `SetVbkState` keeps `Exact` and nothing
else of the tree matters to it. From `VbkInv` alone, `FailedSwitchRestores` follows for
behaviours in which no assertion fails (`FailedSwitchIsUndone`): once one has failed the flag
`ok` is not restored, and an assertion can fail, see `vtb_order` in section 6.

`AssertionsHold`, `ChainsApply`, `VerdictExact`, `RefusedBesideAtLimit`, and with them `FailedSwitchRestores` without a
hypothesis on the assertions, are proved under two conditions on the VTBs, which are
hypotheses of the theorems and not assumptions of the model. `ContextsLinked`: the BTC blocks
of a VTB are a chain. `checkBtcBlocks` demands it of the context
(`stateless_validation.cpp:241`); no stateless check links the block of proof to it.
`VtbsIndependent`: no VTB needs a BTC block that comes with its own VBK block. Nothing in the
code demands it, and the run `vtb_order`, where it fails, refutes `ChainsApply`. TLC
evaluates both on each instance (`InstanceAssumption` of `MCVbkBlockTree`). The invariant is
`ValidInv`: the sequence `main \o rival` satisfies `AppliesAlone`, the old chain that an
operation would go back to does too, what is left of it is a prefix, and once the candidate
is trimmed it also applies on the commands below the fork alone, which is why commands of
the old chain can be undone from under it (`AppliesMiddle`). `Sound` says of the tree that no
assertion has failed and that every VTB is `Supported`: a VTB of a block on the same chain
brings what its context needs, and by `VtbsIndependent` of an earlier block. So a BTC block
that a switch takes away is always a leaf (`BtcClosed`), in whatever order blocks and
VTBs come back. `ExecuteSound` and `UnExecuteSound` carry `Sound` through each command, and show
that a command is accepted exactly when it `FollowsOn` the applied ones: `Carries` makes the
tree a function of the commands, up to order and tip, and acceptance asks for neither. For
`RefusedBesideAtLimit` the commands of the active chain above the fork are put between those
below it and the candidate: each condition of `FollowsOn` but the limit is kept when
commands are added before it.

**The mempool** (`MemPoolProofs`): `NoPayloadLost` and `NoAtvLeftOut` for any VTBs, ATVs, fees,
sizes and limits, and any altchain, and `GeneratedApplies` when no kind of payload may occur
256 times in a body (`ShortLimits`; section 6 says what happens otherwise). `PoolInv` says
that the relations hold the payloads of their block, and that a generated body applies to
the tip it was generated for. The work is in `generatePopData`: the loops of
`tryConnectPayloads` and `filterInvalidPayloads` keep `AppliesUpTo`, which says of the part of
the body that was already looked at what `Applies` says of the whole body. `NoAtvLeftOut` uses
that the VBK blocks are collected in ascending order and that what does not fit a body does not
fit a larger one: the context of a connectable ATV was added before it (`ContextReached`) unless
one of its blocks did not fit, and then it does not fit in the end either. For
`NoPayloadLost` each operation `Keeps` the payloads within reach but the ones that are
`Droppable` on the chain after the step.

**Model-checked only**: the liveness properties `OperationEnds` and `CheckEnds` (fairness
is out of the prover's reach); `TipsExact` of a tree that was loaded (proved for trees that
were not).

## 5. Not modelled

* `getProtoKeystoneContext`, the choice of the endorsements that publish a keystone, and
  the command CheckPublicationData, a stateless check of bytes.
* Saving, loading and finalization of the VBK and BTC trees: they go through the same
  templates as the altchain tree, with other hooks. The public `removePayloads` of the
  VBK tree, which only tests call.
* Two altchain processes on one database, and a batch that is committed in part: the
  storage belongs to the altchain.
* Proof of work, difficulty, cryptography, stateless validation of single payloads,
  serialization, rewards: pure functions on bytes or big numbers, out of TLC's reach.
* The C, Python and Go bindings, tools and vendored code. A large part of the
  repository's lines is of these two kinds: tables and code of ProgPoW (the DAG seeds and
  sizes alone are a third of all lines), the Bitcoin serialization and the bindings.

## 6. Disagreements between code and comments

Each of the first four is a run that TLC refutes.

* `storage_abort`: headers A1, A2, A3 and the body of A2 are saved; the body of A1 then
  connects A1 and A2, and the body of A3 connects A3. `raiseValidity` sets no dirty flag,
  so the next save writes A1 and A3 and not A2. After a restart A3 is connected and its
  parent is not (`block_index.hpp:141` defines A2 as connected). `setState(A3)` passes its
  own assertion "must be connected" (`alt_block_tree.cpp:612`) and then fails the one of
  `applyBlock`, "attempted to apply an unconnected block" (`pop_state_machine.hpp:96`).
* `vtb_order`: a VBK block holds the VTBs Y, Z, Y, where Z needs the BTC block that Y
  brings and the second Y comes from a branch applied beside. `removePayloadId` erases
  the first Y; Z, Y does not apply when the VBK chain is left and visited again, against
  `vbk_block_tree.cpp:194`. In `vbk_tree` no VTB needs another one of the same VBK block,
  and `ChainsApply` holds.
* `finalized_index`: when the final block moves by more than the preserved blocks at
  once, the blocks in between are deallocated before the loop that marks predecessors
  gets to them. Their payloads are in neither index and pass as new.
* `in_flight`: `ValueSortedMap` finds values by comparator, that is by height. Inserting
  again or erasing one payload in flight removes the first one of that height from the
  sorted set; another one is then never retried.

Observations made while modelling, without a run of their own:

* In the loaded tree of `storage_abort`, `allDescendantsUnconnected`
  (`block_index.hpp:306`) looks at immediate descendants only, so the payloads of A1 may be
  removed under A3, which is connected, because A2 between them is not, although the message at
  `alt_block_tree.cpp:451` speaks of connected leaves. The body of A1 then fails the
  assertion "block %s must not be connected" (`alt_block_tree.cpp:251`), and on a longer
  chain the database can become one that the load refuses. The call is legal to the code, so
  "no body aborts on a loaded tree" is not a property of this program and none is claimed; the
  theorem `LoadTheorem` and the run `storage` assume `LeavesOnly`, which excludes it.
* A block that failed its payloads, was removed with `removeSubtree` (which keeps
  FAILED_POP) and comes back stays below VALID_TREE; the header of its child then trips
  the assertion of `raiseValidity` (`block_index.hpp:202`). `HeaderAbortsOnFailedOnly` says that
  this is the only such case. If FAILED_POP is revalidated
  and the block invalidated again, its descendants are not flagged, against
  `base_block_tree.hpp:284`.
* An endorsed keystone followed by one without endorsement puts the chain outside
  finality, although `fork_resolution.hpp:364` says only existing endorsements are
  compared.
* `filterInvalidPayloads` finalizes through its temporary block, one block earlier than
  the tip alone would.
* An unsaved side branch holds the final block back once; its tip is erased from `tips_`
  in the same step, so the next finalization deallocates the branch unsaved
  (`base_block_tree.hpp:928`).
* A check that fails early leaves its tasks in the queues of the validator (`clear` is
  empty); they hold references to the caller's PopData, and together with a later check
  they can fill a queue, which aborts (`pop_stateless_validator.cpp:102`).
* The limit of VTBs per VBK block counts those of two branches, duplicates too
  (`vbk_block_tree.cpp:276`). A candidate that is valid alone can therefore be refused beside
  the active chain, and `applyBlock` makes that final (FAILED_POP,
  `pop_state_machine.hpp:126`): a node that had another chain active accepts the same block.
  `RefusedBesideAtLimit` says that nothing else does this. A save between the two branches would trip the assertion in `validateBlockIndex` (`storage/util.cpp:138`).
* `CountingContext::canFitSize` takes the counts before a payload is added
  (`counting_context.hpp:60`). The 256th payload of a kind makes its count one byte longer, so a
  body that just fits can be one byte too large, and `assertPopDataFits` aborts
  (`mempool_block_tree.cpp:51`). The default limit of ATVs is 1000.
* `doUpdateTips` iterates over `tips_` while fork resolution may change it.
* `cleanUp` of the mempool erases from the set it iterates over (`mempool.cpp:105`), a
  payload that is submitted twice is listed twice in its relation, and the order of the
  ATVs of a relation depends on the tree and is not restored when the tree changes.

## 7. Plan

Done: all modules of section 2, model-checked; every component that is modelled has a
proof module, and every safety property of a run is proved but for those section 4 lists.

Next, in this order:

1. `TipsExact` of loaded trees, the last property of `TreeStorage` without a proof.
2. `getProtoKeystoneContext`, and the VBK tree in `TreeStorage`.
