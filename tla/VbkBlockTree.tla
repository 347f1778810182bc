---------------------------- MODULE VbkBlockTree ----------------------------
(***************************************************************************)
(* The tree of VBK blocks and its payloads, the VTBs (vbk_block_tree.cpp,   *)
(* blocktree.hpp), with the BTC tree the VTBs work on and the deferral of   *)
(* fork resolution (base_block_tree.hpp).                                   *)
(*                                                                          *)
(* The VBK tree is driven by the altchain's state machine: the commands     *)
(* AddVbkBlock and AddVTB of applied altchain blocks, undone in reverse.    *)
(* Which of two VBK chains has the better score is left open.  VBK chains   *)
(* that do not apply would be flagged BLOCK_FAILED_POP; the code relies on  *)
(* there being none, and so does the model: `ok` becomes FALSE instead.     *)
(***************************************************************************)
EXTENDS Keystones, Sequences, SequencesExt, FiniteSets

CONSTANTS
    VbkBlocks, VbkRoot, VbkPrev, VbkAncestors, VbkHeight,
    VbkBase,             \* the VBK blocks that were bootstrapped
    VbkKeystoneInterval,
    MaxReorgBlocks,
    BtcBlocks, BtcRoot, BtcPrev,
    Vtbs,
    Containing,          \* VTB -> its containing VBK block
    Endorsed,            \* VTB -> the VBK block it endorses
    BtcContext,          \* VTB -> its BTC context and block of proof, in order
    SettlementInterval,
    MaxVtbs,             \* MAX_VBKPOPTX_PER_VBK_BLOCK
    MaxCommands          \* bound: commands of an altchain above the bootstrap

ASSUME VbkAssumption ==
    /\ IsFiniteSet(VbkBlocks)
    /\ VbkRoot \in VbkBase /\ VbkBase \subseteq VbkBlocks
    /\ VbkPrev \in [VbkBlocks \ {VbkRoot} -> VbkBlocks]
    /\ VbkAncestors \in [VbkBlocks -> SUBSET VbkBlocks]
    /\ VbkHeight \in [VbkBlocks -> Nat]
    /\ \A v \in VbkBase : VbkAncestors[v] \subseteq VbkBase

\* The ancestors of a block are a chain from the root.
ASSUME VbkChainAssumption ==
    /\ VbkAncestors[VbkRoot] = {VbkRoot}
    /\ \A v \in VbkBlocks \ {VbkRoot} :
          /\ VbkAncestors[v] = VbkAncestors[VbkPrev[v]] \cup {v}
          /\ VbkHeight[v] = VbkHeight[VbkPrev[v]] + 1
    /\ \A v \in VbkBlocks :
          /\ VbkRoot \in VbkAncestors[v]
          /\ \A a \in VbkAncestors[v] : VbkAncestors[a] \subseteq VbkAncestors[v]
          /\ \A a, b \in VbkAncestors[v] : a \in VbkAncestors[b] <=> VbkHeight[a] <= VbkHeight[b]
          /\ \A h \in VbkHeight[VbkRoot] .. VbkHeight[v] :
                \E a \in VbkAncestors[v] : VbkHeight[a] = h

ASSUME VtbAssumption ==
    /\ Containing \in [Vtbs -> VbkBlocks \ {VbkRoot}]
    /\ Endorsed \in [Vtbs -> VbkBlocks]
    /\ BtcPrev \in [BtcBlocks \ {BtcRoot} -> BtcBlocks]
    /\ BtcRoot \in BtcBlocks
    /\ Vtbs \cap VbkBlocks = {}
    /\ \A y \in Vtbs : /\ BtcContext[y] \in Seq(BtcBlocks \ {BtcRoot}) /\ Len(BtcContext[y]) > 0
                       /\ \A i, j \in DOMAIN BtcContext[y] : BtcContext[y][i] = BtcContext[y][j] => i = j
    /\ MaxVtbs \in Nat /\ MaxCommands \in Nat /\ MaxReorgBlocks \in Nat

\* The BTC block that the context of y connects to.
BtcNeed(y) == BtcPrev[Head(BtcContext[y])]

\* The BTC blocks of a VTB are a chain.  checkBtcBlocks demands it of the context; that
\* the block of proof comes next is up to who made the VTB.
ContextsLinked ==
    \A y \in Vtbs : \A i \in 2 .. Len(BtcContext[y]) :
        BtcPrev[BtcContext[y][i]] = BtcContext[y][i - 1]

\* No VTB needs a BTC block that comes with its own VBK block.
VtbsIndependent ==
    \A y, z \in Vtbs : Containing[y] = Containing[z] => BtcNeed(y) \notin ToSet(BtcContext[z])

VARIABLES
    vbk,       \* the VBK tree: refs (0: not in the tree), ids (the VTBs of each
               \*   block, in order), tip; btc, the references of each BTC block
               \*   by height; ok, FALSE once an assertion has failed
    deferred,  \* isUpdateTipsDeferred
    main,      \* the commands of the applied altchain
    rival,     \* the commands of the branch that is being applied
    op         \* the altchain operation: its phase and what it must restore

vbkVars == <<vbk, deferred, main, rival, op>>

-----------------------------------------------------------------------------
(* The BTC tree.                                                            *)

Heights == {VbkHeight[v] : v \in VbkBlocks}

InBtc(s, c) == \E h \in Heights : s.btc[c][h] > 0

\* validateBTCContext: the BTC block that the context connects to is referenced
\* by the containing block or an earlier one.
validateBTCContext(s, y) ==
    \E h \in Heights :
        h <= VbkHeight[Containing[y]] /\ s.btc[BtcNeed(y)][h] > 0

\* AddBtcBlock at height h.
AddBtc(s, c, h) ==
    [s EXCEPT !.btc[c][h] = @ + 1,
              !.ok = @ /\ (InBtc(s, c) \/ InBtc(s, BtcPrev[c]))]

\* UnExecute: a BTC block that is no longer referenced must be a leaf.
RemoveBtc(s, c, h) ==
    LET r == [s EXCEPT !.btc[c][h] = @ - 1]
    IN  [r EXCEPT !.ok = /\ @
                         /\ s.btc[c][h] > 0
                         /\ InBtc(r, c) \/ \A d \in BtcBlocks \ {BtcRoot} :
                                              BtcPrev[d] = c => ~InBtc(r, d)]

\* The commands of a VTB (payloadToCommands), and their rollback.
ExecuteVtb(s, y) ==
    LET context == BtcContext[y]
        after[i \in 0 .. Len(context)] ==
            IF i = 0 THEN s ELSE AddBtc(after[i - 1], context[i], VbkHeight[Containing[y]])
    IN  after[Len(context)]

UnExecuteVtb(s, y) ==
    LET undo == Reverse(BtcContext[y])
        after[i \in 0 .. Len(undo)] ==
            IF i = 0 THEN s ELSE RemoveBtc(after[i - 1], undo[i], VbkHeight[Containing[y]])
    IN  after[Len(undo)]

-----------------------------------------------------------------------------
(* Switching the active VBK chain.                                          *)

UnapplyVbk(s, v) ==
    LET undo == Reverse(s.ids[v])
        after[i \in 0 .. Len(undo)] == IF i = 0 THEN s ELSE UnExecuteVtb(after[i - 1], undo[i])
    IN  after[Len(undo)]

ApplyVbk(s, v) ==
    LET after[i \in 0 .. Len(s.ids[v])] ==
            IF i = 0 THEN s ELSE ExecuteVtb(after[i - 1], s.ids[v][i])
    IN  after[Len(s.ids[v])]

VbkForkHeight(t, c) ==
    LET common == {VbkHeight[v] : v \in VbkAncestors[t] \cap VbkAncestors[c]}
    IN  CHOOSE h \in common : \A k \in common : k <= h

VbkBlockAt(t, h) == CHOOSE v \in VbkAncestors[t] : VbkHeight[v] = h

\* unapply, from the tip down to the fork.
UnapplyTo(s, fork) ==
    LET n == VbkHeight[s.tip] - fork
        down[i \in 0 .. n] ==
            IF i = 0 THEN s
            ELSE UnapplyVbk(down[i - 1], VbkBlockAt(s.tip, VbkHeight[s.tip] - (i - 1)))
    IN  down[n]

\* apply, from the fork up to the new tip.
ApplyFrom(s, fork, to) ==
    LET n == VbkHeight[to] - fork
        up[i \in 0 .. n] == IF i = 0 THEN s ELSE ApplyVbk(up[i - 1], VbkBlockAt(to, fork + i))
    IN  up[n]

\* VbkBlockTree::setState and overrideTip, for a chain that applies.
SetVbkState(s, to) ==
    LET fork == VbkForkHeight(s.tip, to)
    IN  [ApplyFrom(UnapplyTo(s, fork), fork, to) EXCEPT !.tip = to]

InVbk(s) == {v \in VbkBlocks : s.refs[v] > 0}

VbkTips(s) == {v \in InVbk(s) : \A c \in InVbk(s) \ {VbkRoot} : VbkPrev[c] # v}

TipsAbove(s, v) == {t \in VbkTips(s) : v \in VbkAncestors[t]}

\* determineBestChain(c) with best tip t: the tips it may leave.
BestOf(t, c) ==
    IF c \in VbkAncestors[t] \/ VbkHeight[t] - VbkHeight[c] > MaxReorgBlocks THEN {t}
    ELSE IF t \in VbkAncestors[c] THEN {c}
    ELSE IF \E b \in {t, c} : isCrossedKeystoneBoundary(VbkForkHeight(t, c), VbkHeight[b],
                                                        VbkKeystoneInterval)
      THEN {t, c}
    ELSE IF VbkHeight[c] > VbkHeight[t] THEN {c} ELSE {t}

\* determineBestChain on one candidate after the other: the best tips it may leave.
BestAfter(t, order) ==
    LET best[i \in 0 .. Len(order)] ==
            IF i = 0 THEN {t} ELSE UNION {BestOf(u, order[i]) : u \in best[i - 1]}
    IN  best[Len(order)]

\* tips_ is a hash set, so the candidates come in any order.
Resolve(s, candidates) ==
    {SetVbkState(s, t) : t \in UNION {BestAfter(s.tip, order) : order \in SetToSeqs(candidates)}}

-----------------------------------------------------------------------------
(* The commands of the altchain.                                            *)

\* Mutant: a block that is already there gets no further reference.
AddVbkBlockOnce(s, v) ==
    IF s.refs[v] > 0 THEN {s}
    ELSE IF s.refs[VbkPrev[v]] = 0 THEN {}
    ELSE Resolve([s EXCEPT !.refs[v] = 1], {v})

\* AddVbkBlock: the states it may leave, none if it fails.
AddVbkBlock(s, v) ==
    IF s.refs[v] > 0 THEN {[s EXCEPT !.refs[v] = @ + 1]}
    ELSE IF s.refs[VbkPrev[v]] = 0 THEN {}
    ELSE Resolve([s EXCEPT !.refs[v] = 1], {v})

\* UnExecute: the last reference removes the block, which must be a leaf that
\* nothing endorses (removeLeaf, assertBlockCanBeRemoved).
RemoveVbkBlock(s, v) ==
    LET r == [s EXCEPT !.refs[v] = @ - 1]
        unused == /\ v \in VbkTips(s)
                  /\ s.ids[v] = <<>>
                  /\ \A a \in VbkAncestors[s.tip] : \A y \in ToSet(s.ids[a]) : Endorsed[y] # v
        out == IF v \in VbkAncestors[s.tip] THEN SetVbkState(s, VbkPrev[v]) ELSE s
    IN  IF s.refs[v] > 1 THEN r
        ELSE [out EXCEPT !.refs[v] = 0, !.ok = @ /\ s.refs[v] = 1 /\ unused]

EndorsementFits(y) ==
    /\ Endorsed[y] \in VbkAncestors[Containing[y]]
    /\ VbkHeight[Containing[y]] - VbkHeight[Endorsed[y]] <= SettlementInterval

\* Mutant: the reference may come from a later VBK block.
VtbFitsAnyHeight(s, y) ==
    /\ Len(s.ids[Containing[y]]) < MaxVtbs
    /\ InBtc(s, BtcNeed(y))
    /\ EndorsementFits(y)

\* addPayloadToAppliedBlock accepts y; duplicates are allowed.
VtbFits(s, y) ==
    /\ Len(s.ids[Containing[y]]) < MaxVtbs
    /\ validateBTCContext(s, y)
    /\ ExecuteVtb(s, y).ok
    /\ EndorsementFits(y)

\* Mutant: a VTB is validated on the chain that happens to be active.
AtActive(s, v) == s

\* "we need the index to be applied in order to validate VTBs efficiently"
At(s, v) == IF v \in VbkAncestors[s.tip] THEN s ELSE SetVbkState(s, v)

\* addPayloads: the states it may leave, none if y does not fit.
AddVtb(s, y) ==
    LET v == Containing[y]
        at == At(s, v)
        added == [ExecuteVtb(at, y) EXCEPT !.ids[v] = Append(@, y)]
    IN  IF s.refs[v] = 0 \/ ~VtbFits(at, y) THEN {}
        ELSE IF v \in VbkAncestors[s.tip] THEN Resolve(added, TipsAbove(added, v))
        ELSE UNION {Resolve(r, TipsAbove(r, s.tip)) : r \in Resolve(added, TipsAbove(added, v))}

\* Mutant: the payload goes without its commands being undone.
RemoveVtbOnly(s, y) == [s EXCEPT !.ids[Containing[y]] = RemoveFirst(@, y)]

\* unsafelyRemovePayload: removePayloadId erases the first occurrence of the id.
RemoveVtb(s, y) ==
    LET v == Containing[y]
        undone == IF v \in VbkAncestors[s.tip] THEN UnExecuteVtb(s, y) ELSE s
    IN  [undone EXCEPT !.ids[v] = RemoveFirst(@, y),
                       !.ok = @ /\ y \in ToSet(s.ids[v])]

Commands == (VbkBlocks \ VbkBase) \cup Vtbs

Execute(s, c) == IF c \in Vtbs THEN AddVtb(s, c) ELSE AddVbkBlock(s, c)

UnExecute(s, c) == IF c \in Vtbs THEN RemoveVtb(s, c) ELSE RemoveVbkBlock(s, c)

\* A refused VTB has visited its containing block: "restore the tip".
Refused(s, c) ==
    IF c \in Vtbs /\ s.refs[Containing[c]] > 0
      THEN SetVbkState(At(s, Containing[c]), s.tip)
      ELSE s

-----------------------------------------------------------------------------
(* The altchain: setState and comparePopScore as stacks of commands.        *)

VbkInit ==
    /\ vbk \in {SetVbkState([refs |-> [v \in VbkBlocks |-> IF v \in VbkBase THEN 1 ELSE 0],
                             ids  |-> [v \in VbkBlocks |-> <<>>],
                             tip  |-> VbkRoot,
                             btc  |-> [c \in BtcBlocks |-> [h \in Heights |->
                                         IF c = BtcRoot /\ h = VbkHeight[VbkRoot] THEN 1 ELSE 0]],
                             ok   |-> TRUE], t) :
                    t \in {v \in VbkBase : \A c \in VbkBase \ {VbkRoot} : VbkPrev[c] # v}}
    /\ deferred = FALSE
    /\ main = <<>>
    /\ rival = <<>>
    /\ op = [phase |-> "idle"]

\* deferForkResolutionGuard, and originalTip.
Begin(phase, n, free) ==
    /\ op.phase = "idle"
    /\ op' = [phase |-> phase, fork |-> n, was |-> main, before |-> vbk,
              free |-> free, rest |-> <<>>]
    /\ UNCHANGED <<vbk, deferred, main, rival>>

\* setState to another altchain block: the commands above the fork are undone.
BeginSetState == \E n \in 0 .. Len(main) : Begin("clear", n, TRUE)

\* comparePopScore: the candidate is applied beside the active chain.
BeginCompare == \E n \in 0 .. Len(main) - 1 : Begin("beside", n, TRUE)

Push(c) ==
    /\ vbk' \in Execute(vbk, c)
    /\ rival' = Append(rival, c)
    /\ UNCHANGED <<deferred, main>>

\* The altchain block of c fails: what was applied of its branch is undone.
Refuse(c) ==
    /\ Execute(vbk, c) = {}
    /\ vbk' = Refused(vbk, c)
    /\ op' = [op EXCEPT !.phase = "drop"]
    /\ UNCHANGED <<deferred, main, rival>>

\* The candidates of an altchain branch: no payload twice on a chain.
Fresh(c) ==
    /\ Len(rival) + op.fork < MaxCommands
    /\ c \notin ToSet(rival) \cup ToSet(SubSeq(op.was, 1, op.fork))

Beside ==
    /\ op.phase = "beside"
    /\ \E c \in Commands :
          Fresh(c) /\ (Refuse(c) \/ (Push(c) /\ UNCHANGED op))

Pop(c) ==
    /\ vbk' = UnExecute(vbk, c)
    /\ deferred' = (deferred \/ c \in Vtbs \/ (vbk.refs[c] = 1 /\ c \in VbkAncestors[vbk.tip]))

\* The active chain wins: undo the candidate.  Or the candidate wins.
Decide ==
    /\ op.phase = "beside"
    /\ rival # <<>>
    /\ \E phase \in {"drop", "trim"} : op' = [op EXCEPT !.phase = phase, !.free = FALSE]
    /\ UNCHANGED <<vbk, deferred, main, rival>>

\* What the command c needs to be valid after the commands q.
FollowsOn(q, c) ==
    LET v == Containing[c]
        vtbs == {z \in ToSet(q) \cap Vtbs : Containing[z] \in VbkAncestors[v]}
    IN  IF c \notin Vtbs THEN VbkPrev[c] \in VbkBase \cup ToSet(q)
        ELSE /\ v \in VbkBase \cup ToSet(q)
             /\ EndorsementFits(c)
             /\ Cardinality({i \in DOMAIN q : q[i] \in Vtbs /\ Containing[q[i]] = v}) < MaxVtbs
             /\ BtcNeed(c) \in {BtcRoot} \cup UNION {ToSet(BtcContext[z]) : z \in vtbs}

\* What a sequence of commands needs to be valid on its own.
AppliesAlone(s) == \A i \in DOMAIN s : FollowsOn(SubSeq(s, 1, i - 1), s[i])

\* unapplyWhile: the part of the candidate that was never applied alone.
Trim ==
    /\ op.phase = "trim"
    /\ \/ /\ rival # <<>>
          /\ Pop(Last(rival))
          /\ rival' = Front(rival)
          /\ op' = [op EXCEPT !.rest = <<Last(rival)>> \o @]
          /\ UNCHANGED main
       \/ /\ AppliesAlone(SubSeq(main, 1, op.fork) \o rival)
          /\ op' = [op EXCEPT !.phase = "clear"]
          /\ UNCHANGED <<vbk, deferred, main, rival>>

\* Undo the active chain down to the fork.
Clear ==
    /\ op.phase = "clear"
    /\ IF Len(main) > op.fork
         THEN /\ Pop(Last(main))
              /\ main' = Front(main)
              /\ UNCHANGED <<rival, op>>
         ELSE /\ op' = [op EXCEPT !.phase = "apply"]
              /\ UNCHANGED <<vbk, deferred, main, rival>>

\* Apply the new branch: any commands in setState, the trimmed ones again after
\* a comparison.
Apply ==
    /\ op.phase = "apply"
    /\ \/ /\ op.free
          /\ \E c \in Commands : Fresh(c) /\ (Refuse(c) \/ (Push(c) /\ UNCHANGED op))
       \/ /\ op.rest # <<>>
          /\ \/ Refuse(Head(op.rest))
             \/ Push(Head(op.rest)) /\ op' = [op EXCEPT !.rest = Tail(@)]

\* continueForkResolution when the guard goes.
Finish ==
    /\ op.phase = "apply"
    /\ op.rest = <<>>
    /\ vbk' \in (IF deferred THEN Resolve(vbk, VbkTips(vbk)) ELSE {vbk})
    /\ main' = main \o rival
    /\ rival' = <<>>
    /\ deferred' = FALSE
    /\ op' = [phase |-> "idle"]

\* The failed or losing branch is undone,
Drop ==
    /\ op.phase = "drop"
    /\ IF rival # <<>>
         THEN /\ Pop(Last(rival))
              /\ rival' = Front(rival)
              /\ UNCHANGED <<main, op>>
         ELSE /\ op' = [op EXCEPT !.phase = "redo"]
              /\ UNCHANGED <<vbk, deferred, main, rival>>

\* the old one is applied again,
Redo ==
    /\ op.phase = "redo"
    /\ Len(main) < Len(op.was)
    /\ vbk' \in Execute(vbk, op.was[Len(main) + 1])
    /\ main' = Append(main, op.was[Len(main) + 1])
    /\ UNCHANGED <<deferred, rival, op>>

\* Mutant: the best chain is left where the failed switch has moved it.
OverrideNothing ==
    /\ op.phase = "redo"
    /\ main = op.was
    /\ deferred' = FALSE
    /\ op' = [phase |-> "idle"]
    /\ UNCHANGED <<vbk, main, rival>>

\* and overrideDeferredForkResolution goes back to the VBK tip seen before.
Override ==
    /\ op.phase = "redo"
    /\ main = op.was
    /\ vbk' = [SetVbkState(vbk, op.before.tip) EXCEPT !.ok = @ /\ op.before.tip \in InVbk(vbk)]
    /\ deferred' = FALSE
    /\ op' = [phase |-> "idle"]
    /\ UNCHANGED <<main, rival>>

VbkNext ==
    vbk.ok /\ (\/ BeginSetState \/ BeginCompare
               \/ Beside \/ Decide \/ Trim \/ Clear \/ Apply \/ Finish
               \/ Drop \/ Redo \/ Override)

VbkSpec == VbkInit /\ [][VbkNext]_vbkVars

-----------------------------------------------------------------------------
(* Properties.                                                              *)

\* No assertion fails: a block that loses its last reference is a leaf that nobody
\* needs, every payload to remove is there, the VBK tip seen before a failed switch
\* can be restored, and "chainA as a former best chain should be valid".
AssertionsHold ==
    /\ vbk.ok
    /\ op.phase = "redo" /\ Len(main) < Len(op.was) =>
          Execute(vbk, op.was[Len(main) + 1]) # {}

\* "removing a payload cannot alter the block validity as addPayloads adds only
\* valid payloads": every VBK chain in the tree applies from the root, whichever
\* of them was active while its VTBs came and went.
ChainsApply ==
    \A v \in InVbk(vbk) :
        LET fresh == [vbk EXCEPT !.tip = VbkRoot,
                                 !.btc = [c \in BtcBlocks |-> [h \in Heights |->
                                            IF c = BtcRoot /\ h = VbkHeight[VbkRoot] THEN 1 ELSE 0]]]
        IN  SetVbkState(fresh, v).ok

\* The references the VTBs on the active VBK chain make to each BTC block.
BtcStateExact ==
    \A c \in BtcBlocks \ {BtcRoot}, h \in Heights :
        vbk.btc[c][h] =
            Cardinality({p \in VbkAncestors[vbk.tip] \X (1 .. MaxVtbs) :
                            /\ VbkHeight[p[1]] = h
                            /\ p[2] \in DOMAIN vbk.ids[p[1]]
                            /\ c \in ToSet(BtcContext[vbk.ids[p[1]][p[2]]])})

\* A VBK block holds a VTB once for each applied altchain branch that carries it.
VtbsExact ==
    \A y \in Vtbs :
        Cardinality({i \in DOMAIN vbk.ids[Containing[y]] : vbk.ids[Containing[y]][i] = y}) =
        Cardinality({i \in DOMAIN main : main[i] = y}) + Cardinality({i \in DOMAIN rival : rival[i] = y})

\* Nothing is lost or left behind when two altchain branches share a payload: the
\* VBK tree has the VTBs of the applied branches, and the BTC tree the references
\* of those on the active VBK chain, although both are patched by every addition,
\* removal and reorg.
VbkStateExact == VtbsExact /\ BtcStateExact

\* Whenever commands are executed (beside the active chain, on the new one, or on the
\* old one again) those applied so far, of both branches, are valid in their order, and
\* whether another one is accepted is a function of them: it does not depend on which
\* VBK chain this node has active or on what was applied and undone before.
VerdictExact ==
    op.phase \in {"beside", "apply", "redo"} =>
        /\ AppliesAlone(main \o rival)
        /\ \A c \in Commands : (Execute(vbk, c) # {}) <=> FollowsOn(main \o rival, c)

\* What the active chain can do to a candidate that comparePopScore applies beside it.
\* A command that is valid on the candidate's own chain is refused for one reason only:
\* the VTBs of both branches fill the VBK block (addPayloadToAppliedBlock).
\* The candidate then gets BLOCK_FAILED_POP although it is valid alone, so nodes with
\* another active chain disagree about it; nothing else of the active chain has a say.
RefusedBesideAtLimit ==
    op.phase = "beside" =>
        \A c \in Commands :
            FollowsOn(SubSeq(main, 1, op.fork) \o rival, c) /\ Execute(vbk, c) = {} =>
                c \in Vtbs /\ Len(vbk.ids[Containing[c]]) >= MaxVtbs

\* setState and a lost comparison are "atomic: either changes the state to 'to' or
\* leaves it unchanged": a failed operation leaves the blocks, VTBs, BTC references
\* and best tip of the VBK tree as they were, up to the order of equal VTBs.
FailedSwitchRestores ==
    [][op.phase = "redo" /\ op'.phase = "idle" =>
          /\ [vbk' EXCEPT !.ids = op.before.ids] = op.before
          /\ \A v \in VbkBlocks : /\ Len(vbk'.ids[v]) = Len(op.before.ids[v])
                                 /\ ToSet(vbk'.ids[v]) = ToSet(op.before.ids[v])]_vbkVars

=============================================================================
