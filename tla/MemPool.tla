------------------------------- MODULE MemPool -------------------------------
(***************************************************************************)
(* The mempool of POP payloads (mempool.cpp, mempool.hpp), the temporary    *)
(* trees it validates against (mempool_block_tree.cpp, temp_block_tree.hpp) *)
(* and the map of payloads in flight (value_sorted_map.hpp).                *)
(*                                                                          *)
(* The stable trees are what the bodies of the active altchain put there.   *)
(* VBK and BTC blocks form one chain each and are named by their heights, 0 *)
(* being the bootstrap block.  Every ATV endorses the bootstrap block of    *)
(* the altchain.  A payload that a relation would list twice is listed      *)
(* once: generatePopData drops the second one as a stateless duplicate.     *)
(***************************************************************************)
EXTENDS Integers, Sequences, SequencesExt, FiniteSets, FiniteSetsExt

CONSTANTS
    MaxVbkHeight,           \* bound: the VBK blocks are 1..MaxVbkHeight
    Vtbs, Atvs,
    Containing,             \* VTB or ATV -> its VBK block
    Published,              \* VTB -> the VBK block it endorses
    FirstBtc, LastBtc,      \* VTB -> the BTC blocks it brings, in order
    Fee,                    \* ATV -> the fee of its transaction
    OldBlocksWindow, MaxReorgBlocks, VbkSettlementInterval,
    AltSettlementInterval,
    MaxVbkBlocksInAltBlock, MaxVTBsInAltBlock, MaxATVsInAltBlock,
    Size,                   \* payload -> its estimateSize
    MaxPopDataSize,
    ForeignPops,            \* the bodies that other miners put into their blocks
    MaxAltHeight            \* bound: the height of the altchain

VbkBlocks == 1..MaxVbkHeight

Kinds == {"context", "vtbs", "atvs"}

Payloads == [context |-> VbkBlocks, vtbs |-> Vtbs, atvs |-> Atvs]

\* The bodies of altchain blocks.
Pops == {pop \in [Kinds -> Seq(VbkBlocks \cup Vtbs \cup Atvs)] : \A k \in Kinds : pop[k] \in Seq(Payloads[k])}

ASSUME MemPoolAssumption ==
    /\ MaxVbkHeight \in Nat /\ IsFiniteSet(Vtbs) /\ IsFiniteSet(Atvs)
    /\ Vtbs \cap Atvs = {} /\ VbkBlocks \cap (Vtbs \cup Atvs) = {}
    /\ Containing \in [Vtbs \cup Atvs -> VbkBlocks]
    /\ \A y \in Vtbs : Published[y] \in 0..Containing[y]
    /\ FirstBtc \in [Vtbs -> Nat] /\ LastBtc \in [Vtbs -> Nat]
    /\ \A y \in Vtbs : 0 < FirstBtc[y] /\ FirstBtc[y] <= LastBtc[y]
    /\ Fee \in [Atvs -> Nat]
    /\ AltSettlementInterval \in Nat \ {0} /\ VbkSettlementInterval \in Nat \ {0}
    /\ MaxVbkBlocksInAltBlock \in Nat /\ MaxVTBsInAltBlock \in Nat /\ MaxATVsInAltBlock \in Nat
    /\ Size \in [VbkBlocks \cup Vtbs \cup Atvs -> Nat]
    /\ MaxPopDataSize \in Nat /\ MaxPopDataSize >= 10   \* an empty PopData has 10 bytes
    /\ ForeignPops \subseteq Pops

VARIABLES
    chain,      \* the bodies of the active altchain above its bootstrap block
    pool,       \* relations_ (blocks: its keys and those of vbkblocks_), stored_*,
                \*   the payloads in flight, temp_vbk_tree_ and temp_btc_tree_
    generated   \* the last PopData generated for the current tip, or NoPop

poolVars == <<chain, pool, generated>>

NoPop == [k \in Kinds |-> <<>>]

Kind(p) == IF p \in VbkBlocks THEN "context" ELSE IF p \in Vtbs THEN "vtbs" ELSE "atvs"

BlockOf(p) == IF p \in VbkBlocks THEN p ELSE Containing[p]

-----------------------------------------------------------------------------
(* The stable trees.                                                        *)

PayloadsOf(ch, k) == UNION {ToSet(ch[i][k]) : i \in 1..Len(ch)}

VbkOf(ch) == {0} \cup PayloadsOf(ch, "context") \cup {Containing[a] : a \in PayloadsOf(ch, "atvs")}

VbkTip(ch) == Max(VbkOf(ch))

\* The BTC blocks that the VTBs of VBK blocks up to height h brought.
BtcOf(ch, h) ==
    {0} \cup UNION {FirstBtc[y]..LastBtc[y] : y \in {z \in PayloadsOf(ch, "vtbs") : Containing[z] <= h}}

\* The commands of p, executed after the last body of ch so far.
Executes(ch, p) ==
    CASE p \in VbkBlocks -> p - 1 \in VbkOf(ch)
      [] p \in Vtbs ->
            /\ Containing[p] \in VbkOf(ch)
            /\ FirstBtc[p] - 1 \in BtcOf(ch, Containing[p])
            /\ Containing[p] - Published[p] <= VbkSettlementInterval
      [] p \in Atvs ->
            /\ Containing[p] - 1 \in VbkOf(ch)
            /\ Len(ch) <= AltSettlementInterval

isStatefulDuplicate(ch, p) == p \in PayloadsOf(ch, Kind(p))

\* The kinds of payloads are executed in this order.
Before == [context |-> {}, vtbs |-> {"context"}, atvs |-> {"context", "vtbs"}]

Limit == [context |-> MaxVbkBlocksInAltBlock, vtbs |-> MaxVTBsInAltBlock, atvs |-> MaxATVsInAltBlock]

\* The bytes of a count: a length byte, then the value without leading zeros.
singleBEValueSize(n) == IF n < 256 THEN 2 ELSE IF n < 65536 THEN 3 ELSE 4

\* The payloads of one kind.
SizeOf(s) ==
    LET upTo[i \in 0..Len(s)] == IF i = 0 THEN 0 ELSE upTo[i - 1] + Size[s[i]]
    IN  upTo[Len(s)]

PartSize(s) == singleBEValueSize(Len(s)) + SizeOf(s)

\* PopData::estimateSize: the version, then the three lists with their counts.
estimateSize(pop) == 4 + PartSize(pop["context"]) + PartSize(pop["vtbs"]) + PartSize(pop["atvs"])

\* No count needs a second byte: see canFit.
ShortLimits == \A k \in Kinds : Limit[k] < 256

\* The body as executed up to its n-th payload of kind k.
Executed(pop, k, n) ==
    [j \in Kinds |-> IF j \in Before[k] THEN pop[j] ELSE IF j = k THEN SubSeq(pop[k], 1, n) ELSE <<>>]

\* A block with this body may follow ch: checkPopData and the execution of its payloads.
Applies(ch, pop) ==
    /\ estimateSize(pop) <= MaxPopDataSize
    /\ \A k \in Kinds :
          /\ IsInjective(pop[k])
          /\ Len(pop[k]) <= Limit[k]
          /\ \A i \in 1..Len(pop[k]) :
              /\ ~isStatefulDuplicate(ch, pop[k][i])
              /\ Executes(Append(ch, Executed(pop, k, i - 1)), pop[k][i])

-----------------------------------------------------------------------------
(* ValueSortedMap: `map` has the payloads, `sorted` the values that         *)
(* getSortedValues returns.  A value is looked up in the multiset by its    *)
(* height alone, and the first one of that height is found.                 *)

Nothing == [map |-> {}, sorted |-> <<>>]

EraseValue(s, p) == RemoveAt(s, SelectInSeq(s, LAMBDA q : BlockOf(q) = BlockOf(p)))

InsertValue(s, p) ==
    InsertAt(s, 1 + Cardinality({i \in DOMAIN s : BlockOf(s[i]) <= BlockOf(p)}), p)

erase(f, p) ==
    IF p \notin f.map THEN f
    ELSE [map |-> f.map \ {p}, sorted |-> EraseValue(f.sorted, p)]

insert(f, p) ==
    [map |-> f.map \cup {p},
     sorted |-> InsertValue(IF p \in f.map THEN EraseValue(f.sorted, p) ELSE f.sorted, p)]

-----------------------------------------------------------------------------
(* MemPoolBlockTree.                                                        *)

checkContextually(ch, p) ==
    CASE p \in VbkBlocks -> p \notin VbkOf(ch) /\ VbkTip(ch) - p <= MaxReorgBlocks
      [] p \in Vtbs ->
            /\ p \notin PayloadsOf(ch, "vtbs")
            /\ Containing[p] <= VbkSettlementInterval + Published[p]
      [] p \in Atvs ->
            /\ \A i \in 1..Len(ch) : i > Len(ch) - AltSettlementInterval => p \notin ToSet(ch[i]["atvs"])
            /\ Len(ch) + 1 <= AltSettlementInterval

KnownVbk(m, ch) == m.vbk \cup VbkOf(ch)

KnownBtc(m, ch) == m.btc \cup BtcOf(ch, MaxVbkHeight)

acceptVbkBlock(m, ch, b) == [m EXCEPT !.vbk = IF b \in VbkOf(ch) THEN @ ELSE @ \cup {b}]

\* What accepting p leaves in the temporary trees, and whether it was accepted.
accept(m, ch, p) ==
    LET b == BlockOf(p)
        known == b - 1 \in KnownVbk(m, ch)
        connects == p \in Vtbs => FirstBtc[p] - 1 \in KnownBtc(m, ch)
        valid == p \in VbkBlocks \/ checkContextually(ch, p)
        withBlock == IF valid /\ known THEN acceptVbkBlock(m, ch, b) ELSE m
        brought == IF p \in Vtbs THEN (FirstBtc[p]..LastBtc[p]) \ BtcOf(ch, MaxVbkHeight) ELSE {}
        ok == valid /\ known /\ connects
    IN  [ok |-> ok, pool |-> IF ok THEN [withBlock EXCEPT !.btc = @ \cup brought] ELSE withBlock]

\* CountingContext::canFit: the number of payloads of this kind, and the bytes with the
\* counts that the body has before p is added.
canFit(body, p) ==
    /\ Len(body[Kind(p)]) < Limit[Kind(p)]
    /\ estimateSize(body) + Size[p] <= MaxPopDataSize

\* Mutant: a payload of the active chain is added once more.
AddToBodyAgain(ch, body, k, p) ==
    IF /\ canFit(body, p)
       /\ p \notin ToSet(body[k])
       /\ Executes(Append(ch, body), p)
    THEN [body EXCEPT ![k] = Append(@, p)]
    ELSE body

\* One payload: canFit, isStatelessDuplicate, isStatefulDuplicate, then its
\* commands are executed.
AddToBody(ch, body, k, p) ==
    IF /\ canFit(body, p)
       /\ p \notin ToSet(body[k])
       /\ ~isStatefulDuplicate(ch, p)
       /\ Executes(Append(ch, body), p)
    THEN [body EXCEPT ![k] = Append(@, p)]
    ELSE body

applyPayloadsOrRemoveIfInvalid(ch, body, k, payloads) ==
    LET after[i \in 0..Len(payloads)] ==
            IF i = 0 THEN body ELSE AddToBody(ch, after[i - 1], k, payloads[i])
    IN  after[Len(payloads)]

\* Mutant: the ATVs are tried before the VBK blocks they need.
filterAtvsFirst(ch, pop) ==
    LET atvs == applyPayloadsOrRemoveIfInvalid(ch, NoPop, "atvs", pop["atvs"])
        context == applyPayloadsOrRemoveIfInvalid(ch, atvs, "context", pop["context"])
    IN  applyPayloadsOrRemoveIfInvalid(ch, context, "vtbs", pop["vtbs"])

filterInvalidPayloads(ch, pop) ==
    LET context == applyPayloadsOrRemoveIfInvalid(ch, NoPop, "context", pop["context"])
        vtbs == applyPayloadsOrRemoveIfInvalid(ch, context, "vtbs", pop["vtbs"])
    IN  applyPayloadsOrRemoveIfInvalid(ch, vtbs, "atvs", pop["atvs"])

-----------------------------------------------------------------------------
(* MemPool.                                                                 *)

EmptyPool ==
    [blocks |-> {}, atvs |-> [b \in VbkBlocks |-> {}], vtbs |-> [b \in VbkBlocks |-> <<>>],
     stored |-> {}, flight |-> [k \in Kinds |-> Nothing], vbk |-> {}, btc |-> {}]

\* getOrPutVbkRelation, the insertion into it and makePayloadConnected.
Connect(m, p) ==
    LET b == BlockOf(p)
    IN  [m EXCEPT !.blocks = @ \cup {b},
                  !.atvs = [c \in VbkBlocks |-> IF c = b /\ p \in Atvs THEN @[c] \cup {p} ELSE @[c]],
                  !.vtbs = [c \in VbkBlocks |-> IF c = b /\ p \in Vtbs /\ ~Contains(@[c], p)
                                               THEN Append(@[c], p) ELSE @[c]],
                  !.stored = @ \cup ({p} \ VbkBlocks),
                  !.flight = [k \in Kinds |-> IF k = Kind(p) THEN erase(@[k], p) ELSE @[k]]]

submit(m, ch, p) ==
    LET r == accept(m, ch, p)
    IN  IF ~r.ok THEN [r.pool EXCEPT !.flight[Kind(p)] = insert(@, p)]
        ELSE IF p \in VbkBlocks \cap VbkOf(ch) THEN [r.pool EXCEPT !.flight["context"] = erase(@, p)]
        ELSE Connect(r.pool, p)

resubmit(m, ch, payloads) ==
    LET after[i \in 0..Len(payloads)] == IF i = 0 THEN m ELSE submit(after[i - 1], ch, payloads[i])
    IN  after[Len(payloads)]

tryConnectPayloads(m, ch) ==
    LET vbks == resubmit(m, ch, m.flight["context"].sorted)
        vtbs == resubmit(vbks, ch, vbks.flight["vtbs"].sorted)
    IN  resubmit(vtbs, ch, vtbs.flight["atvs"].sorted)

TooOld(ch, b) == VbkTip(ch) - OldBlocksWindow > b

\* cleanUp erases the ATVs of an old block from the set it is iterating over:
\* which of them it still reaches after the first is undefined.  `spared` are
\* the ones it does not reach.
Spared(m, ch) ==
    LET old == {b \in m.blocks : TooOld(ch, b) /\ m.atvs[b] # {}}
    IN  {s \in SUBSET UNION {m.atvs[b] : b \in old} : \A b \in old : ~(m.atvs[b] \subseteq s)}

\* Mutant: an empty relation goes although its block is not in the VBK tree yet.
RelationDoneEmpty(m, ch, b) ==
    /\ m.atvs[b] = {} /\ m.vtbs[b] = <<>>

\* The header of an empty relation has reached the VBK tree.
RelationDone(m, ch, b) ==
    /\ m.atvs[b] = {} /\ m.vtbs[b] = <<>>
    /\ b \in VbkOf(ch)

WithoutBlocks(m, gone) ==
    [m EXCEPT !.blocks = @ \ gone,
              !.atvs = [b \in VbkBlocks |-> IF b \in gone THEN {} ELSE @[b]],
              !.vtbs = [b \in VbkBlocks |-> IF b \in gone THEN <<>> ELSE @[b]]]

\* The sequence s without the elements of gone.
Filtered(s, gone) ==
    LET upTo[i \in 0..Len(s)] ==
            IF i = 0 THEN <<>> ELSE IF s[i] \in gone THEN upTo[i - 1] ELSE Append(upTo[i - 1], s[i])
    IN  upTo[Len(s)]

WithoutPayloads(m, gone) ==
    [m EXCEPT !.atvs = [b \in VbkBlocks |-> @[b] \ gone],
              !.vtbs = [b \in VbkBlocks |-> Filtered(@[b], gone)],
              !.stored = @ \ gone]

\* The ATVs and VTBs of the relations.
Listed(m) == UNION {m.atvs[b] \cup ToSet(m.vtbs[b]) : b \in VbkBlocks}

\* The payloads of gone are erased one after the other.
EraseAll(f, gone) ==
    LET order == SetToSeq(gone)
        after[i \in 0..Cardinality(gone)] == IF i = 0 THEN f ELSE erase(after[i - 1], order[i])
    IN  after[Cardinality(gone)]

cleanUp(m, ch, spared) ==
    LET old == {b \in m.blocks : TooOld(ch, b)}
        aged == WithoutPayloads(m, UNION {m.atvs[b] : b \in old} \ spared)
        left == WithoutBlocks(aged, {b \in old : aged.vtbs[b] = <<>>})
        fresh == WithoutPayloads(left, {p \in Listed(left) : ~checkContextually(ch, p)})
        kept == WithoutBlocks(fresh, {b \in fresh.blocks : RelationDone(fresh, ch, b)})
        stale(k) == {p \in m.flight[k].map : ~checkContextually(ch, p)}
    IN  [kept EXCEPT !.flight = [k \in Kinds |-> EraseAll(@[k], stale(k))],
                     !.vbk = @ \ VbkOf(ch),
                     !.btc = @ \ BtcOf(ch, MaxVbkHeight)]

\* What removeAll does before it cleans up and resubmits what is in flight.
Without(m, pop) ==
    LET left == WithoutPayloads(m, {p \in Listed(m) : p \in ToSet(pop[Kind(p)])})
    IN  WithoutBlocks(left, {b \in ToSet(pop["context"]) : left.atvs[b] = {} /\ left.vtbs[b] = <<>>})

\* The orders of ATVs by fee; among equal fees the address of the object decides.
ByFee(atvs) ==
    {s \in SetToSeqs(atvs) : \A i, j \in DOMAIN s : i < j => Fee[s[i]] >= Fee[s[j]]}

Orders(m) == {o \in [VbkBlocks -> UNION {ByFee(m.atvs[b]) : b \in VbkBlocks}] :
                \A b \in VbkBlocks : o[b] \in ByFee(m.atvs[b])}

\* The candidates of generatePopData, VBK blocks in ascending order; order has
\* the ATVs of each.
Candidates(m, order) ==
    LET upTo[h \in 0..MaxVbkHeight] ==
            IF h = 0 THEN NoPop
            ELSE IF h \notin m.blocks THEN upTo[h - 1]
            ELSE [upTo[h - 1] EXCEPT !["context"] = Append(@, h),
                                     !["vtbs"] = @ \o m.vtbs[h],
                                     !["atvs"] = @ \o order[h]]
    IN  upTo[MaxVbkHeight]

\* What generatePopData returns for the connected payloads of m, when order has the
\* ATVs of each VBK block.
PopDataOf(m, ch, order) == filterInvalidPayloads(ch, Candidates(m, order))

-----------------------------------------------------------------------------
(* The operations.                                                          *)

PoolInit == chain = <<>> /\ pool = EmptyPool /\ generated = NoPop

\* submit<T> without the check for old blocks; with it, an old payload is
\* refused and nothing changes.
Submit(p) ==
    /\ pool' = submit(pool, chain, p)
    /\ UNCHANGED <<chain, generated>>

SubmitVbkBlock == \E b \in VbkBlocks : Submit(b)

SubmitVtb == \E y \in Vtbs : Submit(y)

SubmitAtv == \E a \in Atvs : Submit(a)

GeneratePopData ==
    LET m == tryConnectPayloads(pool, chain)
    IN  /\ \E o \in Orders(m) : generated' = PopDataOf(m, chain, o)
        /\ \E s \in Spared(m, chain) : pool' = cleanUp(m, chain, s)
        /\ UNCHANGED chain

CleanUp ==
    /\ \E s \in Spared(pool, chain) : pool' = cleanUp(pool, chain, s)
    /\ UNCHANGED <<chain, generated>>

Clear == pool' = EmptyPool /\ UNCHANGED <<chain, generated>>

\* A block with this body becomes the tip and removeAll is called for it.
ConnectBlock(pop) ==
    LET ch == Append(chain, pop)
        m == Without(pool, pop)
    IN  /\ Len(chain) < MaxAltHeight
        /\ chain' = ch
        /\ generated' = NoPop
        /\ \E s \in Spared(m, ch) : pool' = tryConnectPayloads(cleanUp(m, ch, s), ch)

MineGenerated == generated # NoPop /\ ConnectBlock(generated)

ReceiveBlock == \E pop \in ForeignPops : Applies(chain, pop) /\ ConnectBlock(pop)

\* The altchain reorganises: its tip is unapplied, the pool is not told.
DisconnectTip ==
    /\ chain # <<>>
    /\ chain' = Front(chain)
    /\ generated' = NoPop
    /\ UNCHANGED pool

PoolNext ==
    \/ SubmitVbkBlock \/ SubmitVtb \/ SubmitAtv
    \/ GeneratePopData \/ CleanUp \/ Clear
    \/ MineGenerated \/ ReceiveBlock \/ DisconnectTip

PoolSpec == PoolInit /\ [][PoolNext]_poolVars

-----------------------------------------------------------------------------
(* Properties.                                                              *)

\* generatePopData returns "statefully valid PopData that can be connected to
\* current tip" (mempool.hpp), whatever was submitted, connected, disconnected
\* or cleaned up before and in whatever order.
GeneratedApplies == Applies(chain, generated)

\* The ATVs that could be in the next block: each VBK block below theirs is in
\* the VBK tree or in the pool.
Connectable(m, ch) ==
    {a \in UNION {m.atvs[b] : b \in m.blocks} :
        /\ checkContextually(ch, a) /\ ~isStatefulDuplicate(ch, a)
        /\ \A b \in VbkBlocks : b < Containing[a] => b \in VbkOf(ch) \cup m.blocks}

\* The VBK blocks below the one of a that neither the tree nor the body has.
NeededBy(a, body, ch) ==
    {b \in VbkBlocks \ (VbkOf(ch) \cup ToSet(body["context"])) : b < Containing[a]}

\* generatePopData, called in any state, leaves out no ATV that could be in the next
\* block, unless it does not fit any more (CountingContext::canFit) or a VBK block below
\* it that the block would have to bring does not.
NoAtvLeftOut ==
    \A m \in {tryConnectPayloads(pool, chain)} :
        \A body \in {PopDataOf(m, chain, o) : o \in Orders(m)} :
            \A a \in Connectable(m, chain) \ ToSet(body["atvs"]) :
                \E p \in {a} \cup NeededBy(a, body, chain) : ~canFit(body, p)

\* The payloads that can still reach a block: the relations, from which generatePopData
\* chooses, and what is in flight.  An ATV that is left in stored_atvs_ alone is not one
\* of them.
Retained(m) == m.blocks \cup Listed(m) \cup UNION {m.flight[k].map : k \in Kinds}

\* The reasons for which the mempool may drop a payload.
Droppable(ch, p) ==
    \/ ~checkContextually(ch, p)
    \/ TooOld(ch, BlockOf(p)) /\ p \notin Vtbs

\* No payload that the mempool has accepted is lost: it leaves only when the
\* active chain has it, when it has expired or is too old, or on clear().
NoPayloadLost ==
    [][Clear \/ \A p \in Retained(pool) \ Retained(pool') : Droppable(chain', p)]_poolVars

\* "for the statefully invalid payloads we just save it for the future"
\* (mempool.cpp): what is in flight is what tryConnectPayloads resubmits.
InFlightRetried ==
    \A k \in Kinds : ToSet(pool.flight[k].sorted) = pool.flight[k].map
=============================================================================
