------------------------ MODULE PopStateMachineProofs ------------------------
(***************************************************************************)
(* The inductive invariant of PopStateMachine, for every block universe,    *)
(* every VBK tree and every set of bodies, when the altchain invalidates    *)
(* blocks for consensus reasons only: its definition, what a state that has *)
(* it looks like, that every step preserves its parts, the properties of    *)
(* PopStateMachine that follow from it, and the refinement of AltBlockTree. *)
(***************************************************************************)
EXTENDS PopStateMachine, AltBlockTreeProofs, FiniteSetTheorems, WellFoundedInduction

-----------------------------------------------------------------------------
(* The inductive invariant.                                                 *)

Operations ==
    [phase : Phases, to : Blocks, fork : Blocks, a : Blocks, b : Blocks,
     then : {"switch", "invalidate", "remove"}, block : Blocks, reason : {"none", "BLOCK"}]

Jobs == [mode : {"apply", "unapply", "abort"}, block : Blocks \ {Root}, done : Nat]

Control ==
    /\ sm = Idle \/ sm \in Operations
    /\ job = NoJob \/ job \in Jobs
    /\ idle => job = NoJob

\* Where the two chains of an operation are: they part at the fork, a is on the
\* old one and b on the new one.
Paths ==
    ~idle =>
        /\ sm.to \in inTree /\ isConnected(sm.to)
        /\ sm.fork \in Ancestors[tip] /\ sm.fork \in Ancestors[sm.to]
        /\ \A c \in Ancestors[tip] : c \in Ancestors[sm.to] => c \in Ancestors[sm.fork]
        /\ sm.a \in Ancestors[tip] /\ sm.fork \in Ancestors[sm.a]
        /\ sm.b \in Ancestors[sm.to] /\ sm.fork \in Ancestors[sm.b]

\* What each phase may rely on.  Beside a shortened old chain only blocks that
\* have been applied alone are applied.
PhaseInv ==
    ~idle =>
        /\ sm.phase \in {"applyNew", "decide", "trimNew"} => ~isFailed(sm.to)
        /\ sm.phase = "unapplyOld" =>
              sm.b = sm.fork \/ (~isFailed(sm.to) /\ level[sm.b] = CAN_BE_APPLIED)
        /\ sm.phase \in {"applyNew", "undoNew"} =>
              /\ sm.a = tip \/ sm.a = sm.fork
              /\ sm.a = sm.fork => level[sm.b] = CAN_BE_APPLIED
        /\ sm.phase \in {"decide", "trimNew"} => sm.a = tip /\ sm.a # sm.fork
        /\ sm.phase = "reapplyOld" => sm.b = sm.fork
        /\ level[sm.b] >= MAYBE_WITH_OTHER
        /\ sm.then # "switch" =>
              /\ sm.phase = "unapplyOld" /\ sm.block # Root
              /\ sm.block \in Ancestors[tip] /\ sm.to = Prev[sm.block]
        /\ sm.then = "invalidate" => sm.reason = "BLOCK"

JobInv ==
    job # NoJob =>
        /\ job.done <= Len(CommandsOf(job.block))
        /\ job.mode = "unapply" =>
              \/ sm.phase = "unapplyOld" /\ job.block = sm.a /\ sm.a # sm.fork
              \/ sm.phase \in {"trimNew", "undoNew"} /\ job.block = sm.b /\ sm.b # sm.fork
        /\ job.mode = "apply" =>
              \/ sm.phase = "applyNew" /\ job.block \in Ancestors[sm.to]
                                       /\ Prev[job.block] = sm.b
              \/ sm.phase = "reapplyOld" /\ job.block \in Ancestors[tip]
                                         /\ Prev[job.block] = sm.a
        /\ job.mode = "abort" =>
              /\ sm.phase = "applyNew" /\ job.block \in Ancestors[sm.to]
              /\ Prev[job.block] = sm.b /\ level[job.block] < CAN_BE_APPLIED

Applied == AppliedExact /\ IsFiniteSet(active)

ControlInv == IInv /\ Control /\ Paths /\ PhaseInv /\ JobInv /\ Applied

\* The whole old chain is applied beside the new one.
Helped ==
    ~idle /\ sm.phase \in {"applyNew", "decide", "trimNew", "undoNew"} /\ sm.a = tip

Earlier(f) == {e \in Positions(f[1]) : Before(e, f)}

Support(f) == Earlier(f) \cup (IF Helped THEN Positions(tip) ELSE {})

\* Every executed command is supported by the commands before it on its own
\* chain and, as long as the old chain is whole, by that one.
ExecutedSupported == \A f \in Executed : Supported(f, Support(f))

VbkTypeOK ==
    /\ refs \in [VbkBlocks -> Nat]
    /\ endorsements \subseteq
          [containing : Blocks, endorsed : Blocks, vbk : VbkBlocks, id : PayloadIds]

VbkInv ==
    /\ VbkTypeOK /\ ProtectingStateExact /\ IsFiniteSet(Executed)
    /\ ExecutedSupported /\ CanBeAppliedAlone

SMInv == ControlInv /\ VbkInv

-----------------------------------------------------------------------------
(* Facts about chains.                                                      *)

\* Every nonempty set of naturals has a least member.
LEMMA LeastNatural ==
    ASSUME NEW S \in SUBSET Nat, S # {}
    PROVE  \E n \in S : \A m \in S : n <= m
<1>1. IsWellFoundedOn(OpToRel(<, Nat), Nat)
  BY NatLessThanWellFounded
<1>2. PICK n \in S : \A m \in S : ~(<<m, n>> \in OpToRel(<, Nat))
  BY <1>1, WFMin
<1>3. \A m \in S : ~(m < n)
  BY <1>2 DEF OpToRel
<1>4. S \subseteq Nat
  OBVIOUS
<1> QED
  BY <1>3, <1>4

\* A chain has one block for every height from Root up to its own.
LEMMA ChainCardinality ==
    ASSUME NEW b \in Blocks
    PROVE  /\ IsFiniteSet(Ancestors[b])
           /\ Cardinality(Ancestors[b]) = Height[b] - Height[Root] + 1
<1> DEFINE I == Height[Root] .. Height[b]
           f == [x \in Ancestors[b] |-> Height[x]]
<1>1. /\ Height[Root] \in Nat /\ Height[b] \in Nat /\ Height[Root] <= Height[b]
      /\ \A x \in Ancestors[b] : /\ x \in Blocks /\ Height[x] \in Nat
                                 /\ Height[Root] <= Height[x] /\ Height[x] <= Height[b]
  BY TreeFacts, HeightAssumption
<1>2. \A x, y \in Ancestors[b] : Height[x] = Height[y] => x = y
  BY <1>1, TreeFacts, HeightAssumption
<1>3. f \in [Ancestors[b] -> I]
  BY <1>1
<1>4. \A h \in I : \E x \in Ancestors[b] : Height[x] = h
  <2> DEFINE missing == {h \in I : \A x \in Ancestors[b] : Height[x] # h}
  <2>1. SUFFICES ASSUME missing # {} PROVE FALSE
    OBVIOUS
  <2>2. missing \in SUBSET Nat
    BY <1>1
  <2>3. PICK h \in missing : \A m \in missing : h <= m
    BY <2>1, <2>2, LeastNatural
  <2>4. h \in I /\ h # Height[Root] /\ h \in Nat
    BY <2>2, <2>3, TreeFacts
  <2>5. h - 1 \in I /\ h - 1 \notin missing
    BY <1>1, <2>3, <2>4
  <2>6. PICK x \in Ancestors[b] : Height[x] = h - 1
    BY <2>5
  <2>7. x # b
    BY <1>1, <2>4, <2>6
  <2>8. PICK c \in Ancestors[b] \ {Root} : Prev[c] = x
    BY <2>7, TreeAssumption
  <2>9. Height[c] = h
    BY <1>1, <2>4, <2>6, <2>8, HeightAssumption
  <2> QED
    BY <2>3, <2>8, <2>9
<1>5. f \in Injection(Ancestors[b], I) /\ f \in Surjection(Ancestors[b], I)
  BY <1>2, <1>3, <1>4 DEF Injection, Surjection, IsInjective
<1>6. IsFiniteSet(I) /\ Cardinality(I) = Height[b] - Height[Root] + 1
  <2>1. Height[Root] \in Int /\ Height[b] \in Int /\ ~(Height[Root] > Height[b])
    BY <1>1
  <2>2. /\ IsFiniteSet(I)
        /\ Cardinality(I) = IF Height[Root] > Height[b] THEN 0
                            ELSE Height[b] - Height[Root] + 1
    BY <2>1, FS_Interval, Zenon
  <2> QED
    BY <2>1, <2>2
<1> HIDE DEF I, f
<1>7. /\ IsFiniteSet(Ancestors[b])
      /\ Cardinality(Ancestors[b]) = Cardinality(I) <=> f \in Surjection(Ancestors[b], I)
  BY <1>5, <1>6, FS_Injection
<1> QED
  BY <1>5, <1>6, <1>7


\* The block after x on the way to y.
LEMMA SuccessorFacts ==
    ASSUME NEW y \in Blocks, NEW x \in Ancestors[y], x # y
    PROVE  /\ Successor(x, y) \in Ancestors[y] /\ Successor(x, y) \in Blocks
           /\ Successor(x, y) # Root /\ Prev[Successor(x, y)] = x
<1>1. \E n \in Ancestors[y] \ {Root} : Prev[n] = x
  BY TreeAssumption
<1>2. Successor(x, y) \in Ancestors[y] \ {Root} /\ Prev[Successor(x, y)] = x
  BY <1>1 DEF Successor
<1> QED
  BY <1>2, TreeFacts

\* Two chains have a last common block.
LEMMA ForkFacts ==
    ASSUME NEW x \in Blocks, NEW y \in Blocks
    PROVE  LET f == getForkBlock(x, y)
           IN  /\ f \in Ancestors[x] /\ f \in Ancestors[y]
               /\ \A c \in Ancestors[x] : c \in Ancestors[y] => c \in Ancestors[f]
<1> DEFINE common == Ancestors[x] \cap Ancestors[y]
           distances == {Height[x] - Height[c] : c \in common}
<1>1. \A c \in common : c \in Blocks /\ Height[c] \in Nat /\ Height[c] <= Height[x]
  BY TreeFacts, HeightAssumption
<1>2. distances \in SUBSET Nat
  <2>1. Height[x] \in Nat
    BY HeightAssumption
  <2> QED
    BY <1>1, <2>1
<1>3. distances # {}
  <2>1. Root \in common
    BY TreeFacts
  <2> QED
    BY <2>1
<1>4. PICK n \in distances : \A m \in distances : n <= m
  BY <1>2, <1>3, LeastNatural
<1>5. PICK f \in common : n = Height[x] - Height[f]
  BY <1>4
<1>6. \A c \in common : Height[c] <= Height[f]
  <2> SUFFICES ASSUME NEW c \in common PROVE Height[c] <= Height[f]
    OBVIOUS
  <2>1. Height[x] - Height[f] <= Height[x] - Height[c]
    BY <1>4, <1>5
  <2> QED
    BY <1>1, <2>1, HeightAssumption
<1>7. \A c \in common : c \in Ancestors[f]
  <2> SUFFICES ASSUME NEW c \in common PROVE c \in Ancestors[f]
    OBVIOUS
  <2>1. CASE f \in Ancestors[c]
    <3>1. Height[f] <= Height[c] /\ (Height[f] = Height[c] => f = c)
      BY <1>1, <2>1, HeightAssumption
    <3> QED
      BY <1>1, <1>6, <3>1, TreeFacts
  <2> QED
    BY <2>1, TreeFacts
<1> QED
  BY <1>7 DEF getForkBlock

\* What a body holds.
LEMMA CommandsFacts ==
    ASSUME TypeOK, NEW b \in Blocks
    PROVE  /\ CommandsOf(b) \in Seq(CommandSet)
           /\ Len(CommandsOf(b)) \in Nat /\ DOMAIN CommandsOf(b) = 1 .. Len(CommandsOf(b))
           /\ \A i \in DOMAIN CommandsOf(b) :
                 /\ CommandsOf(b)[i].op \in {"AddBlock", "AddEndorsement"}
                 /\ CommandsOf(b)[i].vbk \in VbkBlocks
                 /\ CommandsOf(b)[i].op = "AddEndorsement" =>
                       /\ CommandsOf(b)[i].endorsed \in Blocks
                       /\ CommandsOf(b)[i].id \in PayloadIds
<1>1. CommandsOf(b) \in Seq(CommandSet)
  BY VbkAssumption DEF TypeOK, CommandsOf
<1>2. Len(CommandsOf(b)) \in Nat /\ DOMAIN CommandsOf(b) = 1 .. Len(CommandsOf(b))
  BY <1>1
<1>3. \A i \in DOMAIN CommandsOf(b) : CommandsOf(b)[i] \in CommandSet
  BY <1>1
<1>4. \A c \in CommandSet : /\ c.op \in {"AddBlock", "AddEndorsement"}
                            /\ c.vbk \in VbkBlocks
                            /\ c.op = "AddEndorsement" => c.endorsed \in Blocks /\ c.id \in PayloadIds
  BY DEF CommandSet
<1> QED
  BY <1>1, <1>2, <1>3, <1>4

IsExecuted(x, i) ==
    \/ x \in active /\ (job = NoJob \/ job.block # x) /\ i \in DOMAIN CommandsOf(x)
    \/ job # NoJob /\ x = job.block /\ i \in 1 .. job.done

\* The members of Executed, one by one.
LEMMA ExecutedFacts ==
    /\ \A x, i : <<x, i>> \in Executed <=> IsExecuted(x, i)
    /\ \A e \in Executed : e = <<e[1], e[2]>>
<1> DEFINE whole == {x \in active : job = NoJob \/ job.block # x}
           part  == IF job = NoJob THEN {} ELSE {<<job.block, i>> : i \in 1 .. job.done}
           rest  == UNION {{<<x, i>> : i \in DOMAIN CommandsOf(x)} : x \in whole}
<1>1. Executed = rest \cup part
  BY DEF Executed
<1>2. /\ \A e : e \in rest <=> \E x \in whole : \E i \in DOMAIN CommandsOf(x) : e = <<x, i>>
      /\ \A e : e \in part <=> job # NoJob /\ \E i \in 1 .. job.done : e = <<job.block, i>>
  OBVIOUS
<1>3. \A x, i : <<x, i>> \in rest <=>
                 x \in active /\ (job = NoJob \/ job.block # x) /\ i \in DOMAIN CommandsOf(x)
  BY <1>2
<1>4. \A x, i : <<x, i>> \in part <=> job # NoJob /\ x = job.block /\ i \in 1 .. job.done
  BY <1>2
<1>5. \A e \in Executed : e = <<e[1], e[2]>>
  BY <1>1, <1>2
<1> HIDE DEF rest, part
<1> QED
  BY <1>1, <1>3, <1>4, <1>5 DEF IsExecuted

\* The members of Positions, one by one.
LEMMA PositionsFacts ==
    ASSUME NEW b
    PROVE  /\ \A d, i : <<d, i>> \in Positions(b) <=>
                           d \in Ancestors[b] /\ i \in DOMAIN CommandsOf(d)
           /\ \A e \in Positions(b) : e = <<e[1], e[2]>>
BY DEF Positions

\* A VBK block is in the VBK tree exactly when an executed command added it.
LEMMA PresentIffProvided ==
    ASSUME VbkTypeOK, ProtectingStateExact, IsFiniteSet(Executed), NEW v \in VbkBlocks
    PROVE  InVbkTree(v) <=> Provided(v, Executed)
<1> DEFINE adds == {e \in Executed : CommandAt(e).op = "AddBlock" /\ CommandAt(e).vbk = v}
<1>1. refs[v] = Cardinality(adds) + (IF v = VbkRoot THEN 1 ELSE 0)
  BY DEF ProtectingStateExact
<1>2. IsFiniteSet(adds) /\ Cardinality(adds) \in Nat
  BY FS_Subset, FS_CardinalityType
<1>3. Cardinality(adds) = 0 <=> adds = {}
  BY <1>2, FS_EmptySet
<1>4. adds = {} <=> ~ \E e \in Executed : CommandAt(e).op = "AddBlock" /\ CommandAt(e).vbk = v
  OBVIOUS
<1> HIDE DEF adds
<1> QED
  BY <1>1, <1>2, <1>3, <1>4 DEF InVbkTree, Provided

\* More executed commands support at least as much.
LEMMA SupportedMonotone ==
    ASSUME NEW f, NEW S, NEW T, S \subseteq T, Supported(f, S)
    PROVE  Supported(f, T)
BY DEF Supported, Provided

\* The commands a command of the chain of d may rely on are those before it on its
\* own chain.
LEMMA AppliesAloneFacts ==
    ASSUME TypeOK, NEW d \in Blocks
    PROVE  AppliesAlone(d) <=> \A f \in Positions(d) : Supported(f, Earlier(f))
<1> SUFFICES ASSUME NEW f \in Positions(d)
             PROVE  {e \in Positions(d) : Before(e, f)} = Earlier(f)
  BY DEF AppliesAlone
<1>1. f[1] \in Ancestors[d] /\ f[1] \in Blocks
  BY PositionsFacts, TreeFacts
<1>2. ASSUME NEW e \in Positions(d), Before(e, f)
      PROVE  e \in Positions(f[1])
  <2>1. e = <<e[1], e[2]>> /\ e[1] \in Ancestors[d] /\ e[2] \in DOMAIN CommandsOf(e[1])
    BY PositionsFacts
  <2>2. e[1] \in Ancestors[f[1]]
    <3>1. CASE Height[e[1]] < Height[f[1]]
      <4>1. f[1] \notin Ancestors[e[1]]
        BY <1>1, <2>1, <3>1, TreeFacts, HeightAssumption
      <4> QED
        BY <1>1, <2>1, <4>1, TreeFacts
    <3> QED
      BY <1>1, <1>2, <3>1, TreeFacts DEF Before
  <2> QED
    BY <2>1, <2>2, PositionsFacts
<1>3. ASSUME NEW e \in Positions(f[1])
      PROVE  e \in Positions(d)
  <2>1. e = <<e[1], e[2]>> /\ e[1] \in Ancestors[f[1]] /\ e[2] \in DOMAIN CommandsOf(e[1])
    BY PositionsFacts
  <2>2. e[1] \in Ancestors[d]
    BY <1>1, <2>1, TreeFacts
  <2> QED
    BY <2>1, <2>2, PositionsFacts
<1> QED
  BY <1>2, <1>3 DEF Earlier

-----------------------------------------------------------------------------
(* What a state with the invariant looks like.                              *)

\* The types of an operation and the blocks that are applied while it runs.
LEMMA OperationFacts ==
    ASSUME ControlInv, ~idle
    PROVE  /\ sm \in Operations /\ sm.phase \in Phases
           /\ sm.to \in Blocks /\ sm.fork \in Blocks /\ sm.a \in Blocks /\ sm.b \in Blocks
           /\ tip \in Blocks
           /\ active = Ancestors[sm.a] \cup Ancestors[sm.b]
           /\ Ancestors[sm.a] \subseteq Ancestors[tip]
           /\ Ancestors[sm.b] \subseteq Ancestors[sm.to]
           /\ \A x \in Ancestors[sm.to] : x \in inTree /\ level[x] >= CONNECTED
           /\ ~isFailed(sm.to) => \A x \in Ancestors[sm.to] : ~isFailed(x)
<1>1. /\ sm \in Operations /\ sm.phase \in Phases
      /\ sm.to \in Blocks /\ sm.fork \in Blocks /\ sm.a \in Blocks /\ sm.b \in Blocks
  BY DEF ControlInv, Control, Operations, idle
<1>2. tip \in Blocks
  BY DEF ControlInv, IInv, TypeOK
<1>3. active = Ancestors[sm.a] \cup Ancestors[sm.b]
  BY DEF ControlInv, Applied, AppliedExact
<1>4. Ancestors[sm.a] \subseteq Ancestors[tip] /\ Ancestors[sm.b] \subseteq Ancestors[sm.to]
  BY <1>1, <1>2, TreeFacts DEF ControlInv, Paths
<1>5. sm.to \in inTree /\ level[sm.to] >= CONNECTED /\ level[sm.to] \in Levels
  BY <1>1 DEF ControlInv, Paths, isConnected, IInv, TypeOK
<1>6. \A x \in Ancestors[sm.to] : x \in inTree /\ level[x] >= CONNECTED
  <2> SUFFICES ASSUME NEW x \in Ancestors[sm.to]
               PROVE  x \in inTree /\ level[x] >= CONNECTED
    OBVIOUS
  <2>1. x \in inTree /\ level[sm.to] <= level[x] /\ level[x] \in Levels
    BY <1>1, <1>5, TreeFacts DEF ControlInv, IInv, Shape, LevelsOrdered, TypeOK
  <2> QED
    BY <1>5, <2>1 DEF Levels, CONNECTED, VALID_UNKNOWN, CAN_BE_APPLIED
<1>7. ~isFailed(sm.to) => \A x \in Ancestors[sm.to] : ~isFailed(x)
  <2>1. ~isFailed(sm.to) => isValid(sm.to)
    BY <1>5 DEF isValid, Levels, VALID_TREE, CONNECTED, VALID_UNKNOWN, CAN_BE_APPLIED
  <2> QED
    BY <1>5, <2>1, ValidChain DEF ControlInv
<1> QED
  BY <1>1, <1>2, <1>3, <1>4, <1>6, <1>7

\* The next block to apply, or the one that is being applied, is not applied yet;
\* everything below it is.
LEMMA NextBlock ==
    ASSUME ControlInv, ~idle, NEW n \in Blocks \ {Root},
           \/ sm.phase = "applyNew" /\ n \in Ancestors[sm.to] /\ Prev[n] = sm.b
           \/ sm.phase = "reapplyOld" /\ n \in Ancestors[tip] /\ Prev[n] = sm.a
    PROVE  n \notin active /\ Ancestors[Prev[n]] \subseteq active
<1> USE TreeFacts
<1>1. /\ active = Ancestors[sm.a] \cup Ancestors[sm.b]
      /\ {sm.a, sm.b, sm.to, sm.fork, tip} \subseteq Blocks
  BY OperationFacts
<1>2. /\ n \notin Ancestors[Prev[n]] /\ Ancestors[n] = Ancestors[Prev[n]] \cup {n}
      /\ Prev[n] \in Ancestors[n] /\ Prev[n] # n
  BY PrevFacts
<1>3. CASE sm.phase = "applyNew" /\ n \in Ancestors[sm.to] /\ Prev[n] = sm.b
  <2>1. ASSUME n \in Ancestors[sm.a] PROVE FALSE
    <3>1. n \in Ancestors[tip]
      BY <1>1, <2>1, OperationFacts
    <3>2. n \in Ancestors[sm.fork]
      BY <1>3, <3>1 DEF ControlInv, Paths
    <3>3. n \in Ancestors[sm.b]
      BY <1>1, <3>2 DEF ControlInv, Paths
    <3> QED
      BY <1>2, <1>3, <3>3
  <2> QED
    BY <1>1, <1>2, <1>3, <2>1
<1>4. CASE sm.phase = "reapplyOld" /\ n \in Ancestors[tip] /\ Prev[n] = sm.a
  <2>1. sm.b = sm.fork /\ sm.fork \in Ancestors[sm.a]
    BY <1>4 DEF ControlInv, Paths, PhaseInv
  <2> QED
    BY <1>1, <1>2, <1>4, <2>1
<1> QED
  BY <1>3, <1>4

\* The shape of a job.
LEMMA JobFacts ==
    ASSUME ControlInv, job # NoJob
    PROVE  /\ ~idle /\ job \in Jobs /\ job.block \in Blocks \ {Root} /\ job.done \in Nat
           /\ job.mode \in {"apply", "unapply", "abort"}
           /\ job.done <= Len(CommandsOf(job.block))
           /\ job.mode = "unapply" => job.block \in active
           /\ job.mode \in {"apply", "abort"} =>
                 job.block \notin active /\ Ancestors[Prev[job.block]] \subseteq active
<1>1. /\ ~idle /\ job \in Jobs /\ job.block \in Blocks \ {Root} /\ job.done \in Nat
      /\ job.mode \in {"apply", "unapply", "abort"}
      /\ job.done <= Len(CommandsOf(job.block))
  BY DEF ControlInv, Control, Jobs, JobInv
<1>2. job.mode = "unapply" => job.block \in active
  BY <1>1, OperationFacts, TreeFacts DEF ControlInv, JobInv
<1>3. job.mode \in {"apply", "abort"} =>
                 job.block \notin active /\ Ancestors[Prev[job.block]] \subseteq active
  BY <1>1, NextBlock DEF ControlInv, JobInv
<1> QED
  BY <1>1, <1>2, <1>3

\* Once a block is being applied, everything a command of it may rely on by itself
\* has been executed.
LEMMA EarlierExecuted ==
    ASSUME ControlInv, job # NoJob, job.mode = "apply",
           job.done < Len(CommandsOf(job.block))
    PROVE  /\ <<job.block, job.done + 1>> \in Positions(job.block)
           /\ Earlier(<<job.block, job.done + 1>>) \subseteq Executed
<1> DEFINE f == <<job.block, job.done + 1>>
<1>1. /\ job.block \in Blocks \ {Root} /\ job.done \in Nat
      /\ Ancestors[Prev[job.block]] \subseteq active
      /\ job.block \notin active
  BY JobFacts
<1>2. TypeOK /\ job.block \in Blocks
  BY <1>1 DEF ControlInv, IInv
<1>3. Len(CommandsOf(job.block)) \in Nat /\ DOMAIN CommandsOf(job.block) = 1 .. Len(CommandsOf(job.block))
  BY <1>2, CommandsFacts
<1>4. f \in Positions(job.block)
  BY <1>1, <1>3, PositionsFacts, TreeFacts
<1>5. ASSUME NEW e \in Positions(job.block), Before(e, f)
      PROVE  e \in Executed
  <2>1. /\ e = <<e[1], e[2]>> /\ e[1] \in Ancestors[job.block] /\ e[1] \in Blocks
        /\ e[2] \in DOMAIN CommandsOf(e[1])
    BY <1>2, PositionsFacts, TreeFacts
  <2>2. CASE e[1] = job.block
    <3>1. e[2] < job.done + 1
      <4>1. ~(Height[e[1]] < Height[job.block])
        BY <1>2, <2>2, HeightAssumption
      <4> QED
        BY <1>5, <2>2, <4>1 DEF Before
    <3>2. e[2] \in 1 .. job.done
      BY <1>1, <1>3, <2>1, <2>2, <3>1
    <3>3. IsExecuted(e[1], e[2])
      BY <2>2, <3>2 DEF IsExecuted
    <3> QED
      BY <2>1, <3>3, ExecutedFacts
  <2>3. CASE e[1] # job.block
    <3>1. e[1] \in Ancestors[Prev[job.block]]
      BY <1>1, <2>1, <2>3, PrevFacts
    <3>2. IsExecuted(e[1], e[2])
      BY <1>1, <2>1, <2>3, <3>1 DEF IsExecuted
    <3> QED
      BY <2>1, <3>2, ExecutedFacts
  <2> QED
    BY <2>2, <2>3
<1> QED
  BY <1>4, <1>5 DEF Earlier

\* A command with its support in the VBK tree executes, and only such a command.
LEMMA ExecutesIffSupported ==
    ASSUME ControlInv, VbkInv, job # NoJob, job.mode = "apply",
           job.done < Len(CommandsOf(job.block))
    PROVE  LET f == <<job.block, job.done + 1>>
           IN  /\ Supported(f, Executed) /\ Ancestors[job.block] \subseteq inTree =>
                     CanExecute(job.block, CommandAt(f))
               /\ CanExecute(job.block, CommandAt(f)) /\ VbkTreeClosed => Supported(f, Executed)
<1> DEFINE f == <<job.block, job.done + 1>>
           c == CommandAt(f)
<1>1. job.block \in Blocks \ {Root} /\ job.done \in Nat
  BY JobFacts
<1>2. TypeOK /\ job.block \in Blocks
  BY <1>1 DEF ControlInv, IInv
<1>3. /\ job.done + 1 \in DOMAIN CommandsOf(job.block)
      /\ c = CommandsOf(job.block)[job.done + 1]
  BY <1>1, <1>2, CommandsFacts DEF CommandAt
<1>4. /\ c.op \in {"AddBlock", "AddEndorsement"}
      /\ c.vbk \in VbkBlocks
      /\ c.op = "AddEndorsement" => c.endorsed \in Blocks
  BY <1>2, <1>3, CommandsFacts
<1>5. \A v \in VbkBlocks : InVbkTree(v) <=> Provided(v, Executed)
  BY PresentIffProvided DEF VbkInv
<1>6. f[1] = job.block
  OBVIOUS
<1> HIDE DEF f, c
<1>7. c.vbk # VbkRoot => VbkPrev[c.vbk] \in VbkBlocks
  BY <1>4, VbkAssumption
<1>8. Provided(VbkRoot, Executed) /\ VbkRoot \in VbkBlocks
  BY VbkAssumption DEF Provided
<1>9. CASE c.op = "AddBlock"
  <2>1. CanExecute(job.block, c) <=> InVbkTree(c.vbk) \/ InVbkTree(VbkPrev[c.vbk])
    BY <1>9 DEF CanExecute, CanAddBlock
  <2>2. Supported(f, Executed) <=> c.vbk = VbkRoot \/ Provided(VbkPrev[c.vbk], Executed)
    BY <1>9 DEF Supported, c
  <2>3. VbkTreeClosed /\ c.vbk # VbkRoot /\ InVbkTree(c.vbk) => InVbkTree(VbkPrev[c.vbk])
    BY <1>4 DEF VbkTreeClosed
  <2> QED
    BY <1>4, <1>5, <1>7, <1>8, <2>1, <2>2, <2>3 DEF f, c
<1>10. CASE c.op = "AddEndorsement"
  <2>1. CanExecute(job.block, c) <=>
           /\ c.endorsed \in inTree \cap Ancestors[job.block]
           /\ Height[job.block] - Height[c.endorsed] <= EndorsementSettlementInterval
           /\ InVbkTree(c.vbk)
    BY <1>10 DEF CanExecute, CanAddEndorsement
  <2>2. Supported(f, Executed) <=>
           /\ Provided(c.vbk, Executed)
           /\ c.endorsed \in Ancestors[job.block]
           /\ Height[job.block] - Height[c.endorsed] <= EndorsementSettlementInterval
    BY <1>6, <1>10 DEF Supported, c
  <2> QED
    BY <1>4, <1>5, <2>1, <2>2 DEF f, c
<1> QED
  BY <1>4, <1>9, <1>10

\* Applied blocks have their ancestors applied.
LEMMA ActiveClosed ==
    ASSUME ControlInv
    PROVE  active \subseteq Blocks /\ \A x \in active : Ancestors[x] \subseteq active
<1>1. CASE idle
  <2>1. active = Ancestors[tip] /\ tip \in Blocks
    BY <1>1 DEF ControlInv, Applied, AppliedExact, IInv, TypeOK
  <2> QED
    BY <2>1, TreeFacts
<1>2. CASE ~idle
  BY <1>2, OperationFacts, TreeFacts
<1> QED
  BY <1>1, <1>2

\* No applied block stands on the block that is being applied or unapplied, and
\* when the whole old chain is applied that block is not on it.
LEMMA JobOnTop ==
    ASSUME ControlInv, job # NoJob
    PROVE  /\ \A x \in active : job.block \in Ancestors[x] => x = job.block
           /\ Helped => job.block \notin Ancestors[tip]
<1> USE TreeFacts
<1>1. /\ ~idle /\ job.block \in Blocks \ {Root}
      /\ job.mode \in {"apply", "unapply", "abort"}
      /\ job.mode \in {"apply", "abort"} => job.block \notin active
  BY JobFacts
<1>2. /\ active = Ancestors[sm.a] \cup Ancestors[sm.b]
      /\ {sm.a, sm.b, sm.to, sm.fork, tip} \subseteq Blocks
      /\ Ancestors[sm.a] \subseteq Ancestors[tip] /\ Ancestors[sm.b] \subseteq Ancestors[sm.to]
  BY <1>1, OperationFacts
<1>3. CASE job.mode \in {"apply", "abort"}
  BY <1>1, <1>2, <1>3, ActiveClosed DEF Helped
<1>4. CASE job.mode = "unapply"
  <2>1. \/ sm.phase = "unapplyOld" /\ job.block = sm.a /\ sm.a # sm.fork
        \/ sm.phase \in {"trimNew", "undoNew"} /\ job.block = sm.b /\ sm.b # sm.fork
    BY <1>4 DEF ControlInv, JobInv
  <2>2. /\ sm.fork \in Ancestors[sm.a] /\ sm.fork \in Ancestors[sm.b]
        /\ \A c \in Ancestors[tip] : c \in Ancestors[sm.to] => c \in Ancestors[sm.fork]
    BY <1>1 DEF ControlInv, Paths
  <2>3. CASE sm.phase = "unapplyOld" /\ job.block = sm.a /\ sm.a # sm.fork
    <3>1. sm.a \notin Ancestors[sm.b]
      BY <1>2, <2>2, <2>3
    <3> QED
      BY <1>2, <2>3, <3>1 DEF Helped
  <2>4. CASE sm.phase \in {"trimNew", "undoNew"} /\ job.block = sm.b /\ sm.b # sm.fork
    <3>1. sm.b \notin Ancestors[tip]
      BY <1>2, <2>2, <2>4
    <3> QED
      BY <1>2, <2>4, <3>1
  <2> QED
    BY <2>1, <2>3, <2>4
<1> QED
  BY <1>1, <1>3, <1>4

\* Whatever supports an executed command has been executed.
LEMMA SupportExecuted ==
    ASSUME ControlInv, NEW f \in Executed
    PROVE  Support(f) \subseteq Executed
<1> USE TreeFacts
<1>1. f = <<f[1], f[2]>> /\ IsExecuted(f[1], f[2])
  BY ExecutedFacts
<1>2. /\ f[1] \in Blocks
      /\ \A d \in Ancestors[f[1]] : d # f[1] => d \in active
      /\ \A d \in Ancestors[f[1]] : d # f[1] => job = NoJob \/ job.block # d
  <2>1. CASE f[1] \in active
    BY <2>1, ActiveClosed, JobOnTop
  <2>2. CASE f[1] \notin active
    <3>1. /\ job # NoJob /\ f[1] = job.block /\ job.block \in Blocks \ {Root}
          /\ Ancestors[Prev[job.block]] \subseteq active /\ job.block \notin active
      BY <1>1, <2>2, JobFacts DEF IsExecuted
    <3> QED
      BY <3>1, PrevFacts
  <2> QED
    BY <2>1, <2>2
<1>3. ASSUME NEW e \in Positions(f[1]), Before(e, f)
      PROVE  e \in Executed
  <2>1. /\ e = <<e[1], e[2]>> /\ e[1] \in Ancestors[f[1]]
        /\ e[2] \in DOMAIN CommandsOf(e[1])
    BY PositionsFacts
  <2>2. CASE e[1] = f[1]
    <3>1. ~(Height[e[1]] < Height[f[1]])
      BY <1>2, <2>2, HeightAssumption
    <3>2. e[2] < f[2]
      BY <1>3, <2>2, <3>1 DEF Before
    <3>3. IsExecuted(e[1], e[2])
      <4>1. CASE job = NoJob \/ job.block # f[1]
        BY <1>1, <2>1, <2>2, <4>1 DEF IsExecuted
      <4>2. CASE job # NoJob /\ job.block = f[1]
        <5>1. f[2] \in 1 .. job.done /\ job.done \in Nat
          BY <1>1, <4>2, JobFacts DEF IsExecuted
        <5>2. e[2] \in Nat /\ e[2] >= 1
          BY <1>2, <2>1, <2>2, CommandsFacts DEF ControlInv, IInv
        <5> QED
          BY <2>2, <3>2, <4>2, <5>1, <5>2 DEF IsExecuted
      <4> QED
        BY <4>1, <4>2
    <3> QED
      BY <2>1, <3>3, ExecutedFacts
  <2>3. CASE e[1] # f[1]
    <3>1. IsExecuted(e[1], e[2])
      BY <1>2, <2>1, <2>3 DEF IsExecuted
    <3> QED
      BY <2>1, <3>1, ExecutedFacts
  <2> QED
    BY <2>2, <2>3
<1>4. ASSUME Helped, NEW e \in Positions(tip)
      PROVE  e \in Executed
  <2>1. /\ e = <<e[1], e[2]>> /\ e[1] \in Ancestors[tip]
        /\ e[2] \in DOMAIN CommandsOf(e[1])
    BY PositionsFacts
  <2>2. e[1] \in active /\ (job = NoJob \/ job.block # e[1])
    BY <1>4, <2>1, OperationFacts, JobOnTop DEF Helped
  <2>3. IsExecuted(e[1], e[2])
    BY <2>1, <2>2 DEF IsExecuted
  <2> QED
    BY <2>1, <2>3, ExecutedFacts
<1> QED
  BY <1>3, <1>4 DEF Support, Earlier

\* The VBK tree has no holes: what executed commands rely on is there.
LEMMA ClosedFacts ==
    ASSUME ControlInv, VbkInv
    PROVE  VbkTreeClosed
<1>1. \A v \in VbkBlocks : InVbkTree(v) <=> Provided(v, Executed)
  BY PresentIffProvided DEF VbkInv
<1>2. \A f \in Executed : Supported(f, Executed)
  BY SupportExecuted, SupportedMonotone DEF VbkInv, ExecutedSupported
<1>3. \A f \in Executed : /\ f[1] \in Blocks /\ f[2] \in DOMAIN CommandsOf(f[1])
                          /\ CommandAt(f) = CommandsOf(f[1])[f[2]]
  <2> SUFFICES ASSUME NEW f \in Executed
               PROVE  f[1] \in Blocks /\ f[2] \in DOMAIN CommandsOf(f[1])
    BY DEF CommandAt
  <2>1. IsExecuted(f[1], f[2])
    BY ExecutedFacts
  <2>2. f[1] \in Blocks
    BY <2>1, ActiveClosed, JobFacts DEF IsExecuted
  <2>3. Len(CommandsOf(f[1])) \in Nat /\ DOMAIN CommandsOf(f[1]) = 1 .. Len(CommandsOf(f[1]))
    BY <2>2, CommandsFacts DEF ControlInv, IInv
  <2> QED
    BY <2>1, <2>2, <2>3, JobFacts DEF IsExecuted
<1>4. \A f \in Executed : CommandAt(f).vbk \in VbkBlocks
  BY <1>3, CommandsFacts DEF ControlInv, IInv
<1>5. ASSUME NEW v \in VbkBlocks \ {VbkRoot}, InVbkTree(v)
      PROVE  InVbkTree(VbkPrev[v])
  <2>1. PICK f \in Executed : CommandAt(f).op = "AddBlock" /\ CommandAt(f).vbk = v
    BY <1>1, <1>5 DEF Provided
  <2>2. Provided(VbkPrev[v], Executed)
    BY <1>2, <1>5, <2>1 DEF Supported
  <2> QED
    BY <1>1, <2>2, VbkAssumption
<1>6. ASSUME NEW e \in endorsements
      PROVE  InVbkTree(e.vbk)
  <2>1. PICK f \in Executed : /\ CommandAt(f).op = "AddEndorsement"
                              /\ e = Endorsement(f[1], CommandAt(f))
    BY DEF VbkInv, ProtectingStateExact
  <2>2. e.vbk = CommandAt(f).vbk /\ Provided(CommandAt(f).vbk, Executed)
    BY <1>2, <2>1 DEF Supported, Endorsement
  <2> QED
    BY <1>1, <1>4, <2>2
<1> QED
  BY <1>5, <1>6 DEF VbkTreeClosed

\* A block that has been applied alone can be applied again, beside whatever is
\* applied: only a block that never was may be refused, and never one of the old
\* chain.
LEMMA RefusedFacts ==
    ASSUME ControlInv, VbkInv, job # NoJob, job.mode = "apply",
           job.done < Len(CommandsOf(job.block)),
           ~CanExecute(job.block, CommandsOf(job.block)[job.done + 1])
    PROVE  /\ level[job.block] < CAN_BE_APPLIED
           /\ sm.phase = "applyNew" /\ job.block \in Ancestors[sm.to] /\ Prev[job.block] = sm.b
<1> DEFINE f == <<job.block, job.done + 1>>
<1>1. job.block \in Blocks \ {Root} /\ ~idle
  BY JobFacts
<1>2. TypeOK /\ job.block \in Blocks /\ level[job.block] \in Levels
  BY <1>1 DEF ControlInv, IInv, TypeOK
<1>3. \/ sm.phase = "applyNew" /\ job.block \in Ancestors[sm.to] /\ Prev[job.block] = sm.b
      \/ sm.phase = "reapplyOld" /\ job.block \in Ancestors[tip] /\ Prev[job.block] = sm.a
  BY DEF ControlInv, JobInv
<1>4. job.block \in inTree /\ Ancestors[job.block] \subseteq inTree
  <2>1. job.block \in inTree
    BY <1>1, <1>3, OperationFacts DEF ControlInv, IInv, ActiveChainValid
  <2> QED
    BY <2>1 DEF ControlInv, IInv, Shape, LevelsOrdered
<1>5. ASSUME level[job.block] = CAN_BE_APPLIED
      PROVE  FALSE
  <2>1. AppliesAlone(job.block)
    BY <1>4, <1>5 DEF VbkInv, CanBeAppliedAlone
  <2>2. f \in Positions(job.block) /\ Earlier(f) \subseteq Executed
    BY EarlierExecuted
  <2>3. Supported(f, Earlier(f))
    BY <1>2, <2>1, <2>2, AppliesAloneFacts
  <2>4. Supported(f, Executed)
    BY <2>2, <2>3, SupportedMonotone
  <2>5. CanExecute(job.block, CommandAt(f))
    BY <1>4, <2>4, ExecutesIffSupported
  <2> QED
    BY <2>5 DEF CommandAt
<1>6. level[job.block] < CAN_BE_APPLIED
  BY <1>2, <1>5 DEF Levels, CAN_BE_APPLIED, VALID_UNKNOWN
<1>7. ~(job.block \in Ancestors[tip])
  BY <1>5 DEF ControlInv, IInv, ActiveChainValid
<1> QED
  BY <1>3, <1>6, <1>7

-----------------------------------------------------------------------------
(* Steps inside an operation: the tree, the control and the applied blocks. *)

\* A step that leaves the tree alone.
LEMMA SameTree ==
    ASSUME IInv, UNCHANGED vars
    PROVE  /\ IInv'
           /\ \A x : isFailed(x)' <=> isFailed(x)
           /\ \A x : CommandsOf(x)' = CommandsOf(x)
           /\ tip' = tip /\ level' = level /\ inTree' = inTree
<1> USE DEF vars, statusVars, payloadVars
<1>1. IInv'
  BY DEF IInv, TypeOK, Shape, Flags, KnownClosed, LevelsOrdered, DeletedBare, UnraisedFailed,
         BodyNeedsLevel, ConnectedExact, FailedDown, FailedChildExact, AppliedNeverFailedPop,
         ActiveChainValid, isFailed, isConnected
<1> QED
  BY <1>1 DEF isFailed, CommandsOf

\* The next phase, when what it relies on holds.
LEMMA GoToStep ==
    ASSUME ControlInv, ~idle, job = NoJob, NEW p \in Phases, GoTo(p),
           p \in {"applyNew", "decide", "trimNew"} => ~isFailed(sm.to),
           p = "unapplyOld" => sm.b = sm.fork \/ (~isFailed(sm.to) /\ level[sm.b] = CAN_BE_APPLIED),
           p \in {"applyNew", "undoNew"} => /\ sm.a = tip \/ sm.a = sm.fork
                                            /\ sm.a = sm.fork => level[sm.b] = CAN_BE_APPLIED,
           p \in {"decide", "trimNew"} => sm.a = tip /\ sm.a # sm.fork,
           p = "reapplyOld" => sm.b = sm.fork,
           sm.then = "switch" \/ p = "unapplyOld"
    PROVE  ControlInv'
<1>1. /\ sm' = [sm EXCEPT !.phase = p] /\ UNCHANGED vars
      /\ active' = active /\ appliedBlockCount' = appliedBlockCount /\ job' = job
  BY DEF GoTo, appliedVars
<1>2. sm \in Operations
  BY OperationFacts
<1>3. /\ sm' \in Operations /\ sm'.phase = p
      /\ sm'.to = sm.to /\ sm'.fork = sm.fork /\ sm'.a = sm.a /\ sm'.b = sm.b
      /\ sm'.then = sm.then /\ sm'.block = sm.block /\ sm'.reason = sm.reason
  BY <1>1, <1>2 DEF Operations
<1>4. ~idle' /\ "idle" \notin Phases
  <2>1. Idle.phase = "idle" /\ "idle" \notin Phases
    BY DEF Idle, Phases
  <2> QED
    BY <1>3, <2>1 DEF idle
<1>5. /\ IInv' /\ tip' = tip /\ level' = level /\ inTree' = inTree
      /\ isFailed(sm.to)' <=> isFailed(sm.to)
  BY <1>1, <1>3, SameTree DEF ControlInv, isFailed, vars, statusVars
<1>6. Control' /\ JobInv'
  BY <1>1, <1>3, <1>4 DEF Control, JobInv
<1>7. Paths'
  BY <1>1, <1>3, <1>5 DEF ControlInv, Paths, isConnected
<1>8. PhaseInv'
  BY <1>3, <1>5 DEF ControlInv, PhaseInv
<1>9. Applied'
  BY <1>1, <1>3, <1>4 DEF ControlInv, Applied, AppliedExact
<1> QED
  BY <1>5, <1>6, <1>7, <1>8, <1>9 DEF ControlInv

\* A job begins: the block is next on one of the chains, or last.
LEMMA StartStep ==
    ASSUME ControlInv, ~idle, NEW x \in Blocks \ {Root},
           \/ startUnapply(x) /\ \/ sm.phase = "unapplyOld" /\ x = sm.a /\ sm.a # sm.fork
                                 \/ sm.phase \in {"trimNew", "undoNew"} /\ x = sm.b /\ sm.b # sm.fork
           \/ startApply(x) /\ \/ sm.phase = "applyNew" /\ x \in Ancestors[sm.to] /\ Prev[x] = sm.b
                               \/ sm.phase = "reapplyOld" /\ x \in Ancestors[tip] /\ Prev[x] = sm.a
    PROVE  ControlInv'
<1>1. /\ UNCHANGED vars /\ sm' = sm
      /\ active' = active /\ appliedBlockCount' = appliedBlockCount
  BY DEF startApply, startUnapply, appliedVars
<1>2. x \in Blocks /\ Len(CommandsOf(x)) \in Nat
  BY CommandsFacts DEF ControlInv, IInv
<1>3. /\ IInv' /\ tip' = tip /\ level' = level /\ inTree' = inTree
      /\ \A y : isFailed(y)' <=> isFailed(y)
      /\ CommandsOf(x)' = CommandsOf(x)
  BY <1>1, SameTree DEF ControlInv
<1>4. Control'
  <2>1. job' \in Jobs
    BY <1>2 DEF startApply, startUnapply, Jobs
  <2> QED
    BY <1>1, <2>1 DEF ControlInv, Control, idle
<1>5. Paths'
  BY <1>1, <1>3 DEF ControlInv, Paths, isConnected, idle
<1>6. PhaseInv'
  <2>1. isFailed(sm.to)' <=> isFailed(sm.to)
    BY <1>1 DEF isFailed, vars, statusVars
  <2> QED
    BY <1>1, <1>3, <2>1 DEF ControlInv, PhaseInv, idle
<1>7. JobInv'
  <2>1. CASE startApply(x)
    <3>1. job'.block = x /\ job'.mode = "apply" /\ job'.done = 0
      BY <2>1 DEF startApply
    <3>2. CommandsOf(job.block)' = CommandsOf(x)
      BY <1>1, <3>1 DEF CommandsOf, vars, payloadVars
    <3>3. ~startUnapply(x)
      BY <3>1 DEF startUnapply
    <3> QED
      BY <1>1, <1>2, <1>3, <3>1, <3>2, <3>3 DEF JobInv
  <2>2. CASE startUnapply(x)
    <3>1. job'.block = x /\ job'.mode = "unapply" /\ job'.done = Len(CommandsOf(x))
      BY <2>2 DEF startUnapply
    <3>2. CommandsOf(job.block)' = CommandsOf(x)
      BY <1>1, <3>1 DEF CommandsOf, vars, payloadVars
    <3>3. ~startApply(x)
      BY <3>1 DEF startApply
    <3> QED
      BY <1>1, <1>2, <1>3, <3>1, <3>2, <3>3 DEF JobInv
  <2> QED
    BY <2>1, <2>2
<1>8. Applied'
  BY <1>1, <1>3 DEF ControlInv, Applied, AppliedExact, idle
<1> QED
  BY <1>3, <1>4, <1>5, <1>6, <1>7, <1>8 DEF ControlInv

\* A command is executed, refused or taken back.
LEMMA CommandStep ==
    ASSUME ControlInv, VbkInv, ExecuteCommand \/ UnExecuteCommand
    PROVE  ControlInv'
<1>1. /\ UNCHANGED vars /\ sm' = sm
      /\ active' = active /\ appliedBlockCount' = appliedBlockCount
  BY DEF ExecuteCommand, UnExecuteCommand, appliedVars
<1>2. job # NoJob
  BY DEF ExecuteCommand, UnExecuteCommand, NoJob
<1>3. /\ ~idle /\ job \in Jobs /\ job.block \in Blocks \ {Root} /\ job.done \in Nat
      /\ job.done <= Len(CommandsOf(job.block)) /\ Len(CommandsOf(job.block)) \in Nat
  BY <1>2, JobFacts, CommandsFacts DEF ControlInv, IInv
<1>4. /\ IInv' /\ tip' = tip /\ level' = level /\ inTree' = inTree
  BY <1>1, SameTree DEF ControlInv
<1>5. Paths' /\ Applied'
  BY <1>1, <1>4 DEF ControlInv, Paths, isConnected, idle, Applied, AppliedExact
<1>6. PhaseInv'
  <2>1. isFailed(sm.to)' <=> isFailed(sm.to)
    BY <1>1 DEF isFailed, vars, statusVars
  <2> QED
    BY <1>1, <1>4, <2>1 DEF ControlInv, PhaseInv, idle
<1>7. Control' /\ JobInv'
  <2>1. CASE ExecuteCommand
    <3> DEFINE c == CommandsOf(job.block)[job.done + 1]
    <3>1. job.mode = "apply" /\ job.done < Len(CommandsOf(job.block))
      BY <2>1 DEF ExecuteCommand
    <3>2. CASE CanExecute(job.block, c)
      <4>1. job' = [job EXCEPT !.done = @ + 1]
        BY <2>1, <3>2 DEF ExecuteCommand
      <4>2. /\ job' \in Jobs /\ job'.block = job.block /\ job'.mode = job.mode
            /\ job'.done = job.done + 1
        BY <1>3, <4>1 DEF Jobs
      <4>3. CommandsOf(job.block)' = CommandsOf(job.block)
        BY <1>1, <4>2 DEF CommandsOf, vars, payloadVars
      <4> QED
        BY <1>1, <1>2, <1>3, <1>4, <3>1, <4>2, <4>3 DEF ControlInv, Control, JobInv, idle
    <3>3. CASE ~CanExecute(job.block, c)
      <4>1. job' = [job EXCEPT !.mode = "abort"]
        BY <2>1, <3>3 DEF ExecuteCommand
      <4>2. /\ job' \in Jobs /\ job'.block = job.block /\ job'.mode = "abort"
            /\ job'.done = job.done
        BY <1>3, <4>1 DEF Jobs
      <4>3. CommandsOf(job.block)' = CommandsOf(job.block)
        BY <1>1, <4>2 DEF CommandsOf, vars, payloadVars
      <4>4. /\ level[job.block] < CAN_BE_APPLIED
            /\ sm.phase = "applyNew" /\ job.block \in Ancestors[sm.to] /\ Prev[job.block] = sm.b
        BY <1>2, <3>1, <3>3, RefusedFacts
      <4> QED
        BY <1>1, <1>2, <1>3, <1>4, <4>2, <4>3, <4>4 DEF ControlInv, Control, JobInv, idle
    <3> QED
      BY <3>2, <3>3
  <2>2. CASE UnExecuteCommand
    <3>1. job' = [job EXCEPT !.done = @ - 1] /\ job.done > 0
      BY <2>2 DEF UnExecuteCommand
    <3>2. /\ job' \in Jobs /\ job'.block = job.block /\ job'.mode = job.mode
          /\ job'.done = job.done - 1
      BY <1>3, <3>1 DEF Jobs
    <3>3. CommandsOf(job.block)' = CommandsOf(job.block)
      BY <1>1, <3>2 DEF CommandsOf, vars, payloadVars
    <3> QED
      BY <1>1, <1>2, <1>3, <1>4, <3>2, <3>3 DEF ControlInv, Control, JobInv, idle
  <2> QED
    BY <2>1, <2>2
<1> QED
  BY <1>4, <1>5, <1>6, <1>7 DEF ControlInv

\* The record of the operation after one of its chains moved to x.
LEMMA MovedFacts ==
    ASSUME ControlInv, ~idle, NEW x \in Blocks, sm' = Moved(x)
    PROVE  /\ sm' \in Operations /\ ~idle' /\ sm'.phase = sm.phase
           /\ sm'.to = sm.to /\ sm'.fork = sm.fork
           /\ sm'.then = sm.then /\ sm'.block = sm.block /\ sm'.reason = sm.reason
           /\ sm.phase \in {"unapplyOld", "reapplyOld"} => sm'.a = x /\ sm'.b = sm.b
           /\ sm.phase \notin {"unapplyOld", "reapplyOld"} => sm'.a = sm.a /\ sm'.b = x
<1>1. sm \in Operations
  BY OperationFacts
<1>2. /\ sm' \in Operations /\ sm'.phase = sm.phase
      /\ sm'.to = sm.to /\ sm'.fork = sm.fork
      /\ sm'.then = sm.then /\ sm'.block = sm.block /\ sm'.reason = sm.reason
      /\ sm.phase \in {"unapplyOld", "reapplyOld"} => sm'.a = x /\ sm'.b = sm.b
      /\ sm.phase \notin {"unapplyOld", "reapplyOld"} => sm'.a = sm.a /\ sm'.b = x
  BY <1>1 DEF Moved, Operations
<1>3. ~idle'
  <2>1. Idle.phase = "idle" /\ "idle" \notin Phases /\ sm'.phase \in Phases
    BY <1>2, OperationFacts DEF Idle, Phases
  <2> QED
    BY <2>1 DEF idle
<1> QED
  BY <1>2, <1>3

\* When only the chain of its parent is applied, a block is applied alone: the
\* count says so, and nothing else does.
LEMMA CountFacts ==
    ASSUME ControlInv, ~idle, NEW n \in Blocks \ {Root}, Ancestors[Prev[n]] \subseteq active
    PROVE  /\ appliedBlockCount \in Nat
           /\ Height[n] = Height[Root] + appliedBlockCount <=> active = Ancestors[Prev[n]]
<1>1. IsFiniteSet(active) /\ appliedBlockCount = Cardinality(active)
  BY DEF ControlInv, Applied, AppliedExact
<1>2. Prev[n] \in Blocks /\ Height[n] = Height[Prev[n]] + 1
  BY PrevFacts, HeightAssumption
<1>3. /\ Cardinality(Ancestors[Prev[n]]) = Height[Prev[n]] - Height[Root] + 1
      /\ Height[Prev[n]] \in Nat /\ Height[Root] \in Nat
  BY <1>2, ChainCardinality, HeightAssumption, TreeFacts
<1>4. Cardinality(active) \in Nat
  BY <1>1, FS_CardinalityType
<1>5. Cardinality(active) = Cardinality(Ancestors[Prev[n]]) => active = Ancestors[Prev[n]]
  BY <1>1, FS_Subset
<1> QED
  BY <1>1, <1>2, <1>3, <1>4, <1>5

\* The levels after applyBlock.
LEMMA AppliedLevel ==
    ASSUME ControlInv, BlockApplied
    PROVE  /\ level' \in [Blocks -> Levels]
           /\ \A x \in Blocks \ {job.block} : level'[x] = level[x]
           /\ level[job.block] <= level'[job.block]
           /\ level'[job.block] >= MAYBE_WITH_OTHER
           /\ level'[job.block] > level[job.block] => level'[job.block] <= level[Prev[job.block]]
           /\ sm.phase = "reapplyOld" => level' = level
           /\ (sm.phase = "applyNew" /\ sm.a = sm.fork) => level'[job.block] = CAN_BE_APPLIED
           /\ level'[job.block] = CAN_BE_APPLIED =>
                 \/ level[job.block] = CAN_BE_APPLIED
                 \/ level[Prev[job.block]] = CAN_BE_APPLIED /\ active = Ancestors[Prev[job.block]]
<1> USE DEF VALID_UNKNOWN, CONNECTED, MAYBE_WITH_OTHER, CAN_BE_APPLIED, Levels
<1> DEFINE n == job.block
<1>1. job # NoJob /\ job.mode = "apply"
  BY DEF BlockApplied, NoJob
<1>2. /\ ~idle /\ n \in Blocks \ {Root} /\ Ancestors[Prev[n]] \subseteq active
      /\ \/ sm.phase = "applyNew" /\ n \in Ancestors[sm.to] /\ Prev[n] = sm.b
         \/ sm.phase = "reapplyOld" /\ n \in Ancestors[tip] /\ Prev[n] = sm.a
  BY <1>1, JobFacts DEF ControlInv, JobInv
<1> HIDE DEF n
<1>3. /\ level \in [Blocks -> Levels] /\ Prev[n] \in Blocks /\ tip \in Blocks
      /\ level[n] \in Levels /\ level[Prev[n]] \in Levels
  BY <1>2, PrevFacts DEF ControlInv, IInv, TypeOK
<1>4. LevelOnApply(n) \in Levels /\ LevelOnApply(n) >= 3
  BY DEF LevelOnApply
<1>5. level' = Raised({n}, LevelOnApply(n))
  BY DEF BlockApplied, n
<1>6. /\ level' \in [Blocks -> Levels]
      /\ \A x \in Blocks \ {n} : level'[x] = level[x]
      /\ level'[n] = IF level[n] < LevelOnApply(n) THEN LevelOnApply(n) ELSE level[n]
  BY <1>2, <1>3, <1>4, <1>5 DEF Raised
<1>7. level[Prev[n]] >= 3
  <2>1. sm.phase = "applyNew" => level[Prev[n]] >= 3
    BY <1>2 DEF ControlInv, PhaseInv
  <2>2. sm.phase = "reapplyOld" => level[Prev[n]] = 4
    BY <1>2 DEF ControlInv, Paths, IInv, ActiveChainValid
  <2> QED
    BY <1>2, <2>1, <2>2
<1>8. level'[n] > level[n] => level'[n] <= level[Prev[n]]
  BY <1>3, <1>6, <1>7 DEF LevelOnApply
<1>9. sm.phase = "reapplyOld" => level' = level
  <2>1. sm.phase = "reapplyOld" => level[n] = 4
    BY <1>2 DEF ControlInv, IInv, ActiveChainValid
  <2>2. sm.phase = "reapplyOld" => \A x \in Blocks : level'[x] = level[x]
    BY <1>4, <1>6, <2>1
  <2> QED
    BY <1>3, <1>6, <2>2
<1>10. /\ appliedBlockCount \in Nat
       /\ Height[n] = Height[Root] + appliedBlockCount <=> active = Ancestors[Prev[n]]
  BY <1>2, CountFacts
<1>11. (sm.phase = "applyNew" /\ sm.a = sm.fork) => level'[n] = 4
  <2> SUFFICES ASSUME sm.phase = "applyNew", sm.a = sm.fork PROVE level'[n] = 4
    OBVIOUS
  <2>1. Prev[n] = sm.b /\ level[sm.b] = 4 /\ ~isFailed(sm.to)
    BY <1>2 DEF ControlInv, PhaseInv
  <2>2. ~isFailed(Prev[n])
    BY <1>2, <2>1, OperationFacts DEF ControlInv, Paths
  <2>3. active = Ancestors[Prev[n]]
    <3>1. sm.a \in Ancestors[sm.b] /\ sm.b \in Blocks
      BY <1>2, OperationFacts DEF ControlInv, Paths
    <3>2. Ancestors[sm.a] \subseteq Ancestors[sm.b]
      BY <3>1, TreeFacts
    <3>3. active = Ancestors[sm.a] \cup Ancestors[sm.b]
      BY <1>2, OperationFacts
    <3> QED
      BY <2>1, <3>2, <3>3
  <2>4. LevelOnApply(n) = 4
    BY <1>10, <2>1, <2>2, <2>3 DEF LevelOnApply
  <2> QED
    BY <1>3, <1>6, <2>4
<1>12. level'[n] = 4 => level[n] = 4 \/ (level[Prev[n]] = 4 /\ active = Ancestors[Prev[n]])
  BY <1>3, <1>6, <1>10 DEF LevelOnApply
<1> QED
  BY <1>3, <1>4, <1>6, <1>8, <1>9, <1>11, <1>12 DEF n

\* applyBlock has executed all commands of a block.
LEMMA BlockAppliedStep ==
    ASSUME ControlInv, BlockApplied
    PROVE  ControlInv'
<1> USE TreeFacts DEF VALID_UNKNOWN, CONNECTED, MAYBE_WITH_OTHER, CAN_BE_APPLIED, Levels
<1> DEFINE n == job.block
<1>1. /\ job # NoJob /\ job.mode = "apply" /\ job' = NoJob
      /\ known' = known /\ inTree' = inTree /\ failedBlock' = failedBlock
      /\ failedPop' = failedPop /\ failedChild' = failedChild /\ popData' = popData
      /\ payloadsIndex' = payloadsIndex /\ tips' = tips /\ tip' = tip
      /\ active' = active \cup {n} /\ appliedBlockCount' = appliedBlockCount + 1
      /\ sm' = Moved(n)
  BY DEF BlockApplied, NoJob, payloadVars
<1>2. /\ ~idle /\ n \in Blocks \ {Root} /\ Ancestors[Prev[n]] \subseteq active /\ n \notin active
      /\ \/ sm.phase = "applyNew" /\ n \in Ancestors[sm.to] /\ Prev[n] = sm.b
         \/ sm.phase = "reapplyOld" /\ n \in Ancestors[tip] /\ Prev[n] = sm.a
  BY <1>1, JobFacts DEF ControlInv, JobInv
<1>3. /\ sm' \in Operations /\ ~idle' /\ sm'.phase = sm.phase
      /\ sm'.to = sm.to /\ sm'.fork = sm.fork
      /\ sm'.then = sm.then /\ sm'.block = sm.block /\ sm'.reason = sm.reason
      /\ sm.phase = "reapplyOld" => sm'.a = n /\ sm'.b = sm.b
      /\ sm.phase = "applyNew" => sm'.a = sm.a /\ sm'.b = n
  BY <1>1, <1>2, MovedFacts
<1>4. /\ level' \in [Blocks -> Levels]
      /\ \A x \in Blocks \ {n} : level'[x] = level[x]
      /\ level[n] <= level'[n] /\ level'[n] >= 3
      /\ level'[n] > level[n] => level'[n] <= level[Prev[n]]
      /\ sm.phase = "reapplyOld" => level' = level
      /\ (sm.phase = "applyNew" /\ sm.a = sm.fork) => level'[n] = 4
  BY AppliedLevel
<1>5. /\ {sm.a, sm.b, sm.to, sm.fork, tip} \subseteq Blocks
      /\ active = Ancestors[sm.a] \cup Ancestors[sm.b]
      /\ ~isFailed(sm.to) => \A x \in Ancestors[sm.to] : ~isFailed(x)
  BY <1>2, OperationFacts
<1>6. Ancestors[n] = Ancestors[Prev[n]] \cup {n} /\ Prev[n] \in Ancestors[n]
  BY <1>2, PrevFacts
<1>7. level \in [Blocks -> Levels]
  BY DEF ControlInv, IInv, TypeOK
<1> HIDE DEF n
<1>8. IInv'
  <2>1. CASE sm.phase = "reapplyOld"
    <3>1. UNCHANGED vars
      BY <1>1, <1>4, <2>1 DEF vars, statusVars, payloadVars
    <3> QED
      BY <3>1, SameTree DEF ControlInv
  <2>2. CASE sm.phase = "applyNew"
    <3>1. n \in Ancestors[sm.to] /\ Prev[n] = sm.b /\ ~isFailed(sm.to)
      BY <1>2, <2>2 DEF ControlInv, PhaseInv
    <3>2. sm.to \in inTree /\ isConnected(sm.to)
      BY <1>2 DEF ControlInv, Paths
    <3>3. n \in Unapplied(sm.to)
      <4>1. n \notin Ancestors[tip]
        <5>1. ASSUME n \in Ancestors[tip] PROVE FALSE
          <6>1. n \in Ancestors[sm.fork]
            BY <1>2, <3>1, <5>1 DEF ControlInv, Paths
          <6>2. n \in Ancestors[sm.b]
            BY <1>2, <1>5, <6>1 DEF ControlInv, Paths
          <6> QED
            BY <1>2, <1>5, <6>2
        <5> QED
          BY <5>1
      <4> QED
        BY <3>1, <4>1 DEF Unapplied
    <3>4. \A x \in Blocks : level[x] \in Levels /\ level'[x] \in Levels
      BY <1>4, <1>7
    <3>5. \A x \in Blocks : level[x] <= level'[x]
      BY <1>4, <3>4
    <3>6. ASSUME NEW d \in Unapplied(sm.to), NEW a \in Ancestors[d] \cap Unapplied(sm.to)
          PROVE  level'[d] <= level'[a]
      <4>1. d \in Blocks /\ a \in Blocks /\ d \in inTree
        BY <1>2, <1>5, OperationFacts DEF Unapplied
      <4>2. level[d] <= level[a]
        BY <4>1 DEF ControlInv, IInv, Shape, LevelsOrdered
      <4>3. CASE d = n /\ level'[n] > level[n] /\ a # n
        <5>1. a \in Ancestors[Prev[n]] /\ Prev[n] \in Blocks
          BY <1>2, <1>6, <4>3, PrevFacts
        <5>2. level[Prev[n]] <= level[a]
          <6>1. Prev[n] \in inTree
            BY <1>6, <4>1, <4>3 DEF ControlInv, IInv, Shape, LevelsOrdered
          <6> QED
            BY <5>1, <6>1 DEF ControlInv, IInv, Shape, LevelsOrdered
        <5> QED
          BY <1>2, <1>4, <3>4, <4>1, <4>3, <5>1, <5>2
      <4>4. CASE ~(d = n /\ level'[n] > level[n] /\ a # n)
        BY <1>2, <1>4, <3>4, <4>1, <4>2, <4>4
      <4> QED
        BY <4>3, <4>4
    <3>7. Shape' /\ \A x \in Blocks : isConnected(x)' <=> isConnected(x)
      <4>1. failedPop \subseteq failedPop' /\ IInv
        BY <1>1 DEF ControlInv
      <4>2. \A x \in Blocks \ Unapplied(sm.to) : level'[x] = level[x]
        BY <1>4, <3>3
      <4> QED
        BY <1>1, <1>4, <3>2, <3>5, <3>6, <4>1, <4>2, RaiseChain
    <3>8. \A x : isFailed(x)' <=> isFailed(x)
      BY <1>1 DEF isFailed
    <3>9. TypeOK'
      BY <1>1, <1>4 DEF ControlInv, IInv, TypeOK
    <3>10. Flags'
      <4>1. n \notin failedPop
        BY <1>5, <3>1 DEF isFailed
      <4>2. AppliedNeverFailedPop'
        BY <1>1, <1>4, <4>1 DEF ControlInv, IInv, Flags, AppliedNeverFailedPop, TypeOK
      <4>3. FailedDown' /\ FailedChildExact'
        BY <1>1, <3>8 DEF ControlInv, IInv, Flags, FailedDown, FailedChildExact
      <4> QED
        BY <4>2, <4>3 DEF Flags
    <3>11. ActiveChainValid'
      <4>1. \A x \in Ancestors[tip] : x \in Blocks /\ level'[x] = level[x]
        BY <1>4, <1>5, <3>3 DEF Unapplied
      <4> QED
        BY <1>1, <3>8, <4>1 DEF ControlInv, IInv, ActiveChainValid
    <3> QED
      BY <3>7, <3>9, <3>10, <3>11 DEF IInv
  <2> QED
    BY <1>2, <2>1, <2>2
<1>9. Control' /\ JobInv'
  BY <1>1, <1>3 DEF Control, JobInv
<1>10. /\ isConnected(sm.to)' <=> isConnected(sm.to)
       /\ isFailed(sm.to)' <=> isFailed(sm.to)
  <2>1. level[sm.to] \in Levels /\ level'[sm.to] \in Levels
    BY <1>4, <1>5, <1>7
  <2>2. isFailed(sm.to)' <=> isFailed(sm.to)
    BY <1>1, <1>3 DEF isFailed
  <2>3. level[sm.to] >= 2
    BY <1>2 DEF ControlInv, Paths, isConnected
  <2>4. level'[sm.to] >= 2
    BY <1>4, <1>5, <2>1, <2>3
  <2> QED
    BY <1>3, <2>2, <2>3, <2>4 DEF isConnected
<1>11. Paths'
  <2>1. CASE sm.phase = "reapplyOld"
    <3>1. sm.fork \in Ancestors[n]
      BY <1>2, <1>6, <2>1 DEF ControlInv, Paths
    <3> QED
      BY <1>1, <1>2, <1>3, <1>10, <2>1, <3>1 DEF ControlInv, Paths
  <2>2. CASE sm.phase = "applyNew"
    <3>1. sm.fork \in Ancestors[n]
      BY <1>2, <1>6, <2>2 DEF ControlInv, Paths
    <3> QED
      BY <1>1, <1>2, <1>3, <1>10, <2>2, <3>1 DEF ControlInv, Paths
  <2> QED
    BY <1>2, <2>1, <2>2
<1>12. PhaseInv'
  <2>1. CASE sm.phase = "reapplyOld"
    BY <1>1, <1>2, <1>3, <1>4, <1>10, <2>1 DEF ControlInv, PhaseInv
  <2>2. CASE sm.phase = "applyNew"
    BY <1>1, <1>2, <1>3, <1>4, <1>10, <2>2 DEF ControlInv, PhaseInv
  <2> QED
    BY <1>2, <2>1, <2>2
<1>13. Applied'
  <2>1. IsFiniteSet(active) /\ appliedBlockCount = Cardinality(active)
    BY DEF ControlInv, Applied, AppliedExact
  <2>2. /\ IsFiniteSet(active \cup {n})
        /\ Cardinality(active \cup {n}) = Cardinality(active) + 1
    BY <1>2, <2>1, FS_AddElement
  <2>3. active' = Ancestors[sm'.a] \cup Ancestors[sm'.b]
    BY <1>1, <1>2, <1>3, <1>5, <1>6
  <2> QED
    BY <1>1, <1>3, <2>1, <2>2, <2>3 DEF Applied, AppliedExact
<1> QED
  BY <1>8, <1>9, <1>11, <1>12, <1>13 DEF ControlInv

\* unapplyBlock has taken back all commands of a block.
LEMMA BlockUnappliedStep ==
    ASSUME ControlInv, BlockUnapplied
    PROVE  ControlInv'
<1> USE TreeFacts DEF VALID_UNKNOWN, CONNECTED, MAYBE_WITH_OTHER, CAN_BE_APPLIED, Levels
<1> DEFINE n == job.block
<1>1. /\ job # NoJob /\ job.mode = "unapply" /\ job' = NoJob
      /\ UNCHANGED vars
      /\ active' = active \ {n} /\ appliedBlockCount' = appliedBlockCount - 1
      /\ sm' = Moved(Prev[n])
  BY DEF BlockUnapplied, NoJob
<1>2. /\ ~idle /\ n \in Blocks \ {Root} /\ n \in active
      /\ \A x \in active : n \in Ancestors[x] => x = n
      /\ \/ sm.phase = "unapplyOld" /\ n = sm.a /\ sm.a # sm.fork
         \/ sm.phase \in {"trimNew", "undoNew"} /\ n = sm.b /\ sm.b # sm.fork
  BY <1>1, JobFacts, JobOnTop DEF ControlInv, JobInv
<1>3. Prev[n] \in Blocks
  BY <1>2, PrevFacts
<1>4. /\ sm' \in Operations /\ ~idle' /\ sm'.phase = sm.phase
      /\ sm'.to = sm.to /\ sm'.fork = sm.fork
      /\ sm'.then = sm.then /\ sm'.block = sm.block /\ sm'.reason = sm.reason
      /\ sm.phase = "unapplyOld" => sm'.a = Prev[n] /\ sm'.b = sm.b
      /\ sm.phase \in {"trimNew", "undoNew"} => sm'.a = sm.a /\ sm'.b = Prev[n]
  BY <1>1, <1>2, <1>3, MovedFacts
<1>5. /\ {sm.a, sm.b, sm.to, sm.fork, tip} \subseteq Blocks
      /\ active = Ancestors[sm.a] \cup Ancestors[sm.b]
      /\ \A x \in Ancestors[sm.to] : x \in inTree
  BY <1>2, OperationFacts
<1>6. /\ Ancestors[n] = Ancestors[Prev[n]] \cup {n} /\ Prev[n] \in Ancestors[n]
      /\ n \notin Ancestors[Prev[n]]
  BY <1>2, PrevFacts
<1>7. /\ IInv' /\ tip' = tip /\ level' = level /\ inTree' = inTree
  BY <1>1, SameTree DEF ControlInv
<1>8. /\ isConnected(sm.to)' <=> isConnected(sm.to)
      /\ isFailed(sm.to)' <=> isFailed(sm.to)
  BY <1>1, <1>4 DEF isFailed, isConnected, vars, statusVars
<1> HIDE DEF n
<1>9. Control' /\ JobInv'
  BY <1>1, <1>4 DEF Control, JobInv
<1>10. Paths'
  <2>1. sm.fork \in Ancestors[Prev[n]]
    BY <1>2, <1>5, <1>6 DEF ControlInv, Paths
  <2>2. sm.phase = "unapplyOld" => Prev[n] \in Ancestors[tip]
    BY <1>2, <1>5, <1>6 DEF ControlInv, Paths
  <2>3. sm.phase # "unapplyOld" => Prev[n] \in Ancestors[sm.to]
    BY <1>2, <1>5, <1>6 DEF ControlInv, Paths
  <2> QED
    BY <1>2, <1>4, <1>7, <1>8, <2>1, <2>2, <2>3 DEF ControlInv, Paths
<1>11. PhaseInv'
  <2>1. CASE sm.phase = "unapplyOld"
    BY <1>2, <1>4, <1>7, <1>8, <2>1 DEF ControlInv, PhaseInv
  <2>2. CASE sm.phase \in {"trimNew", "undoNew"}
    <3>1. level[sm.b] <= level[Prev[n]] /\ level[sm.b] \in Levels /\ level[Prev[n]] \in Levels
      <4>1. sm.b \in inTree
        BY <1>2, <1>5 DEF ControlInv, Paths
      <4> QED
        BY <1>2, <1>3, <1>5, <1>6, <2>2, <4>1 DEF ControlInv, IInv, TypeOK, Shape, LevelsOrdered
    <3> QED
      BY <1>2, <1>4, <1>7, <1>8, <2>2, <3>1 DEF ControlInv, PhaseInv
  <2> QED
    BY <1>2, <2>1, <2>2
<1>12. Applied'
  <2>1. IsFiniteSet(active) /\ appliedBlockCount = Cardinality(active)
    BY DEF ControlInv, Applied, AppliedExact
  <2>2. /\ IsFiniteSet(active \ {n})
        /\ Cardinality(active \ {n}) = Cardinality(active) - 1
    BY <1>2, <2>1, FS_RemoveElement
  <2>3. active' = Ancestors[sm'.a] \cup Ancestors[sm'.b]
    <3>1. CASE sm.phase = "unapplyOld"
      <4>1. n \notin Ancestors[sm.b]
        <5>1. n \in Ancestors[sm.b] => sm.b = n
          BY <1>2, <1>5
        <5>2. sm.b # sm.a
          BY <1>2, <1>5, <3>1 DEF ControlInv, Paths
        <5> QED
          BY <1>2, <3>1, <5>1, <5>2
      <4> QED
        BY <1>1, <1>2, <1>4, <1>5, <1>6, <3>1, <4>1
    <3>2. CASE sm.phase \in {"trimNew", "undoNew"}
      <4>1. n \notin Ancestors[sm.a]
        <5>1. n \in Ancestors[sm.a] => sm.a = n
          BY <1>2, <1>5
        <5>2. sm.a # sm.b
          BY <1>2, <1>5, <3>2 DEF ControlInv, Paths
        <5> QED
          BY <1>2, <3>2, <5>1, <5>2
      <4> QED
        BY <1>1, <1>2, <1>4, <1>5, <1>6, <3>2, <4>1
    <3> QED
      BY <1>2, <3>1, <3>2
  <2> QED
    BY <1>1, <1>4, <2>1, <2>2, <2>3 DEF Applied, AppliedExact
<1> QED
  BY <1>7, <1>9, <1>10, <1>11, <1>12 DEF ControlInv

\* A block whose commands did not apply is flagged, and the new chain is undone.
LEMMA BlockRefusedStep ==
    ASSUME ControlInv, BlockRefused
    PROVE  ControlInv'
<1> USE TreeFacts DEF VALID_UNKNOWN, CONNECTED, MAYBE_WITH_OTHER, CAN_BE_APPLIED, Levels
<1> DEFINE n == job.block
<1>1. /\ job # NoJob /\ job.mode = "abort" /\ job' = NoJob
      /\ known' = known /\ inTree' = inTree /\ level' = level /\ popData' = popData
      /\ payloadsIndex' = payloadsIndex /\ tip' = tip
      /\ active' = active /\ appliedBlockCount' = appliedBlockCount
      /\ InvalidateValid(n, "POP")
      /\ sm' = [sm EXCEPT !.phase = "undoNew"]
  BY DEF BlockRefused, NoJob, payloadVars, appliedVars
<1>2. /\ ~idle /\ n \in Blocks \ {Root}
      /\ sm.phase = "applyNew" /\ n \in Ancestors[sm.to]
      /\ Prev[n] = sm.b /\ level[n] < 4
  BY <1>1, JobFacts DEF ControlInv, JobInv
<1>3. /\ sm \in Operations /\ tip \in Blocks
      /\ n \in inTree /\ ~isFailed(n)
  BY <1>2, OperationFacts DEF ControlInv, PhaseInv
<1>4. /\ sm' \in Operations /\ sm'.phase = "undoNew"
      /\ sm'.to = sm.to /\ sm'.fork = sm.fork /\ sm'.a = sm.a /\ sm'.b = sm.b
      /\ sm'.then = sm.then /\ sm'.block = sm.block /\ sm'.reason = sm.reason
  BY <1>1, <1>3 DEF Operations, Phases
<1>5. ~idle'
  <2>1. Idle.phase = "idle"
    BY DEF Idle
  <2> QED
    BY <1>4, <2>1 DEF idle
<1> HIDE DEF n
<1>6. /\ FailedDown' /\ FailedChildExact'
      /\ failedBlock' \subseteq known /\ failedPop' \subseteq known
      /\ failedChild' \subseteq known /\ tips' \subseteq Blocks
      /\ \A x \in Blocks : isFailed(x)' => isFailed(x) \/ n \in Ancestors[x]
      /\ failedPop' \subseteq failedPop \cup {n}
      /\ failedPop \subseteq failedPop'
  <2>1. TypeOK /\ KnownClosed /\ FailedDown /\ FailedChildExact
    BY DEF ControlInv, IInv, Shape, Flags
  <2> QED
    BY <1>1, <1>2, <1>3, <2>1, FailBlock
<1>7. IInv'
  <2>1. TypeOK'
    BY <1>1, <1>6 DEF ControlInv, IInv, TypeOK
  <2>2. Shape'
    BY <1>1, <1>6 DEF ControlInv, IInv, Shape, KnownClosed, LevelsOrdered, DeletedBare,
                      UnraisedFailed, BodyNeedsLevel, ConnectedExact, isConnected
  <2>3. Flags'
    BY <1>1, <1>2, <1>6 DEF ControlInv, IInv, Flags, AppliedNeverFailedPop
  <2>4. ActiveChainValid'
    <3>1. n \notin Ancestors[tip]
      BY <1>2 DEF ControlInv, IInv, ActiveChainValid
    <3>2. \A x \in Ancestors[tip] : ~isFailed(x)'
      BY <1>3, <1>6, <3>1 DEF ControlInv, IInv, ActiveChainValid
    <3> QED
      BY <1>1, <3>2 DEF ControlInv, IInv, ActiveChainValid
  <2> QED
    BY <2>1, <2>2, <2>3, <2>4 DEF IInv
<1>8. Control' /\ JobInv'
  BY <1>1, <1>4, <1>5 DEF Control, JobInv
<1>9. Paths'
  BY <1>1, <1>2, <1>4, <1>5 DEF ControlInv, Paths, isConnected
<1>10. PhaseInv'
  BY <1>1, <1>2, <1>4, <1>5 DEF ControlInv, PhaseInv
<1>11. Applied'
  BY <1>1, <1>2, <1>4, <1>5 DEF ControlInv, Applied, AppliedExact
<1> QED
  BY <1>7, <1>8, <1>9, <1>10, <1>11 DEF ControlInv

\* The end of an operation: `idle` again, with the chain of the tip applied.
LEMMA EndStep ==
    ASSUME ControlInv, EndRun, job = NoJob, IInv', active = Ancestors[tip']
    PROVE  ControlInv'
<1>1. sm' = Idle /\ job' = job /\ active' = active /\ appliedBlockCount' = appliedBlockCount
  BY DEF EndRun, appliedVars
<1>2. idle'
  BY <1>1 DEF idle
<1> QED
  BY <1>1, <1>2 DEF ControlInv, Control, Paths, PhaseInv, JobInv, Applied, AppliedExact

\* The chain the operation moves to has been applied alone, all of it.
LEMMA CompleteFacts ==
    ASSUME ControlInv, ~idle, sm.a = sm.fork, sm.b = sm.to,
           sm.phase \in {"unapplyOld", "applyNew"}
    PROVE  /\ active = Ancestors[sm.to] /\ sm.to \in Blocks
           /\ \A x \in Ancestors[sm.to] :
                 x \in inTree /\ ~isFailed(x) /\ level[x] = CAN_BE_APPLIED
<1> USE TreeFacts DEF VALID_UNKNOWN, CONNECTED, CAN_BE_APPLIED, Levels
<1>1. /\ {sm.a, sm.b, sm.to, sm.fork, tip} \subseteq Blocks
      /\ active = Ancestors[sm.a] \cup Ancestors[sm.b]
      /\ \A x \in Ancestors[sm.to] : x \in inTree
      /\ ~isFailed(sm.to) => \A x \in Ancestors[sm.to] : ~isFailed(x)
  BY OperationFacts
<1>2. Ancestors[sm.fork] \subseteq Ancestors[sm.to]
  BY <1>1 DEF ControlInv, Paths
<1>3. CASE sm.to \in Ancestors[tip]
  <2>1. Ancestors[sm.to] \subseteq Ancestors[tip]
    BY <1>1, <1>3
  <2> QED
    BY <1>1, <1>2, <2>1 DEF ControlInv, IInv, ActiveChainValid
<1>4. CASE ~isFailed(sm.to) /\ level[sm.to] = CAN_BE_APPLIED
  <2>1. \A x \in Ancestors[sm.to] : level[x] \in Levels /\ level[sm.to] <= level[x]
    BY <1>1 DEF ControlInv, IInv, TypeOK, Shape, LevelsOrdered
  <2>2. \A x \in Ancestors[sm.to] : level[x] = CAN_BE_APPLIED
    BY <1>4, <2>1
  <2> QED
    BY <1>1, <1>2, <1>4, <2>2
<1> QED
  BY <1>3, <1>4 DEF ControlInv, Paths, PhaseInv

\* overrideTip, and the rest of the operation that asked for the switch.
LEMMA CompleteStep ==
    ASSUME ControlInv, ~idle, job = NoJob, Complete, sm.a = sm.fork, sm.b = sm.to,
           sm.phase \in {"unapplyOld", "applyNew"}
    PROVE  ControlInv'
<1> USE TreeFacts
<1>1. /\ active = Ancestors[sm.to] /\ sm.to \in Blocks
      /\ \A x \in Ancestors[sm.to] :
            x \in inTree /\ ~isFailed(x) /\ level[x] = CAN_BE_APPLIED
  BY CompleteFacts
<1>2. EndRun
  BY DEF Complete
<1>3. CASE /\ sm.then = "switch" /\ tip' = sm.to
           /\ UNCHANGED <<statusVars, payloadVars, tips>>
  <2>1. /\ known' = known /\ inTree' = inTree /\ level' = level
        /\ failedBlock' = failedBlock /\ failedPop' = failedPop /\ failedChild' = failedChild
        /\ popData' = popData /\ payloadsIndex' = payloadsIndex /\ tips' = tips
    BY <1>3 DEF statusVars, payloadVars
  <2>2. \A x : isFailed(x)' <=> isFailed(x)
    BY <2>1 DEF isFailed
  <2>3. TypeOK' /\ Shape' /\ Flags'
    BY <1>1, <1>3, <2>1, <2>2 DEF ControlInv, IInv, TypeOK, Shape, Flags, KnownClosed,
       LevelsOrdered, DeletedBare, UnraisedFailed, BodyNeedsLevel, ConnectedExact, FailedDown,
       FailedChildExact, AppliedNeverFailedPop, isConnected
  <2>4. ActiveChainValid'
    BY <1>1, <1>3, <2>1, <2>2 DEF ActiveChainValid
  <2>5. IInv'
    BY <2>3, <2>4 DEF IInv
  <2> QED
    BY <1>1, <1>2, <1>3, <2>5, EndStep
<1>4. ASSUME sm.then # "switch"
      PROVE  /\ sm.block \in Blocks /\ sm.block # Root /\ sm.to = Prev[sm.block]
             /\ OnActiveChain(sm.block) /\ isValid(sm.block)
             /\ TipWithout(sm.block) = sm.to
  <2>1. /\ sm.block # Root /\ sm.block \in Ancestors[tip] /\ sm.to = Prev[sm.block]
    BY <1>4 DEF ControlInv, PhaseInv
  <2>2. sm.block \in Blocks
    BY OperationFacts DEF Operations
  <2>3. ~isFailed(sm.block) /\ level[sm.block] = CAN_BE_APPLIED
    BY <2>1 DEF ControlInv, IInv, ActiveChainValid
  <2> QED
    BY <2>1, <2>2, <2>3 DEF OnActiveChain, isValid, TipWithout, CAN_BE_APPLIED, VALID_TREE
<1>5. CASE sm.then = "invalidate" /\ InvalidateSubtree(sm.block, sm.reason)
  <2>1. sm.block \in Blocks /\ sm.reason = "BLOCK" /\ TipWithout(sm.block) = sm.to
        /\ isValid(sm.block)
    BY <1>4, <1>5 DEF ControlInv, PhaseInv
  <2>2. tip' = sm.to
    BY <1>5, <2>1 DEF InvalidateSubtree
  <2>3. IInv'
    BY <1>5, <2>1, InvalidateSubtreeStep DEF ControlInv
  <2> QED
    BY <1>1, <1>2, <2>2, <2>3, EndStep
<1>6. CASE sm.then = "remove" /\ RemoveSubtree(sm.block)
  <2>1. sm.block \in Blocks /\ TipWithout(sm.block) = sm.to
    BY <1>4, <1>6
  <2>2. tip' = sm.to
    BY <1>6, <2>1 DEF RemoveSubtree
  <2>3. IInv'
    BY <1>6, <2>1, RemoveSubtreeStep DEF ControlInv
  <2> QED
    BY <1>1, <1>2, <2>2, <2>3, EndStep
<1> QED
  BY <1>3, <1>5, <1>6 DEF Complete

\* One step of an operation between two jobs.
LEMMA PhaseStep ==
    ASSUME ControlInv, job = NoJob,
           UnapplyOld \/ ApplyNew \/ Decide \/ TrimNew \/ UndoNew \/ ReapplyOld
    PROVE  ControlInv'
<1> USE TreeFacts
<1>1. ~idle
  BY DEF UnapplyOld, ApplyNew, Decide, TrimNew, UndoNew, ReapplyOld, idle, Idle
<1>2. /\ {sm.a, sm.b, sm.to, sm.fork, tip} \subseteq Blocks
      /\ active = Ancestors[sm.a] \cup Ancestors[sm.b]
      /\ ~isFailed(sm.to) => \A x \in Ancestors[sm.to] : ~isFailed(x)
      /\ sm.to \in inTree /\ level[sm.to] >= CONNECTED
  BY <1>1, OperationFacts
<1>3. /\ sm.fork \in Ancestors[sm.a] /\ sm.fork \in Ancestors[sm.b]
      /\ sm.a \in Ancestors[tip] /\ sm.b \in Ancestors[sm.to]
      /\ sm.fork \in Ancestors[tip] /\ sm.fork \in Ancestors[sm.to]
      /\ \A c \in Ancestors[tip] : c \in Ancestors[sm.to] => c \in Ancestors[sm.fork]
  BY <1>1 DEF ControlInv, Paths
<1>4. sm.then # "switch" => sm.to = sm.fork /\ sm.b = sm.fork
  <2> SUFFICES ASSUME sm.then # "switch" PROVE sm.to = sm.fork /\ sm.b = sm.fork
    OBVIOUS
  <2>1. sm.block # Root /\ sm.block \in Ancestors[tip] /\ sm.to = Prev[sm.block]
    BY <1>1 DEF ControlInv, PhaseInv
  <2>2. sm.to \in Ancestors[tip]
    BY <1>2, <2>1, PrevFacts
  <2>3. sm.to = sm.fork
    BY <1>2, <1>3, <2>2
  <2> QED
    BY <1>2, <1>3, <2>3
<1>5. sm.then = "switch" \/ sm.phase = "unapplyOld"
  BY <1>1 DEF ControlInv, PhaseInv
<1>6. \A x \in Ancestors[tip] : level[x] = CAN_BE_APPLIED /\ ~isFailed(x)
  BY DEF ControlInv, IInv, ActiveChainValid
<1>7. \A x, y \in Blocks : x \in Ancestors[y] /\ x # y => y # Root
  BY TreeAssumption
<1>8. isValid(sm.to) <=> ~isFailed(sm.to)
  <2>1. level[sm.to] \in Levels
    BY <1>2 DEF ControlInv, IInv, TypeOK
  <2> QED
    BY <1>2, <2>1 DEF isValid, VALID_TREE, CONNECTED, Levels, VALID_UNKNOWN, CAN_BE_APPLIED
<1>9. CASE UnapplyOld
  <2>1. sm.phase = "unapplyOld"
    BY <1>9 DEF UnapplyOld
  <2>2. CASE sm.a # sm.fork
    <3>1. startUnapply(sm.a) /\ sm.a \in Blocks \ {Root}
      BY <1>2, <1>3, <1>7, <1>9, <2>2 DEF UnapplyOld
    <3> QED
      BY <1>1, <2>1, <2>2, <3>1, StartStep
  <2>3. CASE sm.a = sm.fork /\ sm.b = sm.to
    <3>1. Complete
      BY <1>9, <2>3 DEF UnapplyOld
    <3> QED
      BY <1>1, <2>1, <2>3, <3>1, CompleteStep
  <2>4. CASE sm.a = sm.fork /\ sm.b # sm.to
    <3>1. sm.then = "switch"
      BY <1>4, <2>4
    <3>2. sm.b = sm.fork \/ (~isFailed(sm.to) /\ level[sm.b] = CAN_BE_APPLIED)
      BY <1>1, <2>1 DEF ControlInv, PhaseInv
    <3>3. CASE isValid(sm.to)
      <4>1. GoTo("applyNew") /\ "applyNew" \in Phases
        BY <1>9, <2>4, <3>3 DEF UnapplyOld, Phases
      <4>2. level[sm.b] = CAN_BE_APPLIED
        BY <1>3, <1>6, <3>2
      <4> QED
        BY <1>1, <1>8, <2>4, <3>1, <3>3, <4>1, <4>2, GoToStep
    <3>4. CASE ~isValid(sm.to)
      <4>1. GoTo("reapplyOld") /\ "reapplyOld" \in Phases
        BY <1>9, <2>4, <3>4 DEF UnapplyOld, Phases
      <4>2. sm.b = sm.fork
        BY <1>8, <3>2, <3>4
      <4> QED
        BY <1>1, <3>1, <4>1, <4>2, GoToStep
    <3> QED
      BY <3>3, <3>4
  <2> QED
    BY <2>2, <2>3, <2>4
<1>10. CASE ApplyNew
  <2>1. /\ sm.phase = "applyNew" /\ sm.then = "switch" /\ ~isFailed(sm.to)
        /\ sm.a = tip \/ sm.a = sm.fork
    BY <1>1, <1>5, <1>10 DEF ApplyNew, ControlInv, PhaseInv
  <2>2. CASE sm.b # sm.to
    <3> DEFINE n == Successor(sm.b, sm.to)
    <3>1. startApply(n)
      BY <1>10, <2>2 DEF ApplyNew
    <3>2. n \in Blocks \ {Root} /\ n \in Ancestors[sm.to] /\ Prev[n] = sm.b
      BY <1>2, <1>3, <2>2, SuccessorFacts
    <3> HIDE DEF n
    <3> QED
      BY <1>1, <2>1, <3>1, <3>2, StartStep
  <2>3. CASE sm.b = sm.to /\ sm.a = sm.fork
    <3>1. Complete
      BY <1>10, <2>3 DEF ApplyNew
    <3> QED
      BY <1>1, <2>1, <2>3, <3>1, CompleteStep
  <2>4. CASE sm.b = sm.to /\ sm.a # sm.fork
    <3>1. GoTo("decide") /\ "decide" \in Phases
      BY <1>10, <2>4 DEF ApplyNew, Phases
    <3> QED
      BY <1>1, <2>1, <2>4, <3>1, GoToStep
  <2> QED
    BY <2>2, <2>3, <2>4
<1>11. CASE Decide
  <2>1. /\ sm.phase = "decide" /\ sm.then = "switch" /\ ~isFailed(sm.to)
        /\ sm.a = tip /\ sm.a # sm.fork
        /\ GoTo("undoNew") \/ GoTo("trimNew")
    BY <1>1, <1>5, <1>11 DEF Decide, ControlInv, PhaseInv
  <2>2. "undoNew" \in Phases /\ "trimNew" \in Phases
    BY DEF Phases
  <2> QED
    BY <1>1, <2>1, <2>2, GoToStep
<1>12. CASE TrimNew
  <2>1. /\ sm.phase = "trimNew" /\ sm.then = "switch" /\ ~isFailed(sm.to)
        /\ sm.a = tip /\ sm.a # sm.fork
    BY <1>1, <1>5, <1>12 DEF TrimNew, ControlInv, PhaseInv
  <2>2. CASE startUnapply(sm.b) /\ sm.b # sm.fork
    <3>1. sm.b \in Blocks \ {Root}
      BY <1>2, <1>3, <1>7, <2>2
    <3> QED
      BY <1>1, <2>1, <2>2, <3>1, StartStep
  <2>3. CASE GoTo("unapplyOld") /\ (sm.b = sm.fork \/ level[sm.b] >= CAN_BE_APPLIED)
    <3>1. "unapplyOld" \in Phases /\ level[sm.b] \in Levels
      BY <1>2 DEF Phases, ControlInv, IInv, TypeOK
    <3>2. sm.b = sm.fork \/ level[sm.b] = CAN_BE_APPLIED
      BY <2>3, <3>1 DEF Levels, CAN_BE_APPLIED, VALID_UNKNOWN
    <3> QED
      BY <1>1, <2>1, <2>3, <3>1, <3>2, GoToStep
  <2> QED
    BY <1>12, <2>2, <2>3 DEF TrimNew
<1>13. CASE UndoNew
  <2>1. sm.phase = "undoNew" /\ sm.then = "switch"
    BY <1>5, <1>13 DEF UndoNew
  <2>2. CASE sm.b # sm.fork
    <3>1. startUnapply(sm.b) /\ sm.b \in Blocks \ {Root}
      BY <1>2, <1>3, <1>7, <1>13, <2>2 DEF UndoNew
    <3> QED
      BY <1>1, <2>1, <2>2, <3>1, StartStep
  <2>3. CASE sm.b = sm.fork
    <3>1. GoTo("reapplyOld") /\ "reapplyOld" \in Phases
      BY <1>13, <2>3 DEF UndoNew, Phases
    <3> QED
      BY <1>1, <2>1, <2>3, <3>1, GoToStep
  <2> QED
    BY <2>2, <2>3
<1>14. CASE ReapplyOld
  <2>1. sm.phase = "reapplyOld" /\ sm.b = sm.fork
    BY <1>1, <1>14 DEF ReapplyOld, ControlInv, PhaseInv
  <2>2. CASE sm.a # tip
    <3> DEFINE n == Successor(sm.a, tip)
    <3>1. startApply(n)
      BY <1>14, <2>2 DEF ReapplyOld
    <3>2. n \in Blocks \ {Root} /\ n \in Ancestors[tip] /\ Prev[n] = sm.a
      BY <1>2, <1>3, <2>2, SuccessorFacts
    <3> HIDE DEF n
    <3> QED
      BY <1>1, <2>1, <3>1, <3>2, StartStep
  <2>3. CASE sm.a = tip
    <3>1. EndRun /\ UNCHANGED vars
      BY <1>14, <2>3 DEF ReapplyOld
    <3>2. IInv' /\ tip' = tip
      BY <3>1, SameTree DEF ControlInv
    <3>3. active = Ancestors[tip]
      BY <1>2, <1>3, <2>1, <2>3
    <3> QED
      BY <3>1, <3>2, <3>3, EndStep
  <2> QED
    BY <2>2, <2>3
<1> QED
  BY <1>9, <1>10, <1>11, <1>12, <1>13, <1>14

-----------------------------------------------------------------------------
(* The other steps.                                                         *)

\* The beginning of an operation.
LEMMA BeginStep ==
    ASSUME ControlInv, idle, NEW to \in inTree, isConnected(to),
           NEW p \in {"unapplyOld", "applyNew"},
           NEW then \in {"switch", "invalidate", "remove"}, NEW block \in Blocks,
           NEW r \in {"none", "BLOCK"},
           Begin(p, to, then, block, r),
           p = "applyNew" => ~isFailed(to) /\ then = "switch",
           then # "switch" => block # Root /\ block \in Ancestors[tip] /\ to = Prev[block],
           then = "invalidate" => r = "BLOCK"
    PROVE  ControlInv'
<1> USE TreeFacts
<1> DEFINE f == getForkBlock(tip, to)
<1>1. to \in Blocks /\ tip \in Blocks
  BY DEF ControlInv, IInv, TypeOK
<1>2. /\ f \in Ancestors[tip] /\ f \in Ancestors[to] /\ f \in Blocks
      /\ \A c \in Ancestors[tip] : c \in Ancestors[to] => c \in Ancestors[f]
  BY <1>1, ForkFacts
<1> HIDE DEF f
<1>3. /\ sm' = [phase |-> p, to |-> to, fork |-> f, a |-> tip,
                b |-> f, then |-> then, block |-> block, reason |-> r]
      /\ UNCHANGED vars /\ job' = job
      /\ active' = active /\ appliedBlockCount' = appliedBlockCount
  BY DEF Begin, appliedVars, f
<1>4. /\ sm' \in Operations /\ sm'.phase = p
      /\ sm'.to = to /\ sm'.fork = f /\ sm'.a = tip /\ sm'.b = f
      /\ sm'.then = then /\ sm'.block = block /\ sm'.reason = r
  BY <1>1, <1>2, <1>3 DEF Operations, Phases
<1>5. ~idle'
  <2>1. Idle.phase = "idle"
    BY DEF Idle
  <2> QED
    BY <1>4, <2>1 DEF idle
<1>6. /\ IInv' /\ tip' = tip /\ level' = level /\ inTree' = inTree
  BY <1>3, SameTree DEF ControlInv
<1>7. job = NoJob /\ active = Ancestors[tip]
  BY DEF ControlInv, Control, Applied, AppliedExact
<1>8. /\ isConnected(sm.to)' <=> isConnected(to)
      /\ isFailed(sm.to)' <=> isFailed(to)
  BY <1>3, <1>4, <1>6 DEF isFailed, isConnected, vars, statusVars
<1>9. level[f] = CAN_BE_APPLIED
  BY <1>2 DEF ControlInv, IInv, ActiveChainValid
<1>10. Control' /\ JobInv'
  BY <1>3, <1>4, <1>5, <1>7 DEF Control, JobInv
<1>11. Paths'
  BY <1>1, <1>2, <1>4, <1>6, <1>8 DEF Paths
<1>12. PhaseInv'
  BY <1>1, <1>2, <1>4, <1>6, <1>8, <1>9 DEF PhaseInv, CAN_BE_APPLIED, MAYBE_WITH_OTHER
<1>13. Applied'
  <2>1. Ancestors[f] \subseteq Ancestors[tip]
    BY <1>1, <1>2
  <2> QED
    BY <1>3, <1>4, <1>5, <1>7, <2>1 DEF ControlInv, Applied, AppliedExact
<1> QED
  BY <1>6, <1>10, <1>11, <1>12, <1>13 DEF ControlInv

\* The beginnings of the four operations that switch the active chain.
LEMMA BeginningStep ==
    ASSUME ControlInv, NEW x \in Blocks,
           \/ BeginSetState(x) \/ BeginCompare(x) \/ BeginRemove(x)
           \/ \E r \in ExternalReasons : BeginInvalidate(x, r)
    PROVE  ControlInv'
<1>1. idle
  BY DEF BeginSetState, BeginCompare, BeginRemove, BeginInvalidate
<1>2. CASE BeginSetState(x)
  <2>1. x \in inTree /\ isConnected(x) /\ Begin("unapplyOld", x, "switch", x, "none")
    BY <1>2 DEF BeginSetState, setStateContract
  <2> QED
    BY <1>1, <2>1, BeginStep
<1>3. CASE BeginCompare(x)
  <2>1. /\ x \in inTree /\ isConnected(x) /\ ~isFailed(x)
        /\ Begin("applyNew", x, "switch", x, "none")
    BY <1>3 DEF BeginCompare, compareContract, isValid
  <2> QED
    BY <1>1, <2>1, BeginStep
<1>4. ASSUME x \in Ancestors[tip], x # Root
      PROVE  Prev[x] \in inTree /\ isConnected(Prev[x])
  <2>1. Prev[x] \in Ancestors[tip]
    BY <1>4, TreeFacts, PrevFacts DEF ControlInv, IInv, TypeOK
  <2> QED
    BY <2>1 DEF ControlInv, IInv, ActiveChainValid, isConnected, CAN_BE_APPLIED, CONNECTED
<1>5. CASE BeginRemove(x)
  <2>1. x \in Ancestors[tip] /\ x # Root /\ Begin("unapplyOld", Prev[x], "remove", x, "none")
    BY <1>5 DEF BeginRemove, OnActiveChain
  <2> QED
    BY <1>1, <1>4, <2>1, BeginStep
<1>6. ASSUME NEW r \in ExternalReasons, BeginInvalidate(x, r)
      PROVE  ControlInv'
  <2>1. x \in Ancestors[tip] /\ x # Root /\ Begin("unapplyOld", Prev[x], "invalidate", x, "BLOCK")
    BY <1>6 DEF BeginInvalidate, OnActiveChain
  <2> QED
    BY <1>1, <1>4, <2>1, BeginStep
<1> QED
  BY <1>2, <1>3, <1>5, <1>6

\* The operations on the tree beside the active chain.
LEMMA TreeOperationStep ==
    ASSUME OnlyBlockReason, ControlInv, TreeOperation
    PROVE  ControlInv' /\ tip' = tip
<1>1. idle /\ UNCHANGED runVars
  BY DEF TreeOperation
<1>2. IInv' /\ tip' = tip
  <2>1. ASSUME NEW b \in Blocks, AcceptBlockHeader(b)
        PROVE  IInv' /\ tip' = tip
    BY <2>1, AcceptBlockHeaderStep DEF ControlInv, AcceptBlockHeader, headerContract
  <2>2. ASSUME NEW b \in Blocks, NEW p \in PopDatas, AcceptBlock(b, p)
        PROVE  IInv' /\ tip' = tip
    <3>1. tip' = tip
      BY <2>2 DEF AcceptBlock
    <3> QED
      BY <2>2, <3>1, AcceptBlockStep DEF ControlInv
  <2>3. ASSUME NEW b \in Blocks, RemovePayloads(b)
        PROVE  IInv' /\ tip' = tip
    <3>1. tip' = tip
      BY <2>3 DEF RemovePayloads
    <3> QED
      BY <2>3, <3>1, RemovePayloadsStep DEF ControlInv
  <2>4. ASSUME NEW b \in Blocks, NEW r \in ExternalReasons,
               ~OnActiveChain(b), InvalidateSubtree(b, r)
        PROVE  IInv' /\ tip' = tip
    <3>1. tip' = tip
      BY <2>4 DEF InvalidateSubtree, TipWithout
    <3> QED
      BY <2>4, <3>1, InvalidateSubtreeStep DEF ControlInv, OnlyBlockReason
  <2>5. ASSUME NEW b \in Blocks, NEW r \in ExternalReasons, RevalidateSubtree(b, r)
        PROVE  IInv' /\ tip' = tip
    <3>1. tip' = tip /\ r = "BLOCK"
      BY <2>5 DEF RevalidateSubtree, OnlyBlockReason
    <3> QED
      BY <2>5, <3>1, RevalidateSubtreeStep DEF ControlInv
  <2>6. ASSUME NEW b \in Blocks, ~OnActiveChain(b), RemoveSubtree(b)
        PROVE  IInv' /\ tip' = tip
    <3>1. tip' = tip
      BY <2>6 DEF RemoveSubtree, TipWithout
    <3> QED
      BY <2>6, <3>1, RemoveSubtreeStep DEF ControlInv
  <2> QED
    BY <2>1, <2>2, <2>3, <2>4, <2>5, <2>6 DEF TreeOperation
<1> QED
  BY <1>1, <1>2 DEF runVars, appliedVars, ControlInv, Control, Paths, PhaseInv, JobInv,
                    Applied, AppliedExact, idle

\* The bootstrapped tree.
LEMMA InitControl == SMInit => ControlInv
<1> SUFFICES ASSUME SMInit PROVE ControlInv
  OBVIOUS
<1>1. IInv
  BY InitIInv DEF SMInit
<1>2. Ancestors[Root] = {Root} /\ tip = Root
  BY TreeAssumption DEF SMInit, Init
<1>3. IsFiniteSet({Root}) /\ Cardinality({Root}) = 1
  BY FS_Singleton
<1>4. idle /\ job = NoJob /\ active = {Root} /\ appliedBlockCount = 1
  BY DEF SMInit, idle
<1> QED
  BY <1>1, <1>2, <1>3, <1>4 DEF ControlInv, Control, Paths, PhaseInv, JobInv, Applied,
                                AppliedExact, idle

\* Every step preserves the part of the invariant about the tree, the control and
\* the applied blocks.
LEMMA NextControl ==
    ASSUME OnlyBlockReason, ControlInv, VbkInv, [SMNext]_allVars
    PROVE  ControlInv'
<1>1. CASE Step
  BY <1>1, CommandStep, BlockAppliedStep, BlockUnappliedStep, BlockRefusedStep, PhaseStep
     DEF Step
<1>2. CASE SMNext /\ ~Step
  BY <1>2, TreeOperationStep, BeginningStep DEF SMNext
<1>3. CASE UNCHANGED allVars
  <2>1. UNCHANGED vars /\ sm' = sm /\ job' = job /\ active' = active
        /\ appliedBlockCount' = appliedBlockCount
    BY <1>3 DEF allVars, runVars, appliedVars
  <2>2. IInv' /\ tip' = tip /\ level' = level /\ inTree' = inTree
    BY <2>1, SameTree DEF ControlInv
  <2>3. isFailed(sm.to)' <=> isFailed(sm.to)
    BY <2>1 DEF isFailed, vars, statusVars
  <2>4. CommandsOf(job.block)' = CommandsOf(job.block)
    BY <2>1 DEF CommandsOf, vars, payloadVars
  <2> QED
    BY <2>1, <2>2, <2>3, <2>4 DEF ControlInv, Control, Paths, PhaseInv, JobInv, Applied,
                                  AppliedExact, idle, isConnected
<1> QED
  BY <1>1, <1>2, <1>3

-----------------------------------------------------------------------------
(* The VBK tree, the whole of the invariant, and the properties.            *)

\* ExecutedFacts, after a step.
LEMMA ExecutedFactsPrimed ==
    /\ \A x, i : <<x, i>> \in Executed' <=> IsExecuted(x, i)'
    /\ \A e \in Executed' : e = <<e[1], e[2]>>
<1> DEFINE F == /\ \A x, i : <<x, i>> \in Executed <=> IsExecuted(x, i)
                /\ \A e \in Executed : e = <<e[1], e[2]>>
<1>1. F
  BY ExecutedFacts
<1> HIDE DEF F
<1>2. F'
  BY <1>1, PTL
<1> QED
  BY <1>2 DEF F

\* PositionsFacts, after a step.
LEMMA PositionsFactsPrimed ==
    ASSUME NEW b
    PROVE  /\ \A d, i : <<d, i>> \in Positions(b)' <=>
                           d \in Ancestors[b] /\ i \in DOMAIN CommandsOf(d)'
           /\ \A e \in Positions(b)' : e = <<e[1], e[2]>>
BY DEF Positions

-----------------------------------------------------------------------------
(* What bodies that stay the same keep.                                     *)

\* A command is supported after a step as it was before, when the bodies of its
\* chain are the same.
LEMMA SameSupport ==
    ASSUME NEW f, NEW d \in Blocks, f[1] \in Ancestors[d],
           \A x \in Ancestors[d] : popData'[x] = popData[x]
    PROVE  /\ Earlier(f)' = Earlier(f)
           /\ \A S : (\A e \in S : e[1] \in Ancestors[d]) =>
                        (Supported(f, S)' <=> Supported(f, S))
           /\ \A e \in Earlier(f) : e[1] \in Ancestors[d]
<1> USE TreeFacts
<1>1. \A x \in Ancestors[d] : CommandsOf(x)' = CommandsOf(x)
  BY DEF CommandsOf
<1>2. Ancestors[f[1]] \subseteq Ancestors[d]
  OBVIOUS
<1>3. Positions(f[1])' = Positions(f[1])
  <2>1. ASSUME NEW x, NEW i
        PROVE  <<x, i>> \in Positions(f[1])' <=> <<x, i>> \in Positions(f[1])
    <3>1. <<x, i>> \in Positions(f[1])' <=>
             x \in Ancestors[f[1]] /\ i \in DOMAIN CommandsOf(x)'
      BY PositionsFactsPrimed
    <3>2. <<x, i>> \in Positions(f[1]) <=>
             x \in Ancestors[f[1]] /\ i \in DOMAIN CommandsOf(x)
      BY PositionsFacts
    <3> QED
      BY <1>1, <1>2, <3>1, <3>2
  <2>2. \A e \in Positions(f[1]) \cup Positions(f[1])' : e = <<e[1], e[2]>>
    BY PositionsFacts, PositionsFactsPrimed
  <2> QED
    BY <2>1, <2>2
<1>4. Earlier(f)' = Earlier(f)
  BY <1>3 DEF Earlier, Before
<1>5. \A e : e[1] \in Ancestors[d] => CommandAt(e)' = CommandAt(e)
  BY <1>1 DEF CommandAt
<1>6. ASSUME NEW S, \A e \in S : e[1] \in Ancestors[d]
      PROVE  Supported(f, S)' <=> Supported(f, S)
  <2>1. \A v : Provided(v, S)' <=> Provided(v, S)
    BY <1>5, <1>6 DEF Provided
  <2>2. CommandAt(f)' = CommandAt(f)
    BY <1>5
  <2> QED
    BY <2>1, <2>2 DEF Supported
<1>7. \A e \in Earlier(f) : e[1] \in Ancestors[d]
  BY <1>2, PositionsFacts DEF Earlier
<1> QED
  BY <1>4, <1>6, <1>7

\* BLOCK_CAN_BE_APPLIED stays justified when no block gains it and no body below
\* such a block changes.
LEMMA AloneKept ==
    ASSUME TypeOK, TypeOK', CanBeAppliedAlone,
           \A x \in inTree' : level'[x] = CAN_BE_APPLIED =>
               /\ x \in inTree /\ level[x] = CAN_BE_APPLIED
               /\ \A a \in Ancestors[x] : popData'[a] = popData[a]
    PROVE  CanBeAppliedAlone'
<1> SUFFICES ASSUME NEW x \in inTree', level'[x] = CAN_BE_APPLIED
             PROVE  AppliesAlone(x)'
  BY DEF CanBeAppliedAlone
<1>1. /\ x \in inTree /\ level[x] = CAN_BE_APPLIED /\ x \in Blocks
      /\ \A a \in Ancestors[x] : popData'[a] = popData[a]
  BY DEF TypeOK
<1>2. AppliesAlone(x)
  BY <1>1 DEF CanBeAppliedAlone
<1>3. \A a \in Ancestors[x] : CommandsOf(a)' = CommandsOf(a)
  BY <1>1 DEF CommandsOf
<1>4. Positions(x)' = Positions(x)
  <2>1. \A d, i : <<d, i>> \in Positions(x)' <=> <<d, i>> \in Positions(x)
    BY <1>3, PositionsFacts, PositionsFactsPrimed
  <2>2. \A e \in Positions(x) \cup Positions(x)' : e = <<e[1], e[2]>>
    BY PositionsFacts, PositionsFactsPrimed
  <2> QED
    BY <2>1, <2>2
<1>5. ASSUME NEW f \in Positions(x)
      PROVE  Supported(f, {e \in Positions(x) : Before(e, f)})'
  <2>1. f[1] \in Ancestors[x] /\ \A e \in Positions(x) : e[1] \in Ancestors[x]
    BY PositionsFacts
  <2> DEFINE S == {e \in Positions(x) : Before(e, f)}
  <2>2. S' = S
    BY <1>4 DEF Before
  <2>3. Supported(f, S)
    BY <1>2 DEF AppliesAlone
  <2>4. \A e \in S : e[1] \in Ancestors[x]
    BY <2>1
  <2> HIDE DEF S
  <2>5. \A T : (\A e \in T : e[1] \in Ancestors[x]) =>
                  (Supported(f, T)' <=> Supported(f, T))
    BY <1>1, <2>1, SameSupport
  <2> QED
    BY <2>2, <2>3, <2>4, <2>5 DEF S
<1> QED
  BY <1>4, <1>5 DEF AppliesAlone

\* The commands of a chain whose last block CAN_BE_APPLIED need no other chain.
LEMMA AloneSupported ==
    ASSUME ControlInv, VbkInv, NEW d \in inTree, level[d] = CAN_BE_APPLIED,
           NEW f, f[1] \in Ancestors[d], f \in Positions(f[1])
    PROVE  Supported(f, Earlier(f))
<1>1. TypeOK /\ d \in Blocks /\ AppliesAlone(d)
  BY DEF ControlInv, IInv, TypeOK, VbkInv, CanBeAppliedAlone
<1>2. f \in Positions(d)
  BY PositionsFacts
<1> QED
  BY <1>1, <1>2, AppliesAloneFacts

\* An executed command is a command of its block.
LEMMA ExecutedPosition ==
    ASSUME ControlInv, NEW f \in Executed
    PROVE  /\ f = <<f[1], f[2]>> /\ f[1] \in Blocks /\ f \in Positions(f[1])
           /\ f[1] \in active \/ (job # NoJob /\ f[1] = job.block)
           /\ f[2] \in DOMAIN CommandsOf(f[1]) /\ f[2] \in Nat
           /\ CommandAt(f) = CommandsOf(f[1])[f[2]]
<1>1. f = <<f[1], f[2]>> /\ IsExecuted(f[1], f[2])
  BY ExecutedFacts
<1>2. f[1] \in Blocks /\ (f[1] \in active \/ (job # NoJob /\ f[1] = job.block))
  BY <1>1, ActiveClosed, JobFacts DEF IsExecuted
<1>3. /\ Len(CommandsOf(f[1])) \in Nat
      /\ DOMAIN CommandsOf(f[1]) = 1 .. Len(CommandsOf(f[1]))
  BY <1>2, CommandsFacts DEF ControlInv, IInv
<1>4. f[2] \in DOMAIN CommandsOf(f[1]) /\ f[2] \in Nat
  BY <1>1, <1>3, JobFacts DEF IsExecuted
<1>5. f \in Positions(f[1])
  BY <1>1, <1>2, <1>4, TreeFacts, PositionsFacts
<1> QED
  BY <1>1, <1>2, <1>4, <1>5 DEF CommandAt

\* When the new chain is one that CAN_BE_APPLIED, no executed command needs the
\* other chain.
LEMMA AllAlone ==
    ASSUME ControlInv, VbkInv, job = NoJob, ~idle => level[sm.b] = CAN_BE_APPLIED
    PROVE  \A f \in Executed : Supported(f, Earlier(f))
<1> SUFFICES ASSUME NEW f \in Executed PROVE Supported(f, Earlier(f))
  OBVIOUS
<1>1. f[1] \in active /\ f \in Positions(f[1])
  BY ExecutedPosition
<1>2. tip \in inTree /\ level[tip] = CAN_BE_APPLIED /\ tip \in Blocks
  BY TreeFacts DEF ControlInv, IInv, TypeOK, ActiveChainValid
<1>3. CASE idle
  BY <1>1, <1>2, <1>3, AloneSupported DEF ControlInv, Applied, AppliedExact
<1>4. CASE ~idle
  <2>1. /\ active = Ancestors[sm.a] \cup Ancestors[sm.b]
        /\ Ancestors[sm.a] \subseteq Ancestors[tip]
        /\ sm.b \in inTree
    BY <1>4, OperationFacts DEF ControlInv, Paths
  <2> QED
    BY <1>1, <1>2, <1>4, <2>1, AloneSupported
<1> QED
  BY <1>3, <1>4

-----------------------------------------------------------------------------
(* Steps that execute no command.                                           *)

\* The VBK tree and the executed commands stay what they are.
LEMMA SameExecuted ==
    ASSUME ControlInv, VbkInv, refs' = refs, endorsements' = endorsements,
           \A x, i : IsExecuted(x, i)' <=> IsExecuted(x, i),
           \A x \in active : popData'[x] = popData[x],
           job # NoJob => popData'[job.block] = popData[job.block]
    PROVE  /\ Executed' = Executed
           /\ VbkTypeOK' /\ ProtectingStateExact' /\ IsFiniteSet(Executed)'
<1>1. Executed' = Executed
  <2>1. \A x, i : <<x, i>> \in Executed' <=> <<x, i>> \in Executed
    BY ExecutedFacts, ExecutedFactsPrimed
  <2>2. \A e \in Executed \cup Executed' : e = <<e[1], e[2]>>
    BY ExecutedFacts, ExecutedFactsPrimed
  <2> QED
    BY <2>1, <2>2
<1>2. \A e \in Executed : CommandAt(e)' = CommandAt(e)
  <2> SUFFICES ASSUME NEW e \in Executed PROVE CommandAt(e)' = CommandAt(e)
    OBVIOUS
  <2>1. popData'[e[1]] = popData[e[1]]
    BY ExecutedPosition
  <2> QED
    BY <2>1 DEF CommandAt, CommandsOf
<1>3. ProtectingStateExact'
  <2>1. ASSUME NEW v \in VbkBlocks
        PROVE  {e \in Executed' : CommandAt(e)'.op = "AddBlock" /\ CommandAt(e)'.vbk = v}
               = {e \in Executed : CommandAt(e).op = "AddBlock" /\ CommandAt(e).vbk = v}
    BY <1>1, <1>2
  <2>2. {Endorsement(e[1], CommandAt(e)) :
                e \in {x \in Executed : CommandAt(x).op = "AddEndorsement"}}'
        = {Endorsement(e[1], CommandAt(e)) :
                e \in {x \in Executed : CommandAt(x).op = "AddEndorsement"}}
    <3>1. {x \in Executed : CommandAt(x).op = "AddEndorsement"}'
          = {x \in Executed : CommandAt(x).op = "AddEndorsement"}
      BY <1>1, <1>2
    <3> QED
      BY <1>2, <3>1 DEF Endorsement
  <2> QED
    BY <2>1, <2>2 DEF VbkInv, ProtectingStateExact
<1> QED
  BY <1>1, <1>3 DEF VbkInv, VbkTypeOK

\* The executed commands keep their support when the old chain stays whole, or
\* when they do not need it.
LEMMA SupportKept ==
    ASSUME ControlInv, VbkInv, Executed' = Executed,
           \/ popData' = popData /\ tip' = tip /\ (Helped => Helped')
           \/ /\ \A f \in Executed : Supported(f, Earlier(f))
              /\ \A f \in Executed : \A x \in Ancestors[f[1]] : popData'[x] = popData[x]
    PROVE  ExecutedSupported'
<1> SUFFICES ASSUME NEW f \in Executed PROVE Supported(f, Support(f))'
  BY DEF ExecutedSupported
<1>1. f[1] \in Blocks /\ f[1] \in Ancestors[f[1]]
  BY ExecutedPosition, TreeFacts
<1>2. CASE popData' = popData /\ tip' = tip /\ (Helped => Helped')
  <2>1. Earlier(f)' = Earlier(f) /\ Positions(tip)' = Positions(tip)
    BY <1>2 DEF Earlier, Positions, Before, CommandsOf
  <2>2. Support(f) \subseteq Support(f)'
    BY <1>2, <2>1 DEF Support
  <2>3. Supported(f, Support(f)')
    BY <2>2, SupportedMonotone DEF VbkInv, ExecutedSupported
  <2>4. \A S : Supported(f, S)' <=> Supported(f, S)
    BY <1>2 DEF Supported, Provided, CommandAt, CommandsOf
  <2>5. \A S : Supported(f, S)' /\ S = Support(f)' => Supported(f, Support(f))'
    BY DEF Supported, Provided
  <2> QED
    BY <2>3, <2>4, <2>5
<1>3. CASE /\ \A g \in Executed : Supported(g, Earlier(g))
           /\ \A g \in Executed : \A x \in Ancestors[g[1]] : popData'[x] = popData[x]
  <2>1. /\ Earlier(f)' = Earlier(f)
        /\ \A S : (\A e \in S : e[1] \in Ancestors[f[1]]) =>
                     (Supported(f, S)' <=> Supported(f, S))
        /\ \A e \in Earlier(f) : e[1] \in Ancestors[f[1]]
    BY <1>1, <1>3, SameSupport
  <2>2. \A S : Supported(f, S)' /\ S \subseteq Support(f)' => Supported(f, Support(f))'
    BY DEF Supported, Provided
  <2>3. Earlier(f) \subseteq Support(f)'
    BY <2>1 DEF Support
  <2> QED
    BY <1>3, <2>1, <2>2, <2>3
<1> QED
  BY <1>2, <1>3

\* A step of an operation that changes no body, executes no command and leaves the
\* VBK tree alone.
LEMMA QuietStep ==
    ASSUME ControlInv, ControlInv', VbkInv, refs' = refs, endorsements' = endorsements,
           popData' = popData,
           \A x, i : IsExecuted(x, i)' <=> IsExecuted(x, i),
           \A x \in inTree' : level'[x] = CAN_BE_APPLIED =>
               x \in inTree /\ level[x] = CAN_BE_APPLIED,
           \/ tip' = tip /\ (Helped => Helped')
           \/ \A f \in Executed : Supported(f, Earlier(f))
    PROVE  VbkInv'
<1>1. Executed' = Executed /\ VbkTypeOK' /\ ProtectingStateExact' /\ IsFiniteSet(Executed)'
  BY SameExecuted
<1>2. ExecutedSupported'
  BY <1>1, SupportKept
<1>3. CanBeAppliedAlone'
  BY AloneKept DEF ControlInv, IInv, VbkInv
<1> QED
  BY <1>1, <1>2, <1>3 DEF VbkInv

\* The other operations of the tree change no body of the active chain, and none
\* below a block that CAN_BE_APPLIED.
LEMMA BodiesKept ==
    ASSUME IInv, IInv', NEW b \in Blocks,
           \/ AcceptBlockHeader(b) \/ RemovePayloads(b) \/ RemoveSubtree(b)
           \/ \E p \in PopDatas : AcceptBlock(b, p)
           \/ \E r : InvalidateSubtree(b, r) \/ RevalidateSubtree(b, r)
    PROVE  /\ \A x \in Ancestors[tip'] : popData'[x] = popData[x]
           /\ \A x \in inTree' : level'[x] = CAN_BE_APPLIED =>
                 /\ x \in inTree /\ level[x] = CAN_BE_APPLIED
                 /\ \A a \in Ancestors[x] : popData'[a] = popData[a]
<1> USE TreeFacts DEF VALID_UNKNOWN, VALID_TREE, CONNECTED, CAN_BE_APPLIED, Levels
<1>1. /\ tip \in Blocks /\ tip' \in Blocks /\ inTree \subseteq Blocks /\ inTree' \subseteq Blocks
      /\ level \in [Blocks -> Levels] /\ popData \in [Blocks -> PopDatas \cup {NoPopData}]
  BY DEF IInv, TypeOK
<1>2. \A x \in inTree : level[x] = 4 => \A a \in Ancestors[x] : level[a] = 4
  <2> SUFFICES ASSUME NEW x \in inTree, level[x] = 4, NEW a \in Ancestors[x]
               PROVE  level[a] = 4
    OBVIOUS
  <2>1. level[x] <= level[a] /\ level[a] \in Levels
    BY <1>1 DEF IInv, Shape, LevelsOrdered
  <2> QED
    BY <2>1
<1>3. CASE AcceptBlockHeader(b)
  <2>1. /\ popData' = popData /\ inTree' = inTree \cup {b}
        /\ level' = [level EXCEPT ![b] = IF b \in failedPop THEN level[b] ELSE 1]
        /\ level[b] = 0
    BY <1>3 DEF AcceptBlockHeader, headerContract, RaisedToTree, payloadVars, IInv, Shape, DeletedBare
  <2> QED
    BY <1>1, <2>1
<1>4. CASE \E p \in PopDatas : AcceptBlock(b, p)
  <2>1. PICK p \in PopDatas : AcceptBlock(b, p)
    BY <1>4
  <2>2. /\ acceptBlockContract(b) /\ popData' = [popData EXCEPT ![b] = p]
        /\ inTree' = inTree /\ tip' = tip /\ level' = Raised(Connects(b), 2)
    BY <2>1 DEF AcceptBlock
  <2>3. ~isConnected(b) /\ b \notin Ancestors[tip]
    BY <2>2, ConnectsFacts DEF acceptBlockContract, OnActiveChain
  <2>4. \A x \in Blocks : level'[x] = 4 => level[x] = 4
    BY <1>1, <2>2 DEF Raised
  <2>5. \A x \in inTree : level[x] = 4 => b \notin Ancestors[x]
    BY <1>2, <2>3 DEF isConnected
  <2> QED
    BY <1>1, <2>2, <2>3, <2>4, <2>5
<1>5. CASE RemovePayloads(b)
  <2>1. /\ popData' = [popData EXCEPT ![b] = NoPopData] /\ inTree' = inTree /\ tip' = tip
        /\ level' = IF isConnected(b) THEN [level EXCEPT ![b] = 1] ELSE level
        /\ b \notin Ancestors[tip] /\ \A c \in Children(b) : ~isConnected(c)
    BY <1>5 DEF RemovePayloads, removePayloadsContract, OnActiveChain
  <2>2. \A x \in Blocks : level'[x] = 4 => level[x] = 4 /\ x # b
    BY <1>1, <2>1 DEF isConnected
  <2>3. ASSUME NEW x \in inTree, level[x] = 4, x # b, b \in Ancestors[x]
        PROVE  FALSE
    <3>1. PICK c \in Children(b) : c \in Ancestors[x]
      BY <1>1, <2>3, ChildOnPath
    <3>2. level[c] = 4
      BY <1>2, <2>3, <3>1
    <3> QED
      BY <2>1, <3>1, <3>2 DEF isConnected
  <2> QED
    BY <1>1, <2>1, <2>2, <2>3
<1>6. CASE \E r : InvalidateSubtree(b, r) \/ RevalidateSubtree(b, r)
  <2>1. popData' = popData /\ inTree' = inTree /\ level' = level
    BY <1>6 DEF InvalidateSubtree, RevalidateSubtree, payloadVars
  <2> QED
    BY <2>1
<1>7. CASE RemoveSubtree(b)
  <2> DEFINE gone == {d \in inTree : b \in Ancestors[d]}
  <2>1. /\ inTree' = inTree \ gone /\ b \in inTree /\ b # Root
        /\ level' = [d \in Blocks |-> IF d \in gone THEN 0 ELSE level[d]]
        /\ popData' = [d \in Blocks |-> IF d \in gone THEN NoPopData ELSE popData[d]]
        /\ tip' = TipWithout(b)
    BY <1>7 DEF RemoveSubtree
  <2>2. b \notin Ancestors[tip']
    BY <1>1, <2>1, PrevFacts DEF TipWithout, OnActiveChain
  <2>3. \A x \in Blocks : b \notin Ancestors[x] => \A a \in Ancestors[x] : popData'[a] = popData[a]
    BY <1>1, <2>1
  <2>4. \A x \in inTree' : b \notin Ancestors[x] /\ x \in inTree /\ level'[x] = level[x]
    BY <1>1, <2>1
  <2> QED
    BY <1>1, <2>2, <2>3, <2>4
<1> QED
  BY <1>3, <1>4, <1>5, <1>6, <1>7

\* Between two operations the VBK tree is that of the active chain, whatever
\* happens to the rest of the tree.
LEMMA SettledStep ==
    ASSUME ControlInv, ControlInv', VbkInv, refs' = refs, endorsements' = endorsements,
           job = NoJob, job' = NoJob, active' = active,
           ~idle => level[sm.b] = CAN_BE_APPLIED,
           \A x \in active : popData'[x] = popData[x],
           \A x \in inTree' : level'[x] = CAN_BE_APPLIED =>
               /\ x \in inTree /\ level[x] = CAN_BE_APPLIED
               /\ \A a \in Ancestors[x] : popData'[a] = popData[a]
    PROVE  VbkInv'
<1>1. \A x, i : IsExecuted(x, i)' <=> IsExecuted(x, i)
  BY DEF IsExecuted, CommandsOf
<1>2. Executed' = Executed /\ VbkTypeOK' /\ ProtectingStateExact' /\ IsFiniteSet(Executed)'
  BY <1>1, SameExecuted
<1>3. \A f \in Executed : Supported(f, Earlier(f))
  BY AllAlone
<1>4. \A f \in Executed : \A x \in Ancestors[f[1]] : popData'[x] = popData[x]
  BY ActiveClosed, ExecutedPosition
<1>5. ExecutedSupported'
  BY <1>2, <1>3, <1>4, SupportKept
<1>6. CanBeAppliedAlone'
  BY AloneKept DEF ControlInv, IInv, VbkInv
<1> QED
  BY <1>2, <1>5, <1>6 DEF VbkInv

\* The operations on the tree beside the active chain.
LEMMA TreeOperationVbk ==
    ASSUME OnlyBlockReason, ControlInv, VbkInv, TreeOperation
    PROVE  VbkInv'
<1>1. ControlInv' /\ tip' = tip
  BY TreeOperationStep
<1>2. /\ idle /\ refs' = refs /\ endorsements' = endorsements /\ job' = job /\ active' = active
      /\ job = NoJob /\ active = Ancestors[tip]
  BY DEF TreeOperation, runVars, protectingVars, appliedVars, ControlInv, Control, Applied,
         AppliedExact
<1>3. PICK b \in Blocks : \/ AcceptBlockHeader(b) \/ RemovePayloads(b) \/ RemoveSubtree(b)
                          \/ \E p \in PopDatas : AcceptBlock(b, p)
                          \/ \E r : InvalidateSubtree(b, r) \/ RevalidateSubtree(b, r)
  BY Zenon DEF TreeOperation
<1>4. /\ \A x \in Ancestors[tip'] : popData'[x] = popData[x]
      /\ \A x \in inTree' : level'[x] = CAN_BE_APPLIED =>
            /\ x \in inTree /\ level[x] = CAN_BE_APPLIED
            /\ \A a \in Ancestors[x] : popData'[a] = popData[a]
  BY <1>1, <1>3, BodiesKept DEF ControlInv
<1> QED
  BY <1>1, <1>2, <1>4, SettledStep

\* The end of an operation that reached its goal.
LEMMA CompleteVbk ==
    ASSUME ControlInv, ControlInv', VbkInv, ~idle, job = NoJob, Complete,
           sm.a = sm.fork, sm.b = sm.to, sm.phase \in {"unapplyOld", "applyNew"}
    PROVE  VbkInv'
<1>1. /\ refs' = refs /\ endorsements' = endorsements /\ job' = NoJob /\ active' = active
      /\ sm' = Idle
  BY DEF Complete, EndRun, protectingVars, appliedVars
<1>2. level[sm.b] = CAN_BE_APPLIED
  BY CompleteFacts, TreeFacts
<1>3. active = Ancestors[tip']
  BY <1>1 DEF ControlInv, Applied, AppliedExact, idle
<1>4. CASE sm.then = "switch" /\ UNCHANGED <<statusVars, payloadVars, tips>>
  BY <1>1, <1>2, <1>4, SettledStep DEF statusVars, payloadVars
<1>5. CASE \E x \in Blocks, r \in ExternalReasons : InvalidateSubtree(x, r)
  <2>1. PICK x \in Blocks : \E r : InvalidateSubtree(x, r)
    BY <1>5
  <2>2. /\ \A y \in Ancestors[tip'] : popData'[y] = popData[y]
        /\ \A y \in inTree' : level'[y] = CAN_BE_APPLIED =>
              /\ y \in inTree /\ level[y] = CAN_BE_APPLIED
              /\ \A a \in Ancestors[y] : popData'[a] = popData[a]
    BY <2>1, BodiesKept DEF ControlInv
  <2> QED
    BY <1>1, <1>2, <1>3, <2>2, SettledStep
<1>6. CASE \E x \in Blocks : RemoveSubtree(x)
  <2>1. PICK x \in Blocks : RemoveSubtree(x)
    BY <1>6
  <2>2. /\ \A y \in Ancestors[tip'] : popData'[y] = popData[y]
        /\ \A y \in inTree' : level'[y] = CAN_BE_APPLIED =>
              /\ y \in inTree /\ level[y] = CAN_BE_APPLIED
              /\ \A a \in Ancestors[y] : popData'[a] = popData[a]
    BY <2>1, BodiesKept DEF ControlInv
  <2> QED
    BY <1>1, <1>2, <1>3, <2>2, SettledStep
<1> QED
  BY <1>4, <1>5, <1>6 DEF Complete

\* A job begins: nothing of the block has been executed, or all of it.
LEMMA StartVbk ==
    ASSUME ControlInv, ControlInv', VbkInv, job = NoJob, NEW x \in Blocks,
           (startUnapply(x) /\ x \in active) \/ (startApply(x) /\ x \notin active)
    PROVE  VbkInv'
<1>1. /\ UNCHANGED vars /\ sm' = sm /\ active' = active
      /\ refs' = refs /\ endorsements' = endorsements
  BY DEF startApply, startUnapply, appliedVars, protectingVars
<1>2. popData' = popData /\ tip' = tip /\ level' = level /\ inTree' = inTree
  BY <1>1 DEF vars, statusVars, payloadVars
<1>3. \A y : CommandsOf(y)' = CommandsOf(y)
  BY <1>2 DEF CommandsOf
<1>4. ASSUME NEW y, NEW i PROVE IsExecuted(y, i)' <=> IsExecuted(y, i)
  <2>1. CASE startApply(x) /\ x \notin active
    <3>1. job' # NoJob /\ job'.block = x /\ job'.done = 0
      BY <2>1 DEF startApply, NoJob
    <3> QED
      BY <1>1, <1>3, <2>1, <3>1 DEF IsExecuted
  <2>2. CASE startUnapply(x) /\ x \in active
    <3>1. job' # NoJob /\ job'.block = x /\ job'.done = Len(CommandsOf(x))
      BY <2>2 DEF startUnapply, NoJob
    <3>2. DOMAIN CommandsOf(x) = 1 .. Len(CommandsOf(x))
      BY CommandsFacts DEF ControlInv, IInv
    <3> QED
      BY <1>1, <1>3, <2>2, <3>1, <3>2 DEF IsExecuted
  <2> QED
    BY <2>1, <2>2
<1>5. Helped => Helped'
  BY <1>1, <1>2 DEF Helped, idle
<1> QED
  BY <1>1, <1>2, <1>4, <1>5, QuietStep

\* A step that leaves the tree and what is applied alone: an operation goes on to
\* its next phase, begins or ends.
LEMMA TurnVbk ==
    ASSUME ControlInv, ControlInv', VbkInv, job = NoJob, job' = NoJob,
           UNCHANGED <<vars, protectingVars, appliedVars>>,
           Helped => Helped' \/ level[sm.b] = CAN_BE_APPLIED
    PROVE  VbkInv'
<1>1. /\ active' = active /\ refs' = refs /\ endorsements' = endorsements
      /\ popData' = popData /\ tip' = tip /\ level' = level /\ inTree' = inTree
  BY DEF vars, statusVars, payloadVars, protectingVars, appliedVars
<1>2. ASSUME NEW y, NEW i PROVE IsExecuted(y, i)' <=> IsExecuted(y, i)
  BY <1>1 DEF IsExecuted, CommandsOf
<1>3. (Helped => Helped') \/ \A f \in Executed : Supported(f, Earlier(f))
  BY AllAlone DEF Helped
<1> QED
  BY <1>1, <1>2, <1>3, QuietStep

\* One step of an operation between two jobs.
LEMMA PhaseVbk ==
    ASSUME ControlInv, ControlInv', VbkInv, job = NoJob,
           UnapplyOld \/ ApplyNew \/ Decide \/ TrimNew \/ UndoNew \/ ReapplyOld
    PROVE  VbkInv'
<1> USE TreeFacts
<1>1. ~idle
  BY DEF UnapplyOld, ApplyNew, Decide, TrimNew, UndoNew, ReapplyOld, idle, Idle
<1>2. /\ {sm.a, sm.b, sm.to, sm.fork, tip} \subseteq Blocks
      /\ active = Ancestors[sm.a] \cup Ancestors[sm.b] /\ sm \in Operations
      /\ sm.a \in active /\ sm.b \in active
  BY <1>1, OperationFacts
<1>3. sm.a \in Ancestors[tip] /\ sm.b \in Ancestors[sm.to] /\ sm.fork \in Ancestors[tip]
  BY <1>1 DEF ControlInv, Paths
<1>4. level[sm.fork] = CAN_BE_APPLIED
  BY <1>3 DEF ControlInv, IInv, ActiveChainValid
<1>5. ASSUME NEW x \in Blocks, startUnapply(x), x = sm.a \/ x = sm.b
      PROVE  VbkInv'
  BY <1>2, <1>5, StartVbk
<1>6. ASSUME NEW p \in Phases, GoTo(p),
             Helped => level[sm.b] = CAN_BE_APPLIED
                       \/ p \in {"applyNew", "decide", "trimNew", "undoNew"}
      PROVE  VbkInv'
  <2>1. /\ sm' = [sm EXCEPT !.phase = p] /\ job' = job
        /\ UNCHANGED <<vars, protectingVars, appliedVars>>
    BY <1>6 DEF GoTo
  <2>2. sm'.phase = p /\ sm'.a = sm.a /\ tip' = tip
    BY <1>2, <2>1 DEF Operations, vars
  <2>3. ~idle'
    <3>1. Idle.phase = "idle" /\ "idle" \notin Phases
      BY DEF Idle, Phases
    <3> QED
      BY <2>2, <3>1 DEF idle
  <2>4. Helped => Helped' \/ level[sm.b] = CAN_BE_APPLIED
    BY <1>6, <2>2, <2>3 DEF Helped
  <2> QED
    BY <2>1, <2>4, TurnVbk
<1>7. ASSUME NEW n \in Blocks \ {Root}, startApply(n),
             \/ sm.phase = "applyNew" /\ n \in Ancestors[sm.to] /\ Prev[n] = sm.b
             \/ sm.phase = "reapplyOld" /\ n \in Ancestors[tip] /\ Prev[n] = sm.a
      PROVE  VbkInv'
  <2>1. n \notin active
    BY <1>1, <1>7, NextBlock
  <2> QED
    BY <1>7, <2>1, StartVbk
<1>8. CASE UnapplyOld
  <2>1. sm.phase = "unapplyOld" /\ ~Helped
    BY <1>8 DEF UnapplyOld, Helped
  <2>2. CASE startUnapply(sm.a)
    BY <1>2, <1>5, <2>2
  <2>3. CASE Complete /\ sm.a = sm.fork /\ sm.b = sm.to
    BY <1>1, <2>1, <2>3, CompleteVbk
  <2>4. CASE GoTo("applyNew") \/ GoTo("reapplyOld")
    BY <1>6, <2>1, <2>4 DEF Phases
  <2> QED
    BY <1>8, <2>2, <2>3, <2>4 DEF UnapplyOld
<1>9. CASE ApplyNew
  <2>1. sm.phase = "applyNew"
    BY <1>9 DEF ApplyNew
  <2>2. CASE startApply(Successor(sm.b, sm.to)) /\ sm.b # sm.to
    <3> DEFINE n == Successor(sm.b, sm.to)
    <3>1. n \in Blocks \ {Root} /\ n \in Ancestors[sm.to] /\ Prev[n] = sm.b
      BY <1>2, <1>3, <2>2, SuccessorFacts
    <3>2. startApply(n)
      BY <2>2
    <3> HIDE DEF n
    <3> QED
      BY <1>7, <2>1, <3>1, <3>2
  <2>3. CASE Complete /\ sm.a = sm.fork /\ sm.b = sm.to
    BY <1>1, <2>1, <2>3, CompleteVbk
  <2>4. CASE GoTo("decide")
    BY <1>6, <2>4 DEF Phases
  <2> QED
    BY <1>9, <2>2, <2>3, <2>4 DEF ApplyNew
<1>10. CASE Decide
  <2>1. GoTo("undoNew") \/ GoTo("trimNew")
    BY <1>10 DEF Decide
  <2> QED
    BY <1>6, <2>1 DEF Phases
<1>11. CASE TrimNew
  <2>1. CASE startUnapply(sm.b)
    BY <1>2, <1>5, <2>1
  <2>2. CASE GoTo("unapplyOld") /\ (sm.b = sm.fork \/ level[sm.b] >= CAN_BE_APPLIED)
    <3>1. level[sm.b] \in Levels
      BY <1>2 DEF ControlInv, IInv, TypeOK
    <3>2. level[sm.b] = CAN_BE_APPLIED
      BY <1>4, <2>2, <3>1 DEF Levels, CAN_BE_APPLIED, VALID_UNKNOWN
    <3> QED
      BY <1>6, <2>2, <3>2 DEF Phases
  <2> QED
    BY <1>11, <2>1, <2>2 DEF TrimNew
<1>12. CASE UndoNew
  <2>1. CASE startUnapply(sm.b)
    BY <1>2, <1>5, <2>1
  <2>2. CASE GoTo("reapplyOld") /\ sm.b = sm.fork
    BY <1>4, <1>6, <2>2 DEF Phases
  <2> QED
    BY <1>12, <2>1, <2>2 DEF UndoNew
<1>13. CASE ReapplyOld
  <2>1. sm.phase = "reapplyOld" /\ ~Helped
    BY <1>13 DEF ReapplyOld, Helped
  <2>2. CASE startApply(Successor(sm.a, tip)) /\ sm.a # tip
    <3> DEFINE n == Successor(sm.a, tip)
    <3>1. n \in Blocks \ {Root} /\ n \in Ancestors[tip] /\ Prev[n] = sm.a
      BY <1>2, <1>3, <2>2, SuccessorFacts
    <3>2. startApply(n)
      BY <2>2
    <3> HIDE DEF n
    <3> QED
      BY <1>7, <2>1, <3>1, <3>2
  <2>3. CASE EndRun /\ UNCHANGED vars
    <3>1. job' = NoJob /\ UNCHANGED <<vars, protectingVars, appliedVars>>
      BY <2>3 DEF EndRun
    <3> QED
      BY <2>1, <3>1, TurnVbk
  <2> QED
    BY <1>13, <2>2, <2>3 DEF ReapplyOld
<1> QED
  BY <1>8, <1>9, <1>10, <1>11, <1>12, <1>13

\* The beginnings of the four operations that switch the active chain.
LEMMA BeginningVbk ==
    ASSUME ControlInv, ControlInv', VbkInv, NEW x \in Blocks,
           \/ BeginSetState(x) \/ BeginCompare(x) \/ BeginRemove(x)
           \/ \E r \in ExternalReasons : BeginInvalidate(x, r)
    PROVE  VbkInv'
<1>1. idle /\ job = NoJob /\ ~Helped
  BY DEF BeginSetState, BeginCompare, BeginRemove, BeginInvalidate, ControlInv, Control, Helped
<1>2. \E p, to, then, r : Begin(p, to, then, x, r)
  BY DEF BeginSetState, BeginCompare, BeginRemove, BeginInvalidate
<1>3. job' = job /\ UNCHANGED <<vars, protectingVars, appliedVars>>
  BY <1>2 DEF Begin
<1> QED
  BY <1>1, <1>3, TurnVbk

\* A block is entered into the applied ones: its commands stay executed, and when
\* it gets BLOCK_CAN_BE_APPLIED nothing beside its own chain supported them.
LEMMA BlockAppliedVbk ==
    ASSUME ControlInv, ControlInv', VbkInv, BlockApplied
    PROVE  VbkInv'
<1> USE TreeFacts
<1> DEFINE n == job.block
<1>1. /\ job # NoJob /\ job.mode = "apply" /\ job' = NoJob
      /\ job.done = Len(CommandsOf(n)) /\ active' = active \cup {n} /\ sm' = Moved(n)
      /\ inTree' = inTree /\ popData' = popData /\ tip' = tip
      /\ refs' = refs /\ endorsements' = endorsements
  BY DEF BlockApplied, NoJob, payloadVars, protectingVars
<1>2. /\ ~idle /\ n \in Blocks \ {Root} /\ n \notin active
      /\ Ancestors[Prev[n]] \subseteq active
      /\ \/ sm.phase = "applyNew" /\ n \in Ancestors[sm.to]
         \/ sm.phase = "reapplyOld" /\ n \in Ancestors[tip]
  BY <1>1, JobFacts DEF ControlInv, JobInv
<1>3. n \in Blocks /\ DOMAIN CommandsOf(n) = 1 .. Len(CommandsOf(n)) /\ TypeOK
  BY <1>2, CommandsFacts DEF ControlInv, IInv
<1>4. \A y : CommandsOf(y)' = CommandsOf(y)
  BY <1>1 DEF CommandsOf
<1>5. ASSUME NEW y, NEW i PROVE IsExecuted(y, i)' <=> IsExecuted(y, i)
  BY <1>1, <1>2, <1>3, <1>4 DEF IsExecuted
<1>6. Helped => Helped'
  <2>1. /\ ~idle' /\ sm'.phase = sm.phase
        /\ sm.phase \notin {"unapplyOld", "reapplyOld"} => sm'.a = sm.a
    BY <1>1, <1>2, <1>3, MovedFacts
  <2> QED
    BY <1>1, <2>1 DEF Helped
<1>7. Executed' = Executed /\ VbkTypeOK' /\ ProtectingStateExact' /\ IsFiniteSet(Executed)'
  BY <1>1, <1>5, SameExecuted
<1>8. ExecutedSupported'
  BY <1>1, <1>6, <1>7, SupportKept
<1>9. /\ \A x \in Blocks \ {n} : level'[x] = level[x]
      /\ level'[n] = CAN_BE_APPLIED =>
            \/ level[n] = CAN_BE_APPLIED
            \/ level[Prev[n]] = CAN_BE_APPLIED /\ active = Ancestors[Prev[n]]
  BY AppliedLevel
<1> HIDE DEF n
<1>10. ASSUME level[Prev[n]] = CAN_BE_APPLIED, active = Ancestors[Prev[n]]
       PROVE  AppliesAlone(n)
  <2>1. /\ Prev[n] \in Blocks /\ Ancestors[n] = Ancestors[Prev[n]] \cup {n}
        /\ Height[n] = Height[Prev[n]] + 1 /\ Height[Prev[n]] \in Nat
    BY <1>2, PrevFacts, HeightAssumption
  <2>2. Prev[n] \in inTree
    <3>1. n \in inTree
      BY <1>2, OperationFacts DEF ControlInv, IInv, ActiveChainValid
    <3> QED
      BY <2>1, <3>1 DEF ControlInv, IInv, Shape, LevelsOrdered
  <2> SUFFICES ASSUME NEW f \in Positions(n) PROVE Supported(f, Earlier(f))
    BY <1>3, AppliesAloneFacts
  <2>3. f = <<f[1], f[2]>> /\ f[1] \in Ancestors[n] /\ f[2] \in DOMAIN CommandsOf(f[1])
    BY PositionsFacts
  <2>4. f \in Positions(f[1])
    BY <1>3, <2>3, PositionsFacts
  <2>5. CASE f[1] \in Ancestors[Prev[n]]
    BY <1>10, <2>2, <2>4, <2>5, AloneSupported
  <2>6. CASE f[1] = n
    <3>1. f \in Executed
      BY <1>1, <1>3, <2>3, <2>6, ExecutedFacts DEF IsExecuted, n
    <3>2. Supported(f, Support(f))
      BY <3>1 DEF VbkInv, ExecutedSupported
    <3>3. ASSUME Helped, NEW e \in Positions(tip)
          PROVE  e \in Earlier(f)
      <4>1. e = <<e[1], e[2]>> /\ e[1] \in Ancestors[tip] /\ e[2] \in DOMAIN CommandsOf(e[1])
        BY PositionsFacts
      <4>2. e[1] \in Ancestors[Prev[n]]
        BY <1>2, <1>10, <3>3, <4>1, OperationFacts DEF Helped
      <4>3. Height[e[1]] < Height[n]
        <5>1. Height[e[1]] <= Height[Prev[n]] /\ Height[e[1]] \in Nat
          BY <2>1, <4>2, HeightAssumption
        <5> QED
          BY <2>1, <5>1
      <4>4. e \in Positions(n)
        BY <2>1, <4>1, <4>2, PositionsFacts
      <4> QED
        BY <2>6, <4>3, <4>4 DEF Earlier, Before
    <3>4. Support(f) \subseteq Earlier(f)
      BY <3>3 DEF Support
    <3> QED
      BY <3>2, <3>4, SupportedMonotone
  <2> QED
    BY <2>1, <2>3, <2>5, <2>6
<1>11. CanBeAppliedAlone'
  <2> SUFFICES ASSUME NEW x \in inTree, level'[x] = CAN_BE_APPLIED
               PROVE  AppliesAlone(x)'
    BY <1>1 DEF CanBeAppliedAlone
  <2>1. AppliesAlone(x)
    BY <1>3, <1>9, <1>10 DEF VbkInv, CanBeAppliedAlone, TypeOK
  <2> QED
    BY <1>4, <2>1 DEF AppliesAlone, Positions, Before, Supported, Provided, CommandAt
<1> QED
  BY <1>7, <1>8, <1>11 DEF VbkInv

\* A block leaves the applied ones: none of its commands is executed any more.
LEMMA BlockUnappliedVbk ==
    ASSUME ControlInv, ControlInv', VbkInv, BlockUnapplied
    PROVE  VbkInv'
<1> DEFINE n == job.block
<1>1. /\ job # NoJob /\ job.mode = "unapply" /\ job' = NoJob /\ job.done = 0
      /\ UNCHANGED vars /\ active' = active \ {n} /\ sm' = Moved(Prev[n])
      /\ refs' = refs /\ endorsements' = endorsements
  BY DEF BlockUnapplied, NoJob, protectingVars
<1>2. popData' = popData /\ tip' = tip /\ level' = level /\ inTree' = inTree
  BY <1>1 DEF vars, statusVars, payloadVars
<1>3. ASSUME NEW y, NEW i PROVE IsExecuted(y, i)' <=> IsExecuted(y, i)
  <2>1. CommandsOf(y)' = CommandsOf(y)
    BY <1>2 DEF CommandsOf
  <2> QED
    BY <1>1, <2>1 DEF IsExecuted
<1>4. /\ ~idle /\ n \in Blocks \ {Root}
      /\ sm.phase = "unapplyOld" \/ sm.phase \in {"trimNew", "undoNew"}
  BY <1>1, JobFacts DEF ControlInv, JobInv
<1>5. Helped => Helped'
  <2>1. Prev[n] \in Blocks
    BY <1>4, PrevFacts
  <2>2. /\ ~idle' /\ sm'.phase = sm.phase
        /\ sm.phase \notin {"unapplyOld", "reapplyOld"} => sm'.a = sm.a
    BY <1>1, <1>4, <2>1, MovedFacts
  <2> QED
    BY <1>2, <2>2 DEF Helped
<1> QED
  BY <1>1, <1>2, <1>3, <1>5, QuietStep

\* A refused block: none of its commands is executed any more.
LEMMA BlockRefusedVbk ==
    ASSUME ControlInv, ControlInv', VbkInv, BlockRefused
    PROVE  VbkInv'
<1> DEFINE n == job.block
<1>1. /\ job # NoJob /\ job.mode = "abort" /\ job' = NoJob /\ job.done = 0
      /\ popData' = popData /\ tip' = tip /\ level' = level /\ inTree' = inTree
      /\ active' = active /\ sm' = [sm EXCEPT !.phase = "undoNew"]
      /\ refs' = refs /\ endorsements' = endorsements
  BY DEF BlockRefused, NoJob, protectingVars, payloadVars, appliedVars
<1>2. ~idle /\ n \notin active /\ sm \in Operations
  BY <1>1, JobFacts, OperationFacts
<1>3. ASSUME NEW y, NEW i PROVE IsExecuted(y, i)' <=> IsExecuted(y, i)
  <2>1. CommandsOf(y)' = CommandsOf(y)
    BY <1>1 DEF CommandsOf
  <2> QED
    BY <1>1, <1>2, <2>1 DEF IsExecuted
<1>4. Helped => Helped'
  <2>1. sm'.phase = "undoNew" /\ sm'.a = sm.a /\ sm' # Idle
    BY <1>1, <1>2 DEF Operations, Idle
  <2> QED
    BY <1>1, <2>1 DEF Helped, idle
<1> QED
  BY <1>1, <1>3, <1>4, QuietStep

-----------------------------------------------------------------------------
(* Commands.                                                                *)

Adds(v) == {e \in Executed : CommandAt(e).op = "AddBlock" /\ CommandAt(e).vbk = v}

\* What a step that executes or takes back one command of the job leaves alone.
LEMMA CommandFrame ==
    ASSUME ControlInv, ExecuteCommand \/ UnExecuteCommand
    PROVE  /\ active' = active /\ popData' = popData /\ tip' = tip /\ level' = level
           /\ inTree' = inTree /\ sm' = sm /\ (Helped' <=> Helped)
           /\ \A e : CommandAt(e)' = CommandAt(e)
           /\ \A e, S : Supported(e, S)' <=> Supported(e, S)
           /\ \A e : Support(e)' = Support(e)
           /\ job # NoJob /\ job \in Jobs
<1>1. /\ active' = active /\ popData' = popData /\ tip' = tip /\ level' = level
      /\ inTree' = inTree /\ sm' = sm
  BY DEF ExecuteCommand, UnExecuteCommand, vars, statusVars, payloadVars, appliedVars
<1>2. \A y : CommandsOf(y)' = CommandsOf(y)
  BY <1>1 DEF CommandsOf
<1>3. \A e : CommandAt(e)' = CommandAt(e)
  BY <1>2 DEF CommandAt
<1>4. \A e, S : Supported(e, S)' <=> Supported(e, S)
  BY <1>3 DEF Supported, Provided
<1>5. Helped' <=> Helped
  BY <1>1 DEF Helped, idle
<1>6. \A b : Positions(b)' = Positions(b)
  BY <1>2 DEF Positions
<1>7. \A e : Earlier(e)' = Earlier(e)
  BY <1>6 DEF Earlier, Before
<1>8. \A e : Support(e)' = Support(e)
  BY <1>1, <1>5, <1>6, <1>7 DEF Support
<1>9. job # NoJob /\ job \in Jobs
  BY DEF ExecuteCommand, UnExecuteCommand, NoJob, ControlInv, Control
<1> QED
  BY <1>1, <1>3, <1>4, <1>5, <1>8, <1>9

\* The set of executed commands when the count of the job goes up or down by one.
LEMMA CountedCommand ==
    ASSUME ControlInv, job # NoJob, job' # NoJob, active' = active, popData' = popData,
           job'.block = job.block, NEW k \in Nat
    PROVE  /\ job.done = k /\ job'.done = k + 1 =>
                 /\ <<job.block, k + 1>> \notin Executed
                 /\ Executed' = Executed \cup {<<job.block, k + 1>>}
           /\ job.done = k + 1 /\ job'.done = k =>
                 /\ <<job.block, k + 1>> \in Executed
                 /\ Executed' = Executed \ {<<job.block, k + 1>>}
           /\ job'.done = job.done => Executed' = Executed
<1>1. \A y : CommandsOf(y)' = CommandsOf(y)
  BY DEF CommandsOf
<1>2. \A x, i : <<x, i>> \in Executed <=> IsExecuted(x, i)
  BY ExecutedFacts
<1>3. \A x, i : <<x, i>> \in Executed' <=>
         \/ x \in active /\ job.block # x /\ i \in DOMAIN CommandsOf(x)
         \/ x = job.block /\ i \in 1 .. job'.done
  BY <1>1, ExecutedFactsPrimed DEF IsExecuted
<1>4. \A x, i : <<x, i>> \in Executed <=>
         \/ x \in active /\ job.block # x /\ i \in DOMAIN CommandsOf(x)
         \/ x = job.block /\ i \in 1 .. job.done
  BY <1>2 DEF IsExecuted
<1>5. \A e \in Executed \cup Executed' : e = <<e[1], e[2]>>
  BY ExecutedFacts, ExecutedFactsPrimed
<1>6. \A m : m \in 1 .. (k + 1) <=> m \in 1 .. k \/ m = k + 1
  OBVIOUS
<1>7. k + 1 \notin 1 .. k
  OBVIOUS
<1>8. ASSUME job.done = k, job'.done = k + 1
      PROVE  /\ <<job.block, k + 1>> \notin Executed
             /\ Executed' = Executed \cup {<<job.block, k + 1>>}
  <2>1. <<job.block, k + 1>> \notin Executed
    BY <1>4, <1>7, <1>8
  <2>2. \A x, i : <<x, i>> \in Executed' <=> <<x, i>> \in Executed \/ (x = job.block /\ i = k + 1)
    BY <1>3, <1>4, <1>6, <1>8
  <2> QED
    BY <1>5, <2>1, <2>2
<1>9. ASSUME job.done = k + 1, job'.done = k
      PROVE  /\ <<job.block, k + 1>> \in Executed
             /\ Executed' = Executed \ {<<job.block, k + 1>>}
  <2>1. <<job.block, k + 1>> \in Executed
    BY <1>4, <1>6, <1>9
  <2>2. \A x, i : <<x, i>> \in Executed' <=> <<x, i>> \in Executed /\ ~(x = job.block /\ i = k + 1)
    BY <1>3, <1>4, <1>6, <1>7, <1>9
  <2> QED
    BY <1>5, <2>1, <2>2
<1>10. job'.done = job.done => Executed' = Executed
  <2> SUFFICES ASSUME job'.done = job.done PROVE Executed' = Executed
    OBVIOUS
  <2>1. \A x, i : <<x, i>> \in Executed' <=> <<x, i>> \in Executed
    BY <1>3, <1>4
  <2> QED
    BY <1>5, <2>1
<1> QED
  BY <1>8, <1>9, <1>10

\* Two executed commands never enter the same endorsement.
LEMMA EndorsementOnce ==
    ASSUME ControlInv, NEW e \in Executed, NEW f \in Executed,
           CommandAt(e).op = "AddEndorsement", CommandAt(f).op = "AddEndorsement",
           Endorsement(e[1], CommandAt(e)) = Endorsement(f[1], CommandAt(f))
    PROVE  e = f
<1>1. e[1] = f[1] /\ CommandAt(e).id = CommandAt(f).id
  BY DEF Endorsement
<1>2. /\ e = <<e[1], e[2]>> /\ f = <<f[1], f[2]>> /\ e[1] \in Blocks
      /\ e[2] \in DOMAIN CommandsOf(e[1]) /\ f[2] \in DOMAIN CommandsOf(e[1])
      /\ CommandAt(e) = CommandsOf(e[1])[e[2]] /\ CommandAt(f) = CommandsOf(e[1])[f[2]]
  BY <1>1, ExecutedPosition
<1>3. popData[e[1]] # NoPopData /\ CommandsOf(e[1]) = Commands[popData[e[1]]]
  <2>1. popData[e[1]] = NoPopData => CommandsOf(e[1]) = <<>>
    BY DEF CommandsOf
  <2> QED
    BY <1>2, <2>1 DEF CommandsOf
<1>4. popData[e[1]] \in PopDatas
  BY <1>2, <1>3 DEF ControlInv, IInv, TypeOK
<1>5. e[2] = f[2]
  BY <1>1, <1>2, <1>3, <1>4, DistinctAtvs
<1> QED
  BY <1>1, <1>2, <1>5

\* While a block is being applied, everything that has been executed is before its
\* next command, or on the old chain that is still whole.
LEMMA ExecutedInSupport ==
    ASSUME ControlInv, job # NoJob, job.mode = "apply",
           job.done < Len(CommandsOf(job.block))
    PROVE  Executed \subseteq Support(<<job.block, job.done + 1>>)
<1> USE TreeFacts
<1> DEFINE n == job.block
           f == <<n, job.done + 1>>
<1>1. /\ ~idle /\ n \in Blocks \ {Root} /\ job.done \in Nat
      /\ \/ sm.phase = "applyNew" /\ n \in Ancestors[sm.to] /\ Prev[n] = sm.b
         \/ sm.phase = "reapplyOld" /\ n \in Ancestors[tip] /\ Prev[n] = sm.a
  BY JobFacts DEF ControlInv, JobInv
<1>2. /\ active = Ancestors[sm.a] \cup Ancestors[sm.b]
      /\ {sm.a, sm.b, sm.fork, tip} \subseteq Blocks
  BY <1>1, OperationFacts
<1>3. /\ Prev[n] \in Blocks /\ Ancestors[n] = Ancestors[Prev[n]] \cup {n}
      /\ Height[n] = Height[Prev[n]] + 1 /\ Height[Prev[n]] \in Nat
  BY <1>1, PrevFacts, HeightAssumption
<1>4. f[1] = n /\ f[2] = job.done + 1
  OBVIOUS
<1>5. active = Ancestors[Prev[n]] \/ (Helped /\ active = Ancestors[tip] \cup Ancestors[Prev[n]])
  <2>1. sm.fork \in Ancestors[sm.a] /\ sm.fork \in Ancestors[sm.b]
    BY <1>1 DEF ControlInv, Paths
  <2>2. CASE sm.phase = "reapplyOld"
    <3>1. sm.b = sm.fork
      BY <1>1, <2>2 DEF ControlInv, PhaseInv
    <3> QED
      BY <1>1, <1>2, <2>1, <2>2, <3>1
  <2>3. CASE sm.phase = "applyNew"
    <3>1. sm.a = tip \/ sm.a = sm.fork
      BY <1>1, <2>3 DEF ControlInv, PhaseInv
    <3> QED
      BY <1>1, <1>2, <2>1, <2>3, <3>1 DEF Helped
  <2> QED
    BY <1>1, <2>2, <2>3
<1> HIDE DEF n, f
<1> SUFFICES ASSUME NEW e \in Executed PROVE e \in Support(f)
  BY DEF n, f
<1>6. /\ e = <<e[1], e[2]>> /\ e[2] \in DOMAIN CommandsOf(e[1]) /\ e[1] \in Blocks
      /\ e[1] \in active \/ e[1] = n
  BY ExecutedPosition DEF n
<1>7. CASE e[1] = n
  <2>1. IsExecuted(e[1], e[2])
    BY <1>6, ExecutedFacts
  <2>2. e[2] < job.done + 1
    BY <1>1, <1>7, <2>1 DEF IsExecuted, n
  <2>3. e \in Positions(n)
    BY <1>3, <1>6, <1>7, PositionsFacts
  <2> QED
    BY <1>4, <1>7, <2>2, <2>3 DEF Support, Earlier, Before
<1>8. CASE e[1] \in Ancestors[Prev[n]]
  <2>1. Height[e[1]] <= Height[Prev[n]] /\ Height[e[1]] \in Nat
    BY <1>3, <1>8, HeightAssumption
  <2>2. Height[e[1]] < Height[n]
    BY <1>3, <2>1
  <2>3. e \in Positions(n)
    BY <1>3, <1>6, <1>8, PositionsFacts
  <2> QED
    BY <1>4, <2>2, <2>3 DEF Support, Earlier, Before
<1>9. CASE Helped /\ e[1] \in Ancestors[tip]
  <2>1. e \in Positions(tip)
    BY <1>6, <1>9, PositionsFacts
  <2> QED
    BY <1>9, <2>1 DEF Support
<1> QED
  BY <1>5, <1>6, <1>7, <1>8, <1>9

\* A command is executed or refused.
LEMMA ExecuteVbk ==
    ASSUME ControlInv, ControlInv', VbkInv, ExecuteCommand
    PROVE  VbkInv'
<1> DEFINE f == <<job.block, job.done + 1>>
           c == CommandAt(f)
<1>1. /\ active' = active /\ popData' = popData /\ tip' = tip /\ level' = level
      /\ inTree' = inTree /\ (Helped' <=> Helped)
      /\ \A e : CommandAt(e)' = CommandAt(e)
      /\ \A e, S : Supported(e, S)' <=> Supported(e, S)
      /\ \A e : Support(e)' = Support(e)
      /\ job # NoJob /\ job \in Jobs
  BY CommandFrame
<1>2. job.mode = "apply" /\ job.done < Len(CommandsOf(job.block)) /\ job.done \in Nat
  BY <1>1 DEF ExecuteCommand, Jobs
<1>3. c = CommandsOf(job.block)[job.done + 1] /\ f[1] = job.block
  BY DEF CommandAt
<1>4. \A e \in Executed : Supported(e, Support(e))'
  BY <1>1 DEF VbkInv, ExecutedSupported
<1>5. CanBeAppliedAlone'
  BY <1>1, AloneKept DEF ControlInv, IInv, VbkInv
<1>6. CASE ~CanExecute(job.block, c)
  <2>1. job' = [job EXCEPT !.mode = "abort"] /\ refs' = refs /\ endorsements' = endorsements
    BY <1>3, <1>6 DEF ExecuteCommand, protectingVars
  <2>2. job' # NoJob /\ job'.block = job.block /\ job'.done = job.done
    BY <1>1, <2>1 DEF Jobs, NoJob
  <2>3. \A x, i : IsExecuted(x, i)' <=> IsExecuted(x, i)
    BY <1>1, <2>2 DEF IsExecuted, CommandsOf
  <2> QED
    BY <1>1, <2>1, <2>3, QuietStep
<1>7. CASE CanExecute(job.block, c)
  <2>1. job' = [job EXCEPT !.done = @ + 1] /\ Execute(job.block, c)
    BY <1>3, <1>7 DEF ExecuteCommand
  <2>2. job' # NoJob /\ job'.block = job.block /\ job'.done = job.done + 1
    BY <1>1, <2>1 DEF Jobs, NoJob
  <2>3. f \notin Executed /\ Executed' = Executed \cup {f}
    BY <1>1, <1>2, <2>2, CountedCommand
  <2>4. /\ f \in Positions(job.block) /\ job.block \in Blocks
        /\ c.op \in {"AddBlock", "AddEndorsement"} /\ c.vbk \in VbkBlocks
        /\ c.op = "AddEndorsement" => c.endorsed \in Blocks /\ c.id \in PayloadIds
    <3>1. f \in Positions(job.block) /\ job.block \in Blocks
      BY <1>1, <1>2, EarlierExecuted, JobFacts
    <3>2. job.done + 1 \in DOMAIN CommandsOf(job.block)
      BY <3>1, PositionsFacts
    <3> QED
      BY <1>3, <3>1, <3>2, CommandsFacts DEF ControlInv, IInv
  <2>5. Supported(f, Support(f))
    <3>1. Supported(f, Executed)
      BY <1>1, <1>2, <1>7, ExecutesIffSupported, ClosedFacts
    <3>2. Executed \subseteq Support(f)
      BY <1>1, <1>2, ExecutedInSupport
    <3> QED
      BY <3>1, <3>2, SupportedMonotone
  <2> HIDE DEF f, c
  <2>6. ExecutedSupported'
    BY <1>1, <1>4, <2>3, <2>5 DEF ExecutedSupported
  <2>7. IsFiniteSet(Executed)' /\ IsFiniteSet(Executed)
    BY <2>3, FS_AddElement DEF VbkInv
  <2>8. CASE c.op = "AddBlock"
    <3>1. refs' = [refs EXCEPT ![c.vbk] = @ + 1] /\ endorsements' = endorsements
      BY <2>1, <2>8 DEF Execute, addRef
    <3>2. ASSUME NEW v \in VbkBlocks
          PROVE  refs'[v] = Cardinality(Adds(v)') + (IF v = VbkRoot THEN 1 ELSE 0)
      <4>1. /\ refs[v] = Cardinality(Adds(v)) + (IF v = VbkRoot THEN 1 ELSE 0)
            /\ refs \in [VbkBlocks -> Nat]
        BY DEF VbkInv, ProtectingStateExact, Adds, VbkTypeOK
      <4>2. IsFiniteSet(Adds(v)) /\ Cardinality(Adds(v)) \in Nat /\ f \notin Adds(v)
        BY <2>3, <2>7, FS_Subset, FS_CardinalityType DEF Adds
      <4>3. Adds(v)' = IF v = c.vbk THEN Adds(v) \cup {f} ELSE Adds(v)
        BY <1>1, <2>3, <2>8 DEF Adds, c
      <4>4. Cardinality(Adds(v) \cup {f}) = Cardinality(Adds(v)) + 1
        BY <4>2, FS_AddElement
      <4> QED
        BY <3>1, <4>1, <4>2, <4>3, <4>4
    <3>3. endorsements' = {Endorsement(e[1], CommandAt(e)) :
                            e \in {x \in Executed : CommandAt(x).op = "AddEndorsement"}}'
      <4>1. {x \in Executed : CommandAt(x).op = "AddEndorsement"}'
              = {x \in Executed : CommandAt(x).op = "AddEndorsement"}
        BY <1>1, <2>3, <2>8 DEF c
      <4> QED
        BY <1>1, <3>1, <4>1 DEF VbkInv, ProtectingStateExact, Endorsement
    <3>4. ProtectingStateExact'
      BY <3>2, <3>3 DEF ProtectingStateExact, Adds
    <3>5. VbkTypeOK'
      BY <2>4, <3>1 DEF VbkInv, VbkTypeOK
    <3> QED
      BY <1>5, <2>6, <2>7, <3>4, <3>5 DEF VbkInv
  <2>9. CASE c.op = "AddEndorsement"
    <3>1. endorsements' = endorsements \cup {Endorsement(job.block, c)} /\ refs' = refs
      BY <2>1, <2>9 DEF Execute
    <3>2. ASSUME NEW v \in VbkBlocks
          PROVE  refs'[v] = Cardinality(Adds(v)') + (IF v = VbkRoot THEN 1 ELSE 0)
      <4>1. Adds(v)' = Adds(v)
        BY <1>1, <2>3, <2>9 DEF Adds, c
      <4> QED
        BY <3>1, <4>1 DEF VbkInv, ProtectingStateExact, Adds
    <3>3. endorsements' = {Endorsement(e[1], CommandAt(e)) :
                            e \in {x \in Executed : CommandAt(x).op = "AddEndorsement"}}'
      <4>1. {x \in Executed : CommandAt(x).op = "AddEndorsement"}'
              = {x \in Executed : CommandAt(x).op = "AddEndorsement"} \cup {f}
        BY <1>1, <2>3, <2>9 DEF c
      <4>2. endorsements = {Endorsement(e[1], CommandAt(e)) :
                            e \in {x \in Executed : CommandAt(x).op = "AddEndorsement"}}
        BY DEF VbkInv, ProtectingStateExact
      <4>3. Endorsement(job.block, c) = Endorsement(f[1], CommandAt(f))
        BY <1>3 DEF c
      <4>4. {Endorsement(e[1], CommandAt(e)) :
                e \in {x \in Executed : CommandAt(x).op = "AddEndorsement"}}'
            = {Endorsement(e[1], CommandAt(e)) :
                e \in {x \in Executed : CommandAt(x).op = "AddEndorsement"} \cup {f}}
        BY <1>1, <4>1 DEF Endorsement
      <4> QED
        BY <3>1, <4>2, <4>3, <4>4
    <3>4. ProtectingStateExact'
      BY <3>2, <3>3 DEF ProtectingStateExact, Adds
    <3>5. VbkTypeOK'
      BY <2>4, <2>9, <3>1 DEF VbkInv, VbkTypeOK, Endorsement
    <3> QED
      BY <1>5, <2>6, <2>7, <3>4, <3>5 DEF VbkInv
  <2> QED
    BY <2>4, <2>8, <2>9
<1> QED
  BY <1>6, <1>7

\* A command is taken back: the last one of the block that is still executed.
LEMMA UnExecuteVbk ==
    ASSUME ControlInv, ControlInv', VbkInv, UnExecuteCommand
    PROVE  VbkInv'
<1> DEFINE f == <<job.block, job.done>>
           c == CommandAt(f)
<1>1. /\ active' = active /\ popData' = popData /\ tip' = tip /\ level' = level
      /\ inTree' = inTree /\ (Helped' <=> Helped)
      /\ \A e : CommandAt(e)' = CommandAt(e)
      /\ \A e, S : Supported(e, S)' <=> Supported(e, S)
      /\ \A e : Support(e)' = Support(e)
      /\ job # NoJob /\ job \in Jobs
  BY CommandFrame
<1>2. /\ job.done > 0 /\ job.done \in Nat
      /\ job' = [job EXCEPT !.done = @ - 1] /\ UnExecute(job.block, c)
  BY <1>1 DEF UnExecuteCommand, Jobs, CommandAt
<1>3. job' # NoJob /\ job'.block = job.block /\ job'.done = job.done - 1
  BY <1>1, <1>2 DEF Jobs, NoJob
<1>4. f \in Executed /\ Executed' = Executed \ {f}
  <2>1. PICK k \in Nat : job.done = k + 1 /\ job'.done = k
    <3>1. job.done - 1 \in Nat /\ job.done = (job.done - 1) + 1
      BY <1>2
    <3> QED
      BY <1>3, <3>1
  <2> QED
    BY <1>1, <1>3, <2>1, CountedCommand
<1>5. /\ f[1] = job.block
      /\ c.op \in {"AddBlock", "AddEndorsement"} /\ c.vbk \in VbkBlocks
  <2>1. /\ f[1] \in Blocks /\ f[2] \in DOMAIN CommandsOf(f[1])
        /\ CommandAt(f) = CommandsOf(f[1])[f[2]]
    BY <1>4, ExecutedPosition
  <2> QED
    BY <2>1, CommandsFacts DEF ControlInv, IInv
<1> HIDE DEF f, c
<1>6. ExecutedSupported'
  BY <1>1, <1>4 DEF VbkInv, ExecutedSupported
<1>7. CanBeAppliedAlone'
  BY <1>1, AloneKept DEF ControlInv, IInv, VbkInv
<1>8. IsFiniteSet(Executed)' /\ IsFiniteSet(Executed)
  BY <1>4, FS_RemoveElement DEF VbkInv
<1>9. CASE c.op = "AddBlock"
  <2>1. refs' = [refs EXCEPT ![c.vbk] = @ - 1] /\ endorsements' = endorsements
    BY <1>2, <1>9 DEF UnExecute, removeRef
  <2>2. ASSUME NEW v \in VbkBlocks
        PROVE  /\ refs'[v] = Cardinality(Adds(v)') + (IF v = VbkRoot THEN 1 ELSE 0)
               /\ refs'[v] \in Nat
    <3>1. /\ refs[v] = Cardinality(Adds(v)) + (IF v = VbkRoot THEN 1 ELSE 0)
          /\ refs \in [VbkBlocks -> Nat]
      BY DEF VbkInv, ProtectingStateExact, Adds, VbkTypeOK
    <3>2. IsFiniteSet(Adds(v)) /\ Cardinality(Adds(v)) \in Nat
      BY <1>8, FS_Subset, FS_CardinalityType DEF Adds
    <3>3. Adds(v)' = IF v = c.vbk THEN Adds(v) \ {f} ELSE Adds(v)
      BY <1>1, <1>4, <1>9 DEF Adds, c
    <3>4. v = c.vbk => /\ Cardinality(Adds(v) \ {f}) = Cardinality(Adds(v)) - 1
                       /\ Cardinality(Adds(v) \ {f}) \in Nat
      <4>1. v = c.vbk => f \in Adds(v)
        BY <1>4, <1>9 DEF Adds, c
      <4>2. IsFiniteSet(Adds(v) \ {f})
        BY <3>2, FS_RemoveElement
      <4> QED
        BY <3>2, <4>1, <4>2, FS_RemoveElement, FS_CardinalityType
    <3> QED
      BY <2>1, <3>1, <3>2, <3>3, <3>4
  <2>3. endorsements' = {Endorsement(e[1], CommandAt(e)) :
                          e \in {x \in Executed : CommandAt(x).op = "AddEndorsement"}}'
    <3>1. {x \in Executed : CommandAt(x).op = "AddEndorsement"}'
            = {x \in Executed : CommandAt(x).op = "AddEndorsement"}
      BY <1>1, <1>4, <1>9 DEF c
    <3> QED
      BY <1>1, <2>1, <3>1 DEF VbkInv, ProtectingStateExact, Endorsement
  <2>4. ProtectingStateExact'
    BY <2>2, <2>3 DEF ProtectingStateExact, Adds
  <2>5. VbkTypeOK'
    BY <2>1, <2>2 DEF VbkInv, VbkTypeOK
  <2> QED
    BY <1>6, <1>7, <1>8, <2>4, <2>5 DEF VbkInv
<1>10. CASE c.op = "AddEndorsement"
  <2>1. endorsements' = endorsements \ {Endorsement(job.block, c)} /\ refs' = refs
    BY <1>2, <1>10 DEF UnExecute
  <2>2. ASSUME NEW v \in VbkBlocks
        PROVE  refs'[v] = Cardinality(Adds(v)') + (IF v = VbkRoot THEN 1 ELSE 0)
    <3>1. Adds(v)' = Adds(v)
      BY <1>1, <1>4, <1>10 DEF Adds, c
    <3> QED
      BY <2>1, <3>1 DEF VbkInv, ProtectingStateExact, Adds
  <2>3. endorsements' = {Endorsement(e[1], CommandAt(e)) :
                          e \in {x \in Executed : CommandAt(x).op = "AddEndorsement"}}'
    <3> DEFINE E == {x \in Executed : CommandAt(x).op = "AddEndorsement"}
    <3>1. E' = E \ {f} /\ f \in E
      BY <1>1, <1>4, <1>10 DEF c
    <3>2. endorsements = {Endorsement(e[1], CommandAt(e)) : e \in E}
      BY DEF VbkInv, ProtectingStateExact
    <3>3. Endorsement(job.block, c) = Endorsement(f[1], CommandAt(f))
      BY <1>5 DEF c
    <3>4. \A e \in E : Endorsement(e[1], CommandAt(e)) = Endorsement(f[1], CommandAt(f)) => e = f
      BY <1>4, <3>1, EndorsementOnce
    <3>5. {Endorsement(e[1], CommandAt(e)) : e \in E}'
          = {Endorsement(e[1], CommandAt(e)) : e \in E \ {f}}
      BY <1>1, <3>1 DEF Endorsement
    <3> HIDE DEF E
    <3>6. {Endorsement(e[1], CommandAt(e)) : e \in E} \ {Endorsement(f[1], CommandAt(f))}
          = {Endorsement(e[1], CommandAt(e)) : e \in E \ {f}}
      BY <3>1, <3>4
    <3> QED
      BY <2>1, <3>2, <3>3, <3>5, <3>6 DEF E
  <2>4. ProtectingStateExact'
    BY <2>2, <2>3 DEF ProtectingStateExact, Adds
  <2>5. VbkTypeOK'
    BY <2>1 DEF VbkInv, VbkTypeOK
  <2> QED
    BY <1>6, <1>7, <1>8, <2>4, <2>5 DEF VbkInv
<1> QED
  BY <1>5, <1>9, <1>10

-----------------------------------------------------------------------------
(* The theorems.                                                            *)

\* The bootstrapped VBK tree: only the root, and no command of Root's body.
LEMMA InitVbk == SMInit => VbkInv
<1> SUFFICES ASSUME SMInit PROVE VbkInv
  OBVIOUS
<1> USE TreeFacts
<1>1. /\ refs = [v \in VbkBlocks |-> IF v = VbkRoot THEN 1 ELSE 0] /\ endorsements = {}
      /\ active = {Root} /\ job = NoJob /\ inTree = {Root}
      /\ popData = [b \in Blocks |-> NoPopData]
  BY DEF SMInit, Init
<1>2. CommandsOf(Root) = <<>> /\ DOMAIN CommandsOf(Root) = {}
  BY <1>1 DEF CommandsOf
<1>3. Executed = {}
  <2>1. \A x, i : ~IsExecuted(x, i)
    BY <1>1, <1>2 DEF IsExecuted
  <2> QED
    BY <2>1, ExecutedFacts
<1>4. IsFiniteSet(Executed)
  BY <1>3, FS_EmptySet
<1>5. ProtectingStateExact
  <2>1. \A v \in VbkBlocks : Adds(v) = {}
    BY <1>3 DEF Adds
  <2>2. \A v \in VbkBlocks : refs[v] = Cardinality(Adds(v)) + (IF v = VbkRoot THEN 1 ELSE 0)
    <3>1. \A v \in VbkBlocks : Cardinality(Adds(v)) = 0
      BY <2>1, FS_EmptySet
    <3> QED
      BY <1>1, <3>1
  <2> QED
    BY <1>1, <1>3, <2>2 DEF ProtectingStateExact, Adds
<1>6. CanBeAppliedAlone
  <2>1. Ancestors[Root] = {Root}
    BY TreeAssumption
  <2>2. Positions(Root) = {}
    BY <1>2, <2>1, PositionsFacts
  <2> QED
    BY <1>1, <2>2 DEF CanBeAppliedAlone, AppliesAlone
<1>7. VbkTypeOK
  BY <1>1 DEF VbkTypeOK
<1> QED
  BY <1>3, <1>4, <1>5, <1>6, <1>7 DEF VbkInv, ExecutedSupported

\* Every step preserves the inductive invariant.
LEMMA NextSMInv ==
    ASSUME OnlyBlockReason, SMInv, [SMNext]_allVars
    PROVE  SMInv'
<1>1. ControlInv /\ VbkInv /\ ControlInv'
  BY NextControl DEF SMInv
<1>2. CASE Step
  BY <1>1, <1>2, ExecuteVbk, UnExecuteVbk, BlockAppliedVbk, BlockUnappliedVbk, BlockRefusedVbk,
     PhaseVbk DEF Step, SMInv
<1>3. CASE SMNext /\ ~Step
  BY <1>1, <1>3, TreeOperationVbk, BeginningVbk DEF SMNext, SMInv
<1>4. CASE UNCHANGED allVars
  <2>1. /\ UNCHANGED vars /\ sm' = sm /\ job' = job /\ active' = active
        /\ refs' = refs /\ endorsements' = endorsements
    BY <1>4 DEF allVars, runVars, appliedVars, protectingVars
  <2>2. popData' = popData /\ tip' = tip /\ level' = level /\ inTree' = inTree
    BY <2>1 DEF vars, statusVars, payloadVars
  <2>3. \A y, i : IsExecuted(y, i)' <=> IsExecuted(y, i)
    BY <2>1, <2>2 DEF IsExecuted, CommandsOf
  <2>4. Helped => Helped'
    BY <2>1, <2>2 DEF Helped, idle
  <2> QED
    BY <1>1, <2>1, <2>2, <2>3, <2>4, QuietStep DEF SMInv
<1> QED
  BY <1>2, <1>3, <1>4

\* The inductive invariant of PopStateMachine holds in every reachable state.
THEOREM StateMachineInvariant ==
    ASSUME OnlyBlockReason
    PROVE  SMSpec => []SMInv
<1>1. SMInit => SMInv
  BY InitControl, InitVbk DEF SMInv
<1>2. SMInv /\ [SMNext]_allVars => SMInv'
  BY NextSMInv
<1> QED
  BY <1>1, <1>2, PTL DEF SMSpec

\* The variables of PopStateMachine keep their types: a counter of references never
\* goes below zero and the count of executed commands never passes the body.
THEOREM StateMachineTypes ==
    ASSUME OnlyBlockReason
    PROVE  SMSpec => []SMTypeOK
<1>1. SMInv => SMTypeOK
  <2> SUFFICES ASSUME SMInv PROVE SMTypeOK
    OBVIOUS
  <2>1. ControlInv /\ VbkInv /\ TypeOK
    BY DEF SMInv, ControlInv, IInv
  <2>2. active \subseteq Blocks
    BY <2>1, ActiveClosed
  <2>3. appliedBlockCount \in Nat
    BY <2>1, FS_CardinalityType DEF ControlInv, Applied, AppliedExact
  <2>4. idle \/ /\ sm.phase \in Phases
                /\ {sm.to, sm.fork, sm.a, sm.b, sm.block} \subseteq Blocks
    BY <2>1, OperationFacts DEF Operations
  <2>5. job = NoJob \/ /\ job.block \in Blocks \ {Root}
                       /\ job.done \in 0 .. Len(CommandsOf(job.block))
    <3> SUFFICES ASSUME job # NoJob PROVE /\ job.block \in Blocks \ {Root}
                                          /\ job.done \in 0 .. Len(CommandsOf(job.block))
      OBVIOUS
    <3>1. /\ job.block \in Blocks \ {Root} /\ job.done \in Nat
          /\ job.done <= Len(CommandsOf(job.block))
      BY <2>1, JobFacts
    <3>2. Len(CommandsOf(job.block)) \in Nat
      BY <2>1, <3>1, CommandsFacts
    <3> QED
      BY <3>1, <3>2
  <2> QED
    BY <2>1, <2>2, <2>3, <2>4, <2>5 DEF SMTypeOK, VbkInv, VbkTypeOK
<1> QED
  BY <1>1, StateMachineInvariant, PTL

\* At every moment of every switch, failed ones and their undoing included, the VBK
\* tree holds a reference per executed AddBlock and an endorsement per executed
\* AddAltEndorsement, and nothing else.
THEOREM ProtectingStateTheorem ==
    ASSUME OnlyBlockReason
    PROVE  SMSpec => []ProtectingStateExact
<1>1. SMInv => ProtectingStateExact
  BY DEF SMInv, VbkInv
<1> QED
  BY <1>1, StateMachineInvariant, PTL

\* The assertions of removeLeaf and assertBlockCanBeRemoved: no VBK block leaves
\* the tree before its children and before the endorsements through it.
THEOREM VbkTreeClosedTheorem ==
    ASSUME OnlyBlockReason
    PROVE  SMSpec => []VbkTreeClosed
<1>1. SMInv => VbkTreeClosed
  BY ClosedFacts DEF SMInv
<1> QED
  BY <1>1, StateMachineInvariant, PTL

\* The applied blocks are the chains of the operation in progress, between two
\* operations the active chain, and appliedBlockCount counts them.
THEOREM AppliedTheorem ==
    ASSUME OnlyBlockReason
    PROVE  SMSpec => []AppliedExact
<1>1. SMInv => AppliedExact
  BY DEF SMInv, ControlInv, Applied
<1> QED
  BY <1>1, StateMachineInvariant, PTL

\* "state corruption: failed to rollback the state" is unreachable: a command of
\* the old chain is never refused when that chain is applied again.
THEOREM RollbackTheorem ==
    ASSUME OnlyBlockReason
    PROVE  SMSpec => []RollbackSucceeds
<1>1. SMInv => RollbackSucceeds
  <2> SUFFICES ASSUME SMInv, sm.phase = "reapplyOld", job.mode = "abort" PROVE FALSE
    BY DEF RollbackSucceeds
  <2>1. job # NoJob
    BY DEF NoJob
  <2> QED
    BY <2>1 DEF SMInv, ControlInv, JobInv
<1> QED
  BY <1>1, StateMachineInvariant, PTL

\* A block with BLOCK_CAN_BE_APPLIED has a chain whose commands execute on the
\* bootstrapped VBK tree with no other chain applied.
THEOREM AppliedAloneTheorem ==
    ASSUME OnlyBlockReason
    PROVE  SMSpec => []CanBeAppliedAlone
<1>1. SMInv => CanBeAppliedAlone
  BY DEF SMInv, VbkInv
<1> QED
  BY <1>1, StateMachineInvariant, PTL

\* The active chain stays valid and fully applied while a switch runs, and so do the
\* other invariants of AltBlockTree.
THEOREM StateMachineTree ==
    ASSUME OnlyBlockReason
    PROVE  SMSpec => [](ActiveChainValid /\ FailedChildExact /\ LevelsDescend /\ ConnectedExact
                          /\ AppliedNeverFailedPop)
<1>1. SMInv => ActiveChainValid /\ FailedChildExact /\ LevelsDescend /\ ConnectedExact
                 /\ AppliedNeverFailedPop
  BY DEF SMInv, ControlInv, IInv, Shape, Flags, LevelsOrdered, LevelsDescend
<1> QED
  BY <1>1, StateMachineInvariant, PTL

-----------------------------------------------------------------------------
(* PopStateMachine implements AltBlockTree, for every block universe, every *)
(* VBK tree and every set of bodies: the run of small steps that switches   *)
(* the active chain takes effect as one step of AltBlockTree or not at all. *)
(*                                                                          *)
(* The refinement mapping shows the tree as it was when the operation began *)
(* until the operation ends.  The proof needs to know what the operation    *)
(* has done to the tree since: RefInv.                                      *)

-----------------------------------------------------------------------------
(* What an operation has done so far.                                       *)

SavedFailed(x) == x \in failedBlock \cup saved.failedPop \cup saved.failedChild

\* No block has been refused.
Unflagged ==
    failedPop = saved.failedPop /\ failedChild = saved.failedChild /\ tips = saved.tips

SavedFlaggedBelow(k) == {d \in Below(k) : \A m \in Between(k, d) : ~SavedFailed(m)}

\* Block k has been refused.
Refused(k) ==
    LET base == saved.tips \ (SavedFlaggedBelow(k) \cup {k})
    IN  /\ failedPop = saved.failedPop \cup {k}
        /\ failedChild = saved.failedChild \cup SavedFlaggedBelow(k)
        /\ tips = IF isValidTip(Prev[k])
                    THEN {t \in base : Prev[k] \notin Children(t)} \cup {Prev[k]} ELSE base

\* The blocks up to p have reached level hi, the ones after it level lo.
Reached(lo, hi, p) ==
    level = [x \in Blocks |->
               IF x \in Unapplied(sm.to)
                 THEN LET l == IF x \in Ancestors[p] THEN hi ELSE lo
                      IN  IF saved.level[x] < l THEN l ELSE saved.level[x]
                 ELSE saved.level[x]]

\* The operation compares the active chain with a fork.
Forked ==
    /\ tip \notin Ancestors[sm.to] /\ sm.to \notin Ancestors[tip]
    /\ CrossesKeystone(sm.to) /\ ~SavedFailed(sm.to)

\* The new chain has been validated alone up to p, after a comparison or without.
ReachedAlone(p) ==
    \/ Reached(VALID_UNKNOWN, CAN_BE_APPLIED, p)
    \/ Forked /\ Reached(MAYBE_WITH_OTHER, CAN_BE_APPLIED, p)

\* What a failed operation leaves behind.
Outcome ==
    \/ Unflagged /\ level = saved.level
    \/ Unflagged /\ Forked /\ Reached(VALID_UNKNOWN, MAYBE_WITH_OTHER, sm.to)
    \/ \E k \in Unapplied(sm.to) :
          /\ Refused(k) /\ saved.level[k] < CAN_BE_APPLIED /\ ~SavedFailed(sm.to)
          /\ \/ ReachedAlone(Prev[k])
             \/ Forked /\ Reached(VALID_UNKNOWN, MAYBE_WITH_OTHER, Prev[k])

RefInv ==
    ~idle =>
        /\ saved.level \in [Blocks -> Levels] /\ saved.level[sm.to] >= CONNECTED
        /\ sm.phase \in {"unapplyOld", "applyNew", "decide", "trimNew"} => Unflagged
        /\ sm.then # "switch" => level = saved.level
        /\ sm.phase = "unapplyOld" => ReachedAlone(sm.b)
        /\ sm.phase = "applyNew" =>
              IF sm.a = sm.fork THEN ReachedAlone(sm.b)
                ELSE Forked /\ Reached(VALID_UNKNOWN, MAYBE_WITH_OTHER, sm.b)
        /\ sm.phase \in {"decide", "trimNew"} =>
              Forked /\ Reached(VALID_UNKNOWN, MAYBE_WITH_OTHER, sm.to)
        /\ sm.phase \in {"undoNew", "reapplyOld"} => Outcome

-----------------------------------------------------------------------------
(* RefInv is an invariant.                                                  *)

\* A step that leaves the tree alone and goes on with the same operation.
LEMMA SameRun ==
    ASSUME UNCHANGED vars, saved' = saved, sm'.to = sm.to
    PROVE  /\ Unflagged' <=> Unflagged
           /\ Forked' <=> Forked
           /\ \A lo, hi, p : Reached(lo, hi, p)' <=> Reached(lo, hi, p)
           /\ \A p : ReachedAlone(p)' <=> ReachedAlone(p)
           /\ Outcome' <=> Outcome
<1>1. /\ known' = known /\ inTree' = inTree /\ level' = level /\ tip' = tip /\ tips' = tips
      /\ failedBlock' = failedBlock /\ failedPop' = failedPop /\ failedChild' = failedChild
  BY DEF vars, statusVars
<1>2. \A x : SavedFailed(x)' <=> SavedFailed(x)
  BY <1>1 DEF SavedFailed
<1>3. /\ Unflagged' <=> Unflagged
      /\ \A lo, hi, p : Reached(lo, hi, p)' <=> Reached(lo, hi, p)
      /\ Unapplied(sm.to)' = Unapplied(sm.to)
  BY <1>1 DEF Unflagged, Reached, Unapplied
<1>4. CrossesKeystone(sm.to)' <=> CrossesKeystone(sm.to)
  BY <1>1 DEF CrossesKeystone, ForkHeight
<1>5. Forked' <=> Forked
  <2>1. SavedFailed(sm.to)' <=> SavedFailed(sm.to)
    BY <1>1 DEF SavedFailed
  <2> QED
    BY <1>1, <1>4, <2>1 DEF Forked
<1>6. \A p : ReachedAlone(p)' <=> ReachedAlone(p)
  BY <1>3, <1>5 DEF ReachedAlone
<1>7. \A k : Refused(k)' <=> Refused(k)
  <2>1. \A x : isValidTip(x)' <=> isValidTip(x)
    BY <1>1 DEF isValidTip, canBeATip, isFailed, isConnected
  <2>2. \A k : SavedFlaggedBelow(k)' = SavedFlaggedBelow(k)
    BY <1>1, <1>2 DEF SavedFlaggedBelow, Below, Between
  <2> QED
    BY <1>1, <2>1, <2>2 DEF Refused
<1>8. Outcome' <=> Outcome
  <2>1. SavedFailed(sm.to)' <=> SavedFailed(sm.to)
    BY <1>1 DEF SavedFailed
  <2>2. Reached(VALID_UNKNOWN, MAYBE_WITH_OTHER, sm.to)'
          <=> Reached(VALID_UNKNOWN, MAYBE_WITH_OTHER, sm.to)
    BY <1>1 DEF Reached, Unapplied
  <2>3. ASSUME NEW k
        PROVE  /\ Refused(k)' <=> Refused(k)
               /\ ReachedAlone(Prev[k])' <=> ReachedAlone(Prev[k])
               /\ Reached(VALID_UNKNOWN, MAYBE_WITH_OTHER, Prev[k])'
                     <=> Reached(VALID_UNKNOWN, MAYBE_WITH_OTHER, Prev[k])
    BY <1>3, <1>6, <1>7
  <2> QED
    BY <1>1, <1>3, <1>5, <2>1, <2>2, <2>3 DEF Outcome
<1> QED
  BY <1>3, <1>5, <1>6, <1>8

\* What an operation has done, block by block.
LEMMA ReachedFacts ==
    ASSUME ControlInv, ~idle, saved.level \in [Blocks -> Levels],
           NEW lo \in Levels, NEW hi \in Levels, NEW p \in Blocks
    PROVE  /\ Reached(lo, hi, p) <=>
                \A x \in Blocks :
                   level[x] = IF x \in Unapplied(sm.to)
                                THEN LET l == IF x \in Ancestors[p] THEN hi ELSE lo
                                     IN  IF saved.level[x] < l THEN l ELSE saved.level[x]
                                ELSE saved.level[x]
           /\ Reached(lo, hi, p) => \A x \in Blocks : saved.level[x] <= level[x]
<1>1. level \in [Blocks -> Levels]
  BY DEF ControlInv, IInv, TypeOK
<1>2. \A x \in Blocks : level[x] \in Levels /\ saved.level[x] \in Levels
  BY <1>1
<1>3. level = [x \in Blocks |-> level[x]]
  BY <1>1
<1> USE DEF Levels, VALID_UNKNOWN, CAN_BE_APPLIED
<1>4. Reached(lo, hi, p) <=>
         \A x \in Blocks :
            level[x] = IF x \in Unapplied(sm.to)
                         THEN LET l == IF x \in Ancestors[p] THEN hi ELSE lo
                              IN  IF saved.level[x] < l THEN l ELSE saved.level[x]
                         ELSE saved.level[x]
  BY <1>3 DEF Reached
<1> QED
  BY <1>2, <1>4

\* Before the first block of the new chain is applied, nothing has changed.
LEMMA ReachedNothing ==
    ASSUME ControlInv, ~idle, saved.level \in [Blocks -> Levels],
           NEW hi \in Levels
    PROVE  Reached(VALID_UNKNOWN, hi, sm.fork) <=> level = saved.level
<1>1. sm.fork \in Blocks /\ tip \in Blocks /\ sm.fork \in Ancestors[tip] /\ VALID_UNKNOWN \in Levels
  BY OperationFacts DEF ControlInv, Paths, Levels, VALID_UNKNOWN, CAN_BE_APPLIED
<1>2. \A x \in Unapplied(sm.to) : x \notin Ancestors[sm.fork]
  BY <1>1, TreeFacts DEF Unapplied
<1>3. level \in [Blocks -> Levels] /\ \A x \in Blocks : saved.level[x] \in Levels
  BY DEF ControlInv, IInv, TypeOK
<1>4. level = saved.level <=> \A x \in Blocks : level[x] = saved.level[x]
  BY <1>3
<1>5. Reached(VALID_UNKNOWN, hi, sm.fork) <=>
         \A x \in Blocks :
            level[x] = IF x \in Unapplied(sm.to)
                         THEN LET l == IF x \in Ancestors[sm.fork] THEN hi ELSE VALID_UNKNOWN
                              IN  IF saved.level[x] < l THEN l ELSE saved.level[x]
                         ELSE saved.level[x]
  BY <1>1, ReachedFacts
<1>6. \A x \in Blocks : ~(saved.level[x] < VALID_UNKNOWN)
  BY <1>3 DEF Levels, VALID_UNKNOWN, CAN_BE_APPLIED
<1> QED
  BY <1>2, <1>4, <1>5, <1>6

\* ReachedNothing, after a step.
LEMMA ReachedNothingPrimed ==
    ControlInv' /\ ~idle' /\ saved'.level \in [Blocks -> Levels] =>
        \A hi \in Levels : Reached(VALID_UNKNOWN, hi, sm.fork)' <=> level' = saved'.level
<1> DEFINE F == ControlInv /\ ~idle /\ saved.level \in [Blocks -> Levels] =>
                  \A hi \in Levels : Reached(VALID_UNKNOWN, hi, sm.fork) <=> level = saved.level
<1>1. F
  BY ReachedNothing
<1> HIDE DEF F
<1>2. F'
  BY <1>1, PTL
<1> QED
  BY <1>2 DEF F

\* A step that changes neither the tree nor the phase: a job begins, a command is
\* executed or taken back.
LEMMA QuietRef ==
    ASSUME RefInv, UNCHANGED vars, saved' = saved, sm' = sm
    PROVE  RefInv'
<1>1. /\ Unflagged' <=> Unflagged
      /\ Forked' <=> Forked
      /\ Outcome' <=> Outcome
      /\ ReachedAlone(sm.b)' <=> ReachedAlone(sm.b)
      /\ Reached(VALID_UNKNOWN, MAYBE_WITH_OTHER, sm.b)'
            <=> Reached(VALID_UNKNOWN, MAYBE_WITH_OTHER, sm.b)
      /\ Reached(VALID_UNKNOWN, MAYBE_WITH_OTHER, sm.to)'
            <=> Reached(VALID_UNKNOWN, MAYBE_WITH_OTHER, sm.to)
  <2>1. (Unflagged' <=> Unflagged) /\ (Forked' <=> Forked) /\ (Outcome' <=> Outcome)
    BY SameRun
  <2>2. level' = level /\ tip' = tip
    BY DEF vars, statusVars
  <2> QED
    BY <2>1, <2>2, SameRun DEF ReachedAlone, Reached, Unapplied
<1>2. level' = level
  BY DEF vars, statusVars
<1> QED
  BY <1>1, <1>2 DEF RefInv, idle

\* unapplyBlock: only the end of one chain moves.
LEMMA UnappliedRef ==
    ASSUME ControlInv, RefInv, BlockUnapplied
    PROVE  RefInv'
<1>1. /\ job # NoJob /\ job.mode = "unapply"
      /\ UNCHANGED vars /\ saved' = saved /\ sm' = Moved(Prev[job.block])
  BY DEF BlockUnapplied, NoJob
<1>2. /\ ~idle /\ job.block \in Blocks \ {Root}
      /\ sm.phase = "unapplyOld" \/ sm.phase \in {"trimNew", "undoNew"}
  BY <1>1, JobFacts DEF ControlInv, JobInv
<1>3. /\ ~idle' /\ sm'.phase = sm.phase /\ sm'.to = sm.to /\ sm'.then = sm.then
      /\ sm.phase = "unapplyOld" => sm'.b = sm.b
  BY <1>1, <1>2, PrevFacts, MovedFacts
<1>4. level' = level /\ tip' = tip
  BY <1>1 DEF vars, statusVars
<1>5. (Unflagged' <=> Unflagged) /\ (Forked' <=> Forked) /\ (Outcome' <=> Outcome)
  BY <1>1, <1>3, SameRun
<1>6. Reached(VALID_UNKNOWN, MAYBE_WITH_OTHER, sm.to)'
            <=> Reached(VALID_UNKNOWN, MAYBE_WITH_OTHER, sm.to)
  BY <1>1, <1>3, <1>4 DEF Reached, Unapplied
<1>7. CASE sm.phase = "unapplyOld"
  <2>1. ReachedAlone(sm.b)' <=> ReachedAlone(sm.b)
    BY <1>1, <1>3, <1>4, <1>5, <1>7 DEF ReachedAlone, Reached, Unapplied
  <2> QED
    BY <1>1, <1>2, <1>3, <1>4, <1>5, <1>7, <2>1 DEF RefInv
<1>8. CASE sm.phase \in {"trimNew", "undoNew"}
  BY <1>1, <1>2, <1>3, <1>4, <1>5, <1>6, <1>8 DEF RefInv
<1> QED
  BY <1>2, <1>7, <1>8

\* applyBlock: one more block of the new chain has reached its level.
LEMMA AppliedRef ==
    ASSUME ControlInv, ControlInv', RefInv, BlockApplied
    PROVE  RefInv'
<1>0. PICK n : n = job.block
  OBVIOUS
<1>1. /\ job # NoJob /\ job.mode = "apply" /\ sm' = Moved(n) /\ saved' = saved
      /\ known' = known /\ inTree' = inTree /\ popData' = popData
      /\ payloadsIndex' = payloadsIndex /\ tip' = tip /\ tips' = tips
      /\ failedBlock' = failedBlock /\ failedPop' = failedPop /\ failedChild' = failedChild
  BY <1>0 DEF BlockApplied, NoJob, payloadVars
<1>2. /\ ~idle /\ n \in Blocks /\ n # Root /\ n \notin active
      /\ Ancestors[Prev[n]] \subseteq active
      /\ \/ sm.phase = "applyNew" /\ n \in Ancestors[sm.to] /\ Prev[n] = sm.b
         \/ sm.phase = "reapplyOld" /\ n \in Ancestors[tip] /\ Prev[n] = sm.a
  BY <1>0, <1>1, JobFacts DEF ControlInv, JobInv
<1>3. /\ ~idle' /\ sm'.phase = sm.phase /\ sm'.to = sm.to /\ sm'.then = sm.then
      /\ sm'.fork = sm.fork
      /\ sm.phase = "applyNew" => sm'.a = sm.a /\ sm'.b = n
  BY <1>1, <1>2, MovedFacts
<1>4. /\ \A x \in Blocks \ {n} : level'[x] = level[x]
      /\ sm.phase = "reapplyOld" => level' = level
      /\ (sm.phase = "applyNew" /\ sm.a = sm.fork) => level'[n] = CAN_BE_APPLIED
  BY <1>0, AppliedLevel
<1>5. level' = Raised({n}, LevelOnApply(n))
  BY <1>0 DEF BlockApplied
<1>6. CASE sm.phase = "reapplyOld"
  <2>1. UNCHANGED vars
    BY <1>1, <1>4, <1>6 DEF vars, statusVars, payloadVars
  <2>2. Outcome' <=> Outcome
    BY <1>1, <1>3, <2>1, SameRun
  <2> QED
    BY <1>1, <1>2, <1>3, <1>4, <1>6, <2>2 DEF RefInv
<1>7. CASE sm.phase = "applyNew"
  <2>1. /\ saved.level \in [Blocks -> Levels] /\ saved.level[sm.to] >= CONNECTED
        /\ Unflagged
        /\ IF sm.a = sm.fork THEN ReachedAlone(sm.b)
             ELSE Forked /\ Reached(VALID_UNKNOWN, MAYBE_WITH_OTHER, sm.b)
    BY <1>2, <1>7 DEF RefInv
  <2>2. sm.then = "switch"
    BY <1>2, <1>7 DEF ControlInv, PhaseInv
  <2>3. Unflagged'
    BY <1>1, <2>1 DEF Unflagged
  <2>4. Forked => Forked'
    <3>1. CrossesKeystone(sm.to)' <=> CrossesKeystone(sm.to)
      BY <1>1, <1>3 DEF CrossesKeystone, ForkHeight
    <3>2. SavedFailed(sm.to)' <=> SavedFailed(sm.to)
      BY <1>1, <1>3 DEF SavedFailed
    <3> QED
      BY <1>1, <1>3, <3>1, <3>2 DEF Forked
  <2>5. /\ {sm.a, sm.b, sm.to, sm.fork, tip} \subseteq Blocks
        /\ active = Ancestors[sm.a] \cup Ancestors[sm.b]
    BY <1>2, OperationFacts
  <2>6. Ancestors[n] = Ancestors[sm.b] \cup {n} /\ n \notin Ancestors[sm.b]
    BY <1>2, <1>7, PrevFacts
  <2>7. n \in Unapplied(sm.to)
    <3>1. n \in Ancestors[tip] => n \in Ancestors[sm.fork]
      BY <1>2, <1>7 DEF ControlInv, Paths
    <3>2. Ancestors[sm.fork] \subseteq Ancestors[sm.b]
      BY <1>2, <2>5, TreeFacts DEF ControlInv, Paths
    <3> QED
      BY <1>2, <1>7, <2>6, <3>1, <3>2 DEF Unapplied
  <2>8. ASSUME NEW lo \in Levels, NEW hi \in Levels, Reached(lo, hi, sm.b),
               level'[n] = IF saved.level[n] < hi THEN hi ELSE saved.level[n]
        PROVE  Reached(lo, hi, n)'
    <3>1. \A x \in Blocks :
            level[x] = IF x \in Unapplied(sm.to)
                         THEN LET l == IF x \in Ancestors[sm.b] THEN hi ELSE lo
                              IN  IF saved.level[x] < l THEN l ELSE saved.level[x]
                         ELSE saved.level[x]
      BY <1>2, <2>1, <2>5, <2>8, ReachedFacts
    <3>2. \A x \in Blocks :
            level'[x] = IF x \in Unapplied(sm.to)
                          THEN LET l == IF x \in Ancestors[n] THEN hi ELSE lo
                               IN  IF saved.level[x] < l THEN l ELSE saved.level[x]
                          ELSE saved.level[x]
      BY <1>2, <1>4, <2>6, <2>7, <2>8, <3>1
    <3>3. level' = [x \in Blocks |-> level'[x]]
      BY DEF ControlInv, IInv, TypeOK
    <3>4. Unapplied(sm.to)' = Unapplied(sm.to)
      BY <1>1, <1>3 DEF Unapplied
    <3> QED
      BY <1>1, <3>2, <3>3, <3>4 DEF Reached
  <2>9. /\ saved.level[n] \in Levels
        /\ {VALID_UNKNOWN, MAYBE_WITH_OTHER, CAN_BE_APPLIED} \subseteq Levels
    BY <1>2, <2>1 DEF VALID_UNKNOWN, MAYBE_WITH_OTHER, CAN_BE_APPLIED, Levels
  <2> USE <2>9
  <2>10. CASE sm.a = sm.fork
    <3>1. level'[n] = IF saved.level[n] < CAN_BE_APPLIED THEN CAN_BE_APPLIED ELSE saved.level[n]
      BY <1>4, <1>7, <2>10 DEF CAN_BE_APPLIED, Levels, VALID_UNKNOWN
    <3>2. ReachedAlone(n)'
      BY <2>1, <2>4, <2>8, <2>10, <3>1 DEF ReachedAlone
    <3>3. ReachedAlone(sm.b)'
      BY <1>3, <1>7, <3>2 DEF ReachedAlone, Reached
    <3> QED
      BY <1>1, <1>3, <1>7, <2>1, <2>2, <2>3, <2>10, <3>3 DEF RefInv
  <2>11. CASE sm.a # sm.fork
    <3>1. Forked /\ Reached(VALID_UNKNOWN, MAYBE_WITH_OTHER, sm.b) /\ sm.a = tip
      BY <1>2, <1>7, <2>1, <2>11 DEF ControlInv, PhaseInv
    <3>2. level[n] = saved.level[n]
      <4>1. \A x \in Blocks :
              level[x] = IF x \in Unapplied(sm.to)
                           THEN LET l == IF x \in Ancestors[sm.b] THEN MAYBE_WITH_OTHER ELSE VALID_UNKNOWN
                                IN  IF saved.level[x] < l THEN l ELSE saved.level[x]
                           ELSE saved.level[x]
        BY <1>2, <2>1, <2>5, <3>1, ReachedFacts
      <4> QED
        BY <1>2, <2>6, <4>1 DEF VALID_UNKNOWN, Levels
    <3>3. LevelOnApply(n) = MAYBE_WITH_OTHER
      <4>1. tip \in active /\ tip \notin Ancestors[Prev[n]]
        <5>1. sm.b \in Ancestors[sm.to] /\ tip \notin Ancestors[sm.to]
          BY <1>2, <3>1 DEF ControlInv, Paths, Forked
        <5> QED
          BY <1>2, <1>7, <2>5, <3>1, <5>1, TreeFacts
      <4>2. Height[n] = Height[Root] + appliedBlockCount <=> active = Ancestors[Prev[n]]
        BY <1>2, CountFacts
      <4> QED
        BY <4>1, <4>2 DEF LevelOnApply
    <3>4. level'[n] = IF saved.level[n] < MAYBE_WITH_OTHER THEN MAYBE_WITH_OTHER
                      ELSE saved.level[n]
      BY <1>2, <1>5, <3>2, <3>3 DEF Raised
    <3>5. Reached(VALID_UNKNOWN, MAYBE_WITH_OTHER, n)'
      BY <2>8, <3>1, <3>4
    <3>6. Reached(VALID_UNKNOWN, MAYBE_WITH_OTHER, sm.b)'
      BY <1>3, <1>7, <3>5 DEF Reached
    <3> QED
      BY <1>1, <1>3, <1>7, <2>1, <2>2, <2>3, <2>4, <2>11, <3>1, <3>6 DEF RefInv
  <2> QED
    BY <2>10, <2>11
<1> QED
  BY <1>2, <1>6, <1>7

\* A block of the new chain is refused.
LEMMA RefusedRef ==
    ASSUME ControlInv, ControlInv', RefInv, BlockRefused
    PROVE  RefInv'
<1>0. PICK n : n = job.block
  OBVIOUS
<1>1. /\ job # NoJob /\ job.mode = "abort" /\ saved' = saved
      /\ known' = known /\ inTree' = inTree /\ level' = level /\ tip' = tip
      /\ InvalidateValid(n, "POP") /\ sm' = [sm EXCEPT !.phase = "undoNew"]
  BY <1>0 DEF BlockRefused, NoJob
<1>2. /\ ~idle /\ n \in Blocks /\ n # Root
      /\ sm.phase = "applyNew" /\ n \in Ancestors[sm.to]
      /\ Prev[n] = sm.b /\ level[n] < CAN_BE_APPLIED
  BY <1>0, <1>1, JobFacts DEF ControlInv, JobInv
<1>3. /\ sm'.phase = "undoNew" /\ sm'.to = sm.to /\ sm'.then = sm.then /\ sm.then = "switch"
      /\ {sm.a, sm.b, sm.to, sm.fork, tip} \subseteq Blocks
  BY <1>1, <1>2, OperationFacts DEF Operations, ControlInv, PhaseInv
<1>4. /\ saved.level \in [Blocks -> Levels] /\ saved.level[sm.to] >= CONNECTED
      /\ Unflagged
      /\ IF sm.a = sm.fork THEN ReachedAlone(sm.b)
           ELSE Forked /\ Reached(VALID_UNKNOWN, MAYBE_WITH_OTHER, sm.b)
  BY <1>2 DEF RefInv
<1>5. failedBlock' = failedBlock /\ \A x : isFailed(x) <=> SavedFailed(x)
  BY <1>1, <1>4 DEF InvalidateValid, isFailed, SavedFailed, Unflagged
<1>6. \A x : SavedFailed(x)' <=> SavedFailed(x)
  BY <1>1, <1>5 DEF SavedFailed
<1>7. ~SavedFailed(sm.to) /\ ~SavedFailed(sm.to)'
  BY <1>1, <1>2, <1>3, <1>5 DEF ControlInv, PhaseInv, SavedFailed
<1>8. n \in Unapplied(sm.to)
  <2>1. n \in Ancestors[tip] => n \in Ancestors[sm.fork]
    BY <1>2 DEF ControlInv, Paths
  <2>2. Ancestors[sm.fork] \subseteq Ancestors[sm.b]
    BY <1>2, <1>3, TreeFacts DEF ControlInv, Paths
  <2> QED
    BY <1>2, <2>1, <2>2, PrevFacts DEF Unapplied
<1>9. saved.level[n] < CAN_BE_APPLIED
  <2>1. saved.level[n] <= level[n]
    <3>1. {VALID_UNKNOWN, MAYBE_WITH_OTHER, CAN_BE_APPLIED} \subseteq Levels
      BY DEF VALID_UNKNOWN, MAYBE_WITH_OTHER, CAN_BE_APPLIED, Levels
    <3>2. \A lo, hi \in Levels :
             Reached(lo, hi, sm.b) => \A x \in Blocks : saved.level[x] <= level[x]
      BY <1>2, <1>3, <1>4, ReachedFacts
    <3>3. \A x \in Blocks : saved.level[x] <= level[x]
      BY <1>4, <3>1, <3>2 DEF ReachedAlone
    <3> QED
      BY <1>2, <3>3
  <2>2. saved.level[n] \in Levels /\ level[n] \in Levels
    BY <1>2, <1>4 DEF ControlInv, IInv, TypeOK
  <2> QED
    BY <1>2, <2>1, <2>2 DEF Levels, VALID_UNKNOWN, CAN_BE_APPLIED
<1>10. Refused(n)'
  <2>1. FlaggedBelow(n) = SavedFlaggedBelow(n)
    BY <1>5 DEF FlaggedBelow, SavedFlaggedBelow
  <2>2. SavedFlaggedBelow(n)' = SavedFlaggedBelow(n)
    <3>1. Below(n)' = Below(n) /\ \A d : Between(n, d)' = Between(n, d)
      BY <1>1 DEF Below, Between
    <3> QED
      BY <1>6, <3>1 DEF SavedFlaggedBelow
  <2>3. /\ failedPop' = saved.failedPop \cup {n}
        /\ failedChild' = saved.failedChild \cup SavedFlaggedBelow(n)
        /\ tips' = tryAddTip(saved.tips \ (SavedFlaggedBelow(n) \cup {n}), Prev[n])
    BY <1>1, <1>4, <2>1 DEF InvalidateValid, Unflagged
  <2> QED
    BY <1>1, <2>2, <2>3 DEF Refused, tryAddTip, Children
<1>11. Forked => Forked'
  <2>1. CrossesKeystone(sm.to)' <=> CrossesKeystone(sm.to)
    BY <1>1, <1>3 DEF CrossesKeystone, ForkHeight
  <2> QED
    BY <1>1, <1>3, <1>7, <2>1 DEF Forked
<1>12. \A lo, hi, p : Reached(lo, hi, p)' <=> Reached(lo, hi, p)
  BY <1>1, <1>3 DEF Reached, Unapplied
<1>13. \/ ReachedAlone(Prev[n])'
       \/ Forked' /\ Reached(VALID_UNKNOWN, MAYBE_WITH_OTHER, Prev[n])'
  <2>1. /\ ReachedAlone(Prev[n]) => ReachedAlone(Prev[n])'
    BY <1>11, <1>12 DEF ReachedAlone
  <2> QED
    BY <1>2, <1>4, <1>11, <1>12, <2>1
<1>14. Outcome'
  <2>1. n \in Unapplied(sm.to)'
    BY <1>1, <1>3, <1>8 DEF Unapplied
  <2> QED
    BY <1>1, <1>7, <1>9, <1>10, <1>13, <2>1 DEF Outcome
<1> QED
  BY <1>1, <1>3, <1>4, <1>14 DEF RefInv

\* The beginning of an operation: nothing has been done yet.
LEMMA BeginRef ==
    ASSUME ControlInv, ControlInv', idle, NEW to \in inTree, isConnected(to),
           NEW p \in {"unapplyOld", "applyNew"}, NEW then, NEW block, NEW r,
           Begin(p, to, then, block, r),
           p = "applyNew" => compareContract(to) /\ (tip \in Ancestors[to] \/ CrossesKeystone(to))
    PROVE  RefInv'
<1>1. /\ sm' = [phase |-> p, to |-> to, fork |-> getForkBlock(tip, to), a |-> tip,
                b |-> getForkBlock(tip, to), then |-> then, block |-> block, reason |-> r]
      /\ saved' = [taken |-> TRUE, level |-> level, failedPop |-> failedPop,
                   failedChild |-> failedChild, tips |-> tips]
      /\ UNCHANGED vars
  BY DEF Begin
<1>2. /\ sm'.phase = p /\ sm'.to = to /\ sm'.fork = getForkBlock(tip, to) /\ sm'.a = tip
      /\ sm'.b = sm'.fork /\ sm'.then = then
      /\ saved'.level = level /\ saved'.failedPop = failedPop
      /\ saved'.failedChild = failedChild /\ saved'.tips = tips
  BY <1>1
<1>3. /\ level' = level /\ tip' = tip /\ tips' = tips /\ failedBlock' = failedBlock
      /\ failedPop' = failedPop /\ failedChild' = failedChild
  BY <1>1 DEF vars, statusVars
<1>4. ~idle'
  BY <1>2 DEF idle, Idle
<1>5. to \in Blocks /\ tip \in Blocks /\ level \in [Blocks -> Levels] /\ level[to] >= CONNECTED
  BY DEF ControlInv, IInv, TypeOK, isConnected
<1>6. Unflagged'
  BY <1>2, <1>3 DEF Unflagged
<1>7. \A hi \in Levels : Reached(VALID_UNKNOWN, hi, sm.fork)'
  <2>1. ControlInv' /\ ~idle' /\ saved'.level \in [Blocks -> Levels] =>
          \A hi \in Levels : Reached(VALID_UNKNOWN, hi, sm.fork)' <=> level' = saved'.level
    BY ReachedNothingPrimed
  <2>2. saved'.level \in [Blocks -> Levels] /\ level' = saved'.level
    BY <1>2, <1>3, <1>5
  <2> QED
    BY <1>4, <2>1, <2>2
<1>8. CAN_BE_APPLIED \in Levels /\ MAYBE_WITH_OTHER \in Levels
  BY DEF Levels, CAN_BE_APPLIED, MAYBE_WITH_OTHER, VALID_UNKNOWN
<1>9. /\ Reached(VALID_UNKNOWN, CAN_BE_APPLIED, sm.b)'
      /\ Reached(VALID_UNKNOWN, MAYBE_WITH_OTHER, sm.b)'
  BY <1>2, <1>7, <1>8 DEF Reached
<1>10. ReachedAlone(sm.b)'
  BY <1>9 DEF ReachedAlone
<1>11. p = "applyNew" /\ sm'.a # sm'.fork => Forked'
  <2> SUFFICES ASSUME p = "applyNew", sm'.a # sm'.fork PROVE Forked'
    OBVIOUS
  <2>1. tip \notin Ancestors[to]
    <3>1. sm'.fork \in Ancestors[tip] /\ (tip \in Ancestors[to] => tip \in Ancestors[sm'.fork])
      BY <1>2, <1>5, ForkFacts, TreeFacts
    <3> QED
      BY <1>2, <1>5, <3>1, TreeFacts
  <2>2. to \notin Ancestors[tip] /\ ~isFailed(to)
    BY DEF compareContract, OnActiveChain, isValid
  <2>3. CrossesKeystone(sm.to)' <=> CrossesKeystone(to)
    BY <1>2, <1>3 DEF CrossesKeystone, ForkHeight
  <2>4. ~SavedFailed(sm.to)'
    BY <1>2, <1>3, <2>2 DEF SavedFailed, isFailed
  <2> QED
    BY <1>2, <1>3, <2>1, <2>2, <2>3, <2>4 DEF Forked
<1> QED
  BY <1>2, <1>3, <1>5, <1>6, <1>9, <1>10, <1>11 DEF RefInv

\* The beginnings of the four operations that switch the active chain.
LEMMA BeginningRef ==
    ASSUME ControlInv, ControlInv', NEW x \in Blocks,
           \/ BeginSetState(x) \/ BeginCompare(x) \/ BeginRemove(x)
           \/ \E r \in ExternalReasons : BeginInvalidate(x, r)
    PROVE  RefInv'
<1>1. idle
  BY DEF BeginSetState, BeginCompare, BeginRemove, BeginInvalidate
<1>2. CASE BeginSetState(x)
  <2>1. x \in inTree /\ isConnected(x) /\ Begin("unapplyOld", x, "switch", x, "none")
    BY <1>2 DEF BeginSetState, setStateContract
  <2> QED
    BY <1>1, <2>1, BeginRef
<1>3. CASE BeginCompare(x)
  <2>1. /\ x \in inTree /\ isConnected(x) /\ compareContract(x)
        /\ tip \in Ancestors[x] \/ CrossesKeystone(x)
        /\ Begin("applyNew", x, "switch", x, "none")
    BY <1>3 DEF BeginCompare, compareContract
  <2> QED
    BY <1>1, <2>1, BeginRef
<1>4. ASSUME x \in Ancestors[tip], x # Root
      PROVE  Prev[x] \in inTree /\ isConnected(Prev[x])
  <2>1. Prev[x] \in Ancestors[tip]
    BY <1>4, TreeFacts, PrevFacts DEF ControlInv, IInv, TypeOK
  <2> QED
    BY <2>1 DEF ControlInv, IInv, ActiveChainValid, isConnected, CAN_BE_APPLIED, CONNECTED
<1>5. CASE BeginRemove(x) \/ \E r \in ExternalReasons : BeginInvalidate(x, r)
  <2>1. /\ x \in Ancestors[tip] /\ x # Root
        /\ \E then, r : Begin("unapplyOld", Prev[x], then, x, r)
    BY <1>5 DEF BeginRemove, BeginInvalidate, OnActiveChain
  <2> QED
    BY <1>1, <1>4, <2>1, BeginRef
<1> QED
  BY <1>2, <1>3, <1>5

\* The operation goes on to its next phase.
LEMMA GoToRef ==
    ASSUME ControlInv, ~idle, RefInv, NEW p, GoTo(p), p # "idle",
           p \in {"unapplyOld", "applyNew", "decide", "trimNew"} => Unflagged,
           p = "unapplyOld" => ReachedAlone(sm.b),
           p = "applyNew" => sm.a = sm.fork /\ ReachedAlone(sm.b),
           p \in {"decide", "trimNew"} =>
               Forked /\ Reached(VALID_UNKNOWN, MAYBE_WITH_OTHER, sm.to),
           p \in {"undoNew", "reapplyOld"} => Outcome
    PROVE  RefInv'
<1>1. sm' = [sm EXCEPT !.phase = p] /\ UNCHANGED vars /\ saved' = saved
  BY DEF GoTo
<1>2. /\ sm'.phase = p /\ sm'.to = sm.to /\ sm'.a = sm.a /\ sm'.b = sm.b /\ sm'.fork = sm.fork
      /\ sm'.then = sm.then
  BY <1>1, OperationFacts DEF Operations
<1>3. level' = level /\ tip' = tip
  BY <1>1 DEF vars, statusVars
<1>4. (Unflagged' <=> Unflagged) /\ (Forked' <=> Forked) /\ (Outcome' <=> Outcome)
  BY <1>1, <1>2, SameRun
<1>5. /\ Reached(VALID_UNKNOWN, MAYBE_WITH_OTHER, sm.to)'
            <=> Reached(VALID_UNKNOWN, MAYBE_WITH_OTHER, sm.to)
      /\ ReachedAlone(sm.b)' <=> ReachedAlone(sm.b)
  BY <1>1, <1>2, <1>3, <1>4 DEF Reached, Unapplied, ReachedAlone
<1> QED
  BY <1>1, <1>2, <1>3, <1>4, <1>5 DEF RefInv

\* One step of an operation between two jobs.
LEMMA PhaseRef ==
    ASSUME ControlInv, ControlInv', RefInv, job = NoJob,
           UnapplyOld \/ ApplyNew \/ Decide \/ TrimNew \/ UndoNew \/ ReapplyOld
    PROVE  RefInv'
<1>1. ~idle
  BY DEF UnapplyOld, ApplyNew, Decide, TrimNew, UndoNew, ReapplyOld, idle, Idle
<1>2. /\ {sm.a, sm.b, sm.to, sm.fork, tip} \subseteq Blocks
      /\ saved.level \in [Blocks -> Levels]
  BY <1>1, OperationFacts DEF RefInv
<1>3. /\ {VALID_UNKNOWN, MAYBE_WITH_OTHER, CAN_BE_APPLIED} \subseteq Levels
      /\ level \in [Blocks -> Levels]
  BY DEF VALID_UNKNOWN, MAYBE_WITH_OTHER, CAN_BE_APPLIED, Levels, ControlInv, IInv, TypeOK
<1>4. ASSUME NEW x, startApply(x) \/ startUnapply(x)
      PROVE  RefInv'
  BY <1>4, QuietRef DEF startApply, startUnapply
<1>5. ASSUME EndRun PROVE RefInv'
  BY <1>5 DEF EndRun, RefInv, idle
<1>6. CASE UnapplyOld
  <2>1. sm.phase = "unapplyOld" /\ Unflagged /\ ReachedAlone(sm.b)
    BY <1>1, <1>6 DEF UnapplyOld, RefInv
  <2>2. CASE GoTo("applyNew") /\ sm.a = sm.fork
    BY <1>1, <2>1, <2>2, GoToRef
  <2>3. CASE GoTo("reapplyOld") /\ ~isValid(sm.to)
    <3>1. isFailed(sm.to)
      <4>1. level[sm.to] \in Levels /\ level[sm.to] >= CONNECTED
        BY <1>1, <1>2, <1>3 DEF ControlInv, Paths, isConnected
      <4> QED
        BY <2>3, <4>1 DEF isValid, VALID_TREE, CONNECTED, Levels, VALID_UNKNOWN, CAN_BE_APPLIED
    <3>2. SavedFailed(sm.to)
      BY <2>1, <3>1 DEF SavedFailed, isFailed, Unflagged
    <3>3. sm.b = sm.fork
      BY <1>1, <2>1, <3>1 DEF ControlInv, PhaseInv
    <3>4. Reached(VALID_UNKNOWN, CAN_BE_APPLIED, sm.fork)
      BY <2>1, <3>2, <3>3 DEF ReachedAlone, Forked
    <3>5. level = saved.level
      BY <1>1, <1>2, <1>3, <3>4, ReachedNothing
    <3>6. Outcome
      BY <2>1, <3>5 DEF Outcome
    <3> QED
      BY <1>1, <2>3, <3>6, GoToRef
  <2> QED
    BY <1>4, <1>5, <1>6, <2>2, <2>3 DEF UnapplyOld, Complete
<1>7. CASE ApplyNew
  <2>1. CASE GoTo("decide") /\ sm.b = sm.to /\ sm.a # sm.fork
    <3>1. Unflagged /\ Forked /\ Reached(VALID_UNKNOWN, MAYBE_WITH_OTHER, sm.to)
      BY <1>1, <1>7, <2>1 DEF ApplyNew, RefInv
    <3> QED
      BY <1>1, <2>1, <3>1, GoToRef
  <2> QED
    BY <1>4, <1>5, <1>7, <2>1 DEF ApplyNew, Complete
<1>8. CASE Decide
  <2>1. /\ Unflagged /\ Forked /\ Reached(VALID_UNKNOWN, MAYBE_WITH_OTHER, sm.to)
        /\ GoTo("undoNew") \/ GoTo("trimNew")
    BY <1>1, <1>8 DEF Decide, RefInv
  <2>2. Outcome
    BY <2>1 DEF Outcome
  <2> QED
    BY <1>1, <2>1, <2>2, GoToRef
<1>9. CASE TrimNew
  <2>1. /\ Unflagged /\ Forked /\ Reached(VALID_UNKNOWN, MAYBE_WITH_OTHER, sm.to)
    BY <1>1, <1>9 DEF TrimNew, RefInv
  <2>2. CASE GoTo("unapplyOld") /\ (sm.b = sm.fork \/ level[sm.b] >= CAN_BE_APPLIED)
    <3>1. \A x \in Ancestors[sm.b] : level[x] = CAN_BE_APPLIED
      <4>1. sm.b \in inTree /\ sm.fork \in Ancestors[tip] /\ level[sm.b] \in Levels
        BY <1>1, <1>2, <1>3, OperationFacts DEF ControlInv, Paths
      <4>2. level[sm.b] = CAN_BE_APPLIED
        BY <2>2, <4>1 DEF ControlInv, IInv, ActiveChainValid, Levels, VALID_UNKNOWN, CAN_BE_APPLIED
      <4>3. \A x \in Ancestors[sm.b] : x \in Blocks /\ level[sm.b] <= level[x] /\ level[x] \in Levels
        BY <1>2, <1>3, <4>1, TreeFacts DEF ControlInv, IInv, Shape, LevelsOrdered
      <4> QED
        BY <4>2, <4>3 DEF Levels, VALID_UNKNOWN, CAN_BE_APPLIED
    <3>2. \A x \in Blocks :
             level[x] = IF x \in Unapplied(sm.to)
                          THEN LET l == IF x \in Ancestors[sm.to] THEN MAYBE_WITH_OTHER
                                                                  ELSE VALID_UNKNOWN
                               IN  IF saved.level[x] < l THEN l ELSE saved.level[x]
                          ELSE saved.level[x]
      BY <1>1, <1>2, <1>3, <2>1, ReachedFacts
    <3>3. \A x \in Unapplied(sm.to) : x \in Ancestors[sm.to] /\ x \in Blocks
      BY <1>2, TreeFacts DEF Unapplied
    <3>4. \A x \in Blocks : saved.level[x] \in Levels
      BY <1>2
    <3>5. \A x \in Blocks :
             level[x] = IF x \in Unapplied(sm.to)
                          THEN LET l == IF x \in Ancestors[sm.b] THEN CAN_BE_APPLIED
                                                                 ELSE MAYBE_WITH_OTHER
                               IN  IF saved.level[x] < l THEN l ELSE saved.level[x]
                          ELSE saved.level[x]
      BY <3>1, <3>2, <3>3, <3>4
         DEF MAYBE_WITH_OTHER, CAN_BE_APPLIED, VALID_UNKNOWN, Levels
    <3>6. Reached(MAYBE_WITH_OTHER, CAN_BE_APPLIED, sm.b)
      BY <1>1, <1>2, <1>3, <3>5, ReachedFacts
    <3>7. ReachedAlone(sm.b)
      BY <2>1, <3>6 DEF ReachedAlone
    <3> QED
      BY <1>1, <2>1, <2>2, <3>7, GoToRef
  <2> QED
    BY <1>4, <1>9, <2>2 DEF TrimNew
<1>10. CASE UndoNew
  <2>1. Outcome
    BY <1>1, <1>10 DEF UndoNew, RefInv
  <2>2. CASE GoTo("reapplyOld")
    BY <1>1, <2>1, <2>2, GoToRef
  <2> QED
    BY <1>4, <1>10, <2>2 DEF UndoNew
<1>11. CASE ReapplyOld
  BY <1>4, <1>5, <1>11 DEF ReapplyOld
<1> QED
  BY <1>6, <1>7, <1>8, <1>9, <1>10, <1>11

\* Every step preserves RefInv.
LEMMA NextRef ==
    ASSUME SMInv, SMInv', RefInv, [SMNext]_allVars
    PROVE  RefInv'
<1>1. ControlInv /\ ControlInv'
  BY DEF SMInv
<1>2. CASE ExecuteCommand \/ UnExecuteCommand \/ UNCHANGED allVars
  <2>1. UNCHANGED vars /\ saved' = saved /\ sm' = sm
    BY <1>2 DEF ExecuteCommand, UnExecuteCommand, allVars, runVars
  <2> QED
    BY <2>1, QuietRef
<1>3. CASE TreeOperation
  BY <1>3 DEF TreeOperation, RefInv, runVars, idle
<1>4. CASE \/ BlockApplied \/ BlockUnapplied \/ BlockRefused
           \/ job = NoJob /\ (UnapplyOld \/ ApplyNew \/ Decide \/ TrimNew \/ UndoNew \/ ReapplyOld)
  BY <1>1, <1>4, AppliedRef, UnappliedRef, RefusedRef, PhaseRef
<1>5. ASSUME NEW x \in Blocks,
             \/ BeginSetState(x) \/ BeginCompare(x) \/ BeginRemove(x)
             \/ \E r \in ExternalReasons : BeginInvalidate(x, r)
      PROVE  RefInv'
  BY <1>1, <1>5, BeginningRef
<1> QED
  BY <1>2, <1>3, <1>4, <1>5 DEF SMNext, Step

-----------------------------------------------------------------------------
(* The operations that leave the active chain alone are those of the        *)
(* abstract tree.                                                           *)

LEMMA AbsHeader ==
    ASSUME idle, idle', NEW b, AcceptBlockHeader(b)
    PROVE  Abs!AcceptBlockHeader(b)
BY DEF AcceptBlockHeader, headerContract, HeaderAborts, RaisedToTree, tryAddTip, isValidTip,
       canBeATip, isFailed, isConnected, Children, payloadVars,
       Abs!AcceptBlockHeader, Abs!headerContract, Abs!HeaderAborts, Abs!RaisedToTree,
       Abs!tryAddTip, Abs!isValidTip,
       Abs!canBeATip, Abs!isFailed, Abs!isConnected, Abs!Children, Abs!payloadVars,
       VALID_TREE, CONNECTED, Abs!VALID_TREE, Abs!CONNECTED

\* The abstract tree is the tree: between operations, and while an operation has not
\* done anything to it.
Shown ==
    idle \/ (Unflagged /\ level = saved.level)

\* What the tree and the abstract tree then say of a block.
LEMMA AbsReads ==
    ASSUME Shown
    PROVE  /\ \A x : Abs!isFailed(x) <=> isFailed(x)
           /\ \A x : Abs!isValid(x) <=> isValid(x)
           /\ \A x : Abs!isConnected(x) <=> isConnected(x)
           /\ \A x : Abs!canBeATip(x) <=> canBeATip(x)
           /\ \A x : Abs!isValidTip(x) <=> isValidTip(x)
           /\ \A x : Abs!Children(x) = Children(x)
           /\ \A x : Abs!HasStatefulDuplicate(x) <=> HasStatefulDuplicate(x)
           /\ \A x : Abs!FlaggedBelow(x) = FlaggedBelow(x)
           /\ \A x : Abs!Connects(x) = Connects(x)
           /\ \A x, r : Abs!Cleared(x, r) = Cleared(x, r)
           /\ \A x, r : Abs!HasOtherFlags(x, r) <=> HasOtherFlags(x, r)
           /\ \A r : Abs!FlagSet(r) = FlagSet(r)
           /\ \A S, l : Abs!Raised(S, l) = Raised(S, l)
           /\ \A S, T : Abs!tryAddTips(S, T) = tryAddTips(S, T)
<1> USE DEF Shown, Unflagged, VALID_TREE, CONNECTED, Abs!VALID_TREE, Abs!CONNECTED
<1>1. /\ \A x : Abs!isFailed(x) <=> isFailed(x)
      /\ \A x : Abs!isConnected(x) <=> isConnected(x)
      /\ \A x : Abs!Children(x) = Children(x)
      /\ \A x, r : Abs!HasOtherFlags(x, r) <=> HasOtherFlags(x, r)
      /\ \A r : Abs!FlagSet(r) = FlagSet(r)
  BY DEF isFailed, isConnected, Children, HasOtherFlags, FlagSet,
         Abs!isFailed, Abs!isConnected, Abs!Children, Abs!HasOtherFlags, Abs!FlagSet
<1>2. /\ \A x : Abs!isValid(x) <=> isValid(x)
      /\ \A x : Abs!canBeATip(x) <=> canBeATip(x)
  BY <1>1 DEF isValid, canBeATip, Abs!isValid, Abs!canBeATip
<1>3. /\ \A x : Abs!isValidTip(x) <=> isValidTip(x)
      /\ \A S, T : Abs!tryAddTips(S, T) = tryAddTips(S, T)
  BY <1>1, <1>2 DEF isValidTip, tryAddTips, Abs!isValidTip, Abs!tryAddTips
<1>4. /\ \A x : Abs!HasStatefulDuplicate(x) <=> HasStatefulDuplicate(x)
      /\ \A x : Abs!Connects(x) = Connects(x)
  BY <1>1 DEF HasStatefulDuplicate, IdsIn, Connects,
              Abs!HasStatefulDuplicate, Abs!IdsIn, Abs!Connects
<1>5. \A x : Abs!FlaggedBelow(x) = FlaggedBelow(x)
  BY <1>1 DEF FlaggedBelow, Below, Between, Abs!FlaggedBelow, Abs!Below, Abs!Between
<1>6. \A x, r : Abs!Cleared(x, r) = Cleared(x, r)
  BY <1>1 DEF Cleared, ClearedBelow, Below, Between,
              Abs!Cleared, Abs!ClearedBelow, Abs!Below, Abs!Between
<1>7. \A S, l : Abs!Raised(S, l) = Raised(S, l)
  BY DEF Raised, Abs!Raised
<1> QED
  BY <1>1, <1>2, <1>3, <1>4, <1>5, <1>6, <1>7

\* The same after a step.
LEMMA AbsReadsPrimed ==
    ASSUME idle'
    PROVE  /\ \A x : Abs!canBeATip(x)' <=> canBeATip(x)'
           /\ \A x : Abs!isValidTip(x)' <=> isValidTip(x)'
           /\ \A x : Abs!HasStatefulDuplicate(x)' <=> HasStatefulDuplicate(x)'
           /\ \A S, x : Abs!tryAddTip(S, x) = tryAddTip(S, x)
<1> USE DEF CONNECTED, Abs!CONNECTED
<1>1. /\ \A x : Abs!isFailed(x)' <=> isFailed(x)'
      /\ \A x : Abs!isConnected(x)' <=> isConnected(x)'
      /\ \A x : Abs!Children(x) = Children(x)
      /\ \A x : Abs!HasStatefulDuplicate(x)' <=> HasStatefulDuplicate(x)'
  BY DEF isFailed, isConnected, Children, HasStatefulDuplicate, IdsIn,
         Abs!isFailed, Abs!isConnected, Abs!Children, Abs!HasStatefulDuplicate, Abs!IdsIn
<1>2. \A x : Abs!canBeATip(x)' <=> canBeATip(x)'
  BY <1>1 DEF canBeATip, Abs!canBeATip
<1>3. \A x : Abs!isValidTip(x)' <=> isValidTip(x)'
  BY <1>1, <1>2 DEF isValidTip, Abs!isValidTip, Children, Abs!Children
<1> QED
  BY <1>1, <1>2, <1>3 DEF tryAddTip, Abs!tryAddTip

LEMMA AbsAcceptBlock ==
    ASSUME idle, idle', NEW b, NEW p, AcceptBlock(b, p)
    PROVE  Abs!AcceptBlock(b, p)
<1>0. Shown
  BY DEF Shown
<1>1. Abs!acceptBlockContract(b)
  BY DEF AcceptBlock, acceptBlockContract, OnActiveChain,
         Abs!acceptBlockContract, Abs!OnActiveChain, VALID_TREE, Abs!VALID_TREE
<1> DEFINE new == Connects(b)
           dups == {d \in new : HasStatefulDuplicate(d)'}
           below == UNION {FlaggedBelow(d) : d \in {x \in dups : ~isFailed(x)}}
           absDups == {d \in Abs!Connects(b) : Abs!HasStatefulDuplicate(d)'}
           absBelow == UNION {Abs!FlaggedBelow(d) : d \in {x \in absDups : ~Abs!isFailed(x)}}
<1>2. Abs!Connects(b) = new /\ absDups = dups
  BY <1>0, AbsReads, AbsReadsPrimed
<1>3. {x \in absDups : ~Abs!isFailed(x)} = {x \in dups : ~isFailed(x)}
  BY <1>0, <1>2, AbsReads
<1>4. absBelow = below
  BY <1>0, <1>3, AbsReads
<1> USE DEF payloadVars, Abs!payloadVars
<1>5. /\ tryAddTips(tips \ (dups \cup below), {x \in new : canBeATip(x)'})
           = Abs!tryAddTips(tips \ (absDups \cup absBelow), {x \in Abs!Connects(b) : Abs!canBeATip(x)'})
      /\ {q \in {Prev[d] : d \in {x \in dups : ~isFailed(x)}} : isValidTip(q)'}
           = {q \in {Prev[d] : d \in {x \in absDups : ~Abs!isFailed(x)}} : Abs!isValidTip(q)'}
  <2>1. {x \in new : canBeATip(x)'} = {x \in Abs!Connects(b) : Abs!canBeATip(x)'}
    BY <1>2, AbsReadsPrimed
  <2>2. {q \in {Prev[d] : d \in {x \in dups : ~isFailed(x)}} : isValidTip(q)'}
           = {q \in {Prev[d] : d \in {x \in absDups : ~Abs!isFailed(x)}} : Abs!isValidTip(q)'}
    BY <1>3, AbsReadsPrimed
  <2> QED
    BY <1>0, <1>2, <1>4, <2>1, <2>2, AbsReads
<1>6. Raised(new, CONNECTED) = Abs!Raised(Abs!Connects(b), Abs!CONNECTED)
  BY <1>0, <1>2, AbsReads DEF CONNECTED, Abs!CONNECTED
<1>7. /\ popData' = [popData EXCEPT ![b] = p]
      /\ payloadsIndex' =
            [i \in PayloadIds |-> IF i \in IdsOf[p] THEN payloadsIndex[i] \cup {b}
                                                    ELSE payloadsIndex[i]]
      /\ UNCHANGED <<known, inTree, failedBlock, tip>>
      /\ level' = Raised(new, CONNECTED)
      /\ failedPop' = failedPop \cup dups
      /\ failedChild' = failedChild \cup below
      /\ tips' = tryAddTips(tips \ (dups \cup below), {x \in new : canBeATip(x)'})
                   \cup {q \in {Prev[d] : d \in {x \in dups : ~isFailed(x)}} : isValidTip(q)'}
  BY DEF AcceptBlock
<1> HIDE DEF new, dups, below
<1>8. /\ level' = Abs!Raised(Abs!Connects(b), Abs!CONNECTED)
      /\ failedPop' = failedPop \cup absDups
      /\ failedChild' = failedChild \cup absBelow
      /\ tips' = Abs!tryAddTips(tips \ (absDups \cup absBelow), {x \in Abs!Connects(b) : Abs!canBeATip(x)'})
           \cup {q \in {Prev[d] : d \in {x \in absDups : ~Abs!isFailed(x)}} : Abs!isValidTip(q)'}
  BY <1>2, <1>4, <1>5, <1>6, <1>7
<1> QED
  BY <1>1, <1>7, <1>8 DEF Abs!AcceptBlock

LEMMA AbsRemovePayloads ==
    ASSUME Shown, idle', NEW b, RemovePayloads(b)
    PROVE  Abs!RemovePayloads(b)
<1>1. Abs!removePayloadsContract(b)
  BY AbsReads DEF RemovePayloads, removePayloadsContract, OnActiveChain,
                  Abs!removePayloadsContract, Abs!OnActiveChain
<1> QED
  BY <1>1, AbsReads, AbsReadsPrimed
     DEF Shown, Unflagged, RemovePayloads, Abs!RemovePayloads, VALID_TREE, Abs!VALID_TREE, IdsIn, Abs!IdsIn

LEMMA AbsInvalidate ==
    ASSUME Shown, idle', NEW b, NEW r, InvalidateSubtree(b, r)
    PROVE  Abs!InvalidateSubtree(b, r)
BY AbsReads, AbsReadsPrimed
   DEF Shown, Unflagged, InvalidateSubtree, InvalidateValid, TipWithout, OnActiveChain, payloadVars,
       Abs!InvalidateSubtree, Abs!InvalidateValid, Abs!TipWithout, Abs!OnActiveChain,
       Abs!payloadVars, CONNECTED, MAYBE_WITH_OTHER, Abs!CONNECTED, Abs!MAYBE_WITH_OTHER

LEMMA AbsRevalidate ==
    ASSUME Shown, idle', NEW b, NEW r, RevalidateSubtree(b, r)
    PROVE  Abs!RevalidateSubtree(b, r)
<1>1. {x \in Cleared(b, r) \cup {b} : canBeATip(x)'}
        = {x \in Abs!Cleared(b, r) \cup {b} : Abs!canBeATip(x)'}
  BY AbsReads, AbsReadsPrimed
<1> QED
  BY <1>1, AbsReads DEF Shown, Unflagged, RevalidateSubtree, Abs!RevalidateSubtree, payloadVars, Abs!payloadVars

LEMMA AbsRemove ==
    ASSUME Shown, idle', NEW b, RemoveSubtree(b)
    PROVE  Abs!RemoveSubtree(b)
BY AbsReadsPrimed
   DEF Shown, Unflagged, RemoveSubtree, TipWithout, OnActiveChain, Unindexed, VALID_UNKNOWN,
       Abs!RemoveSubtree, Abs!TipWithout, Abs!OnActiveChain, Abs!Unindexed, Abs!VALID_UNKNOWN

-----------------------------------------------------------------------------
(* The operations that switch the active chain.                             *)

\* A step inside an operation does not show.
LEMMA AbsInside ==
    ASSUME ~idle, ~idle', saved' = saved, known' = known, inTree' = inTree, tip' = tip,
           failedBlock' = failedBlock, UNCHANGED payloadVars
    PROVE  UNCHANGED Abs!vars
BY DEF Abs!vars, Abs!statusVars, Abs!payloadVars, payloadVars

\* Neither does its beginning.
LEMMA AbsBegin ==
    ASSUME idle, NEW p \in {"unapplyOld", "applyNew"}, NEW to, NEW then, NEW block, NEW r,
           Begin(p, to, then, block, r)
    PROVE  UNCHANGED Abs!vars
<1>1. ~idle'
  BY DEF Begin, idle, Idle
<1>2. /\ UNCHANGED vars
      /\ saved'.level = level /\ saved'.failedPop = failedPop
      /\ saved'.failedChild = failedChild /\ saved'.tips = tips
  BY DEF Begin
<1> QED
  BY <1>1, <1>2 DEF Abs!vars, Abs!statusVars, Abs!payloadVars, vars, statusVars, payloadVars

\* The contracts the operation was called under hold for the abstract tree.
LEMMA AbsContracts ==
    ASSUME ControlInv, RefInv, ~idle
    PROVE  /\ Abs!setStateContract(sm.to)
           /\ ~SavedFailed(sm.to) => Abs!isValid(sm.to)
           /\ Forked => /\ Abs!compareContract(sm.to) /\ tip \notin Ancestors[sm.to]
                        /\ Abs!CrossesKeystone(sm.to)
           /\ Abs!Unapplied(sm.to) = Unapplied(sm.to)
<1>1. /\ sm.to \in Blocks /\ sm.to \in inTree /\ saved.level[sm.to] \in Levels
      /\ saved.level[sm.to] >= CONNECTED
  BY OperationFacts DEF ControlInv, Paths, RefInv
<1>2. Abs!isConnected(sm.to)
  BY <1>1 DEF Abs!isConnected, Abs!CONNECTED, CONNECTED
<1>3. Abs!setStateContract(sm.to)
  BY <1>1, <1>2 DEF Abs!setStateContract
<1>4. ~SavedFailed(sm.to) => Abs!isValid(sm.to)
  BY <1>1 DEF SavedFailed, Abs!isValid, Abs!isFailed, Abs!VALID_TREE, CONNECTED, Levels,
              VALID_UNKNOWN, CAN_BE_APPLIED
<1>5. Forked => /\ Abs!compareContract(sm.to) /\ tip \notin Ancestors[sm.to]
                /\ Abs!CrossesKeystone(sm.to)
  <2>1. CrossesKeystone(sm.to) => Abs!CrossesKeystone(sm.to)
    BY DEF CrossesKeystone, ForkHeight, isCrossedKeystoneBoundary, Abs!CrossesKeystone,
           Abs!ForkHeight, Abs!isCrossedKeystoneBoundary
  <2> QED
    BY <1>1, <1>2, <1>4, <2>1 DEF Forked, Abs!compareContract, Abs!OnActiveChain
<1>6. Abs!Unapplied(sm.to) = Unapplied(sm.to)
  BY DEF Abs!Unapplied, Unapplied
<1> QED
  BY <1>3, <1>4, <1>5, <1>6

\* Every block of the new chain has reached a level: so it has in the abstract tree.
LEMMA AbsRaised ==
    ASSUME ControlInv, RefInv, ~idle, NEW lo \in Levels, NEW hi \in Levels,
           Reached(lo, hi, sm.to)
    PROVE  level = Abs!Raised(Abs!Unapplied(sm.to), hi)
<1>1. Abs!Unapplied(sm.to) = Unapplied(sm.to)
  BY AbsContracts
<1>2. \A x \in Unapplied(sm.to) : x \in Ancestors[sm.to]
  BY DEF Unapplied
<1>3. level = [x \in Blocks |-> IF x \in Unapplied(sm.to) /\ saved.level[x] < hi
                                  THEN hi ELSE saved.level[x]]
  BY <1>2 DEF Reached
<1> QED
  BY <1>1, <1>3 DEF Abs!Raised

\* The operation has moved the tip.
LEMMA AbsComplete ==
    ASSUME ControlInv, RefInv, ~idle, Complete, sm.a = sm.fork, sm.b = sm.to,
           sm.phase \in {"unapplyOld", "applyNew"}
    PROVE  Abs!Next
<1>1. idle' /\ Unflagged /\ ReachedAlone(sm.to)
  BY DEF Complete, EndRun, RefInv, idle
<1>2. sm.to \in Blocks
  BY OperationFacts
<1>3. CASE sm.then = "switch"
  <2>1. UNCHANGED <<statusVars, payloadVars, tips>> /\ tip' = sm.to
    BY <1>3 DEF Complete
  <2>2. level' = Abs!Raised(Abs!Unapplied(sm.to), Abs!CAN_BE_APPLIED)
    <3>1. {VALID_UNKNOWN, MAYBE_WITH_OTHER, CAN_BE_APPLIED} \subseteq Levels
      BY DEF VALID_UNKNOWN, MAYBE_WITH_OTHER, CAN_BE_APPLIED, Levels
    <3>2. level = Abs!Raised(Abs!Unapplied(sm.to), CAN_BE_APPLIED)
      BY <1>1, <3>1, AbsRaised DEF ReachedAlone
    <3>3. level' = level /\ Abs!CAN_BE_APPLIED = CAN_BE_APPLIED
      BY <2>1 DEF statusVars, CAN_BE_APPLIED, Abs!CAN_BE_APPLIED
    <3> QED
      BY <3>2, <3>3
  <2>3. Abs!Switch(sm.to)
    BY <1>1, <2>1, <2>2 DEF Abs!Switch, Unflagged, statusVars, payloadVars, Abs!payloadVars
  <2>4. Abs!Unapplied(sm.to) = {} \/ Abs!isValid(sm.to)
    <3>1. CASE sm.b = sm.fork
      <4>1. sm.to \in Ancestors[tip] /\ tip \in Blocks
        BY <3>1, OperationFacts DEF ControlInv, Paths
      <4>2. Unapplied(sm.to) = {}
        BY <4>1, TreeFacts DEF Unapplied
      <4> QED
        BY <4>2, AbsContracts
    <3>2. CASE sm.b # sm.fork
      <4>1. ~isFailed(sm.to)
        BY <3>2 DEF ControlInv, PhaseInv
      <4>2. ~SavedFailed(sm.to)
        BY <1>1, <4>1 DEF SavedFailed, isFailed, Unflagged
      <4> QED
        BY <4>2, AbsContracts
    <3> QED
      BY <3>1, <3>2
  <2>5. Abs!SetState(sm.to)
    BY <2>3, <2>4, AbsContracts DEF Abs!SetState
  <2> QED
    BY <1>2, <2>5 DEF Abs!Next
<1>4. CASE sm.then # "switch"
  <2>1. level = saved.level /\ failedPop = saved.failedPop /\ failedChild = saved.failedChild
        /\ tips = saved.tips
    BY <1>1, <1>4 DEF RefInv, Unflagged
  <2>2. PICK x \in Blocks : \/ \E r \in ExternalReasons : InvalidateSubtree(x, r)
                            \/ RemoveSubtree(x)
    BY <1>4 DEF Complete
  <2>3. /\ \A r : InvalidateSubtree(x, r) => Abs!InvalidateSubtree(x, r)
        /\ RemoveSubtree(x) => Abs!RemoveSubtree(x)
    BY <1>1, <2>1, AbsInvalidate, AbsRemove DEF Shown, Unflagged
  <2> QED
    BY <2>2, <2>3 DEF Abs!Next
<1> QED
  BY <1>3, <1>4

\* Block k of the new chain has been refused and the old chain is applied again.
LEMMA AbsFailAt ==
    ASSUME ControlInv, RefInv, ~idle, idle', UNCHANGED vars,
           NEW k \in Unapplied(sm.to), Refused(k), saved.level[k] < CAN_BE_APPLIED,
           NEW lo \in Levels, NEW hi \in Levels, Reached(lo, hi, Prev[k])
    PROVE  Abs!FailAt(k, sm.to, hi, lo)
<1>1. /\ sm.to \in Blocks /\ tip \in Blocks /\ k \in Blocks /\ k \in Ancestors[sm.to]
      /\ k # Root /\ Prev[k] \in Blocks
  BY OperationFacts, TreeFacts, PrevFacts DEF Unapplied
<1>2. Abs!Unapplied(sm.to) = Unapplied(sm.to)
  BY AbsContracts
<1>3. \A x \in Unapplied(sm.to) : x \in Ancestors[Prev[k]] <=> Height[x] < Height[k]
  <2> SUFFICES ASSUME NEW x \in Unapplied(sm.to)
               PROVE  x \in Ancestors[Prev[k]] <=> Height[x] < Height[k]
    OBVIOUS
  <2>1. /\ x \in Blocks /\ x \in Ancestors[sm.to]
        /\ Height[x] \in Nat /\ Height[k] \in Nat /\ Height[Prev[k]] \in Nat
        /\ Height[k] = Height[Prev[k]] + 1
    BY <1>1, TreeFacts, HeightAssumption DEF Unapplied
  <2>2. x \in Ancestors[Prev[k]] => Height[x] < Height[k]
    BY <1>1, <2>1, HeightAssumption
  <2>3. Height[x] < Height[k] => x \in Ancestors[k] /\ x # k
    <3>1. k \in Ancestors[x] => Height[k] <= Height[x]
      BY <2>1, HeightAssumption
    <3> QED
      BY <1>1, <2>1, <3>1, TreeFacts
  <2> QED
    BY <1>1, <2>2, <2>3, PrevFacts
<1>4. level = [x \in Blocks |->
                 IF x \in Unapplied(sm.to)
                   THEN LET l == IF Height[x] < Height[k] THEN hi ELSE lo
                        IN  IF saved.level[x] < l THEN l ELSE saved.level[x]
                   ELSE saved.level[x]]
  BY <1>3 DEF Reached
<1>5. /\ known' = known /\ inTree' = inTree /\ level' = level /\ tip' = tip /\ tips' = tips
      /\ failedBlock' = failedBlock /\ failedPop' = failedPop /\ failedChild' = failedChild
      /\ UNCHANGED payloadVars
  BY DEF vars, statusVars
<1>6. Abs!FlaggedBelow(k) = SavedFlaggedBelow(k)
  BY DEF Abs!FlaggedBelow, SavedFlaggedBelow, Abs!Below, Below, Abs!Between, Between,
         Abs!isFailed, SavedFailed
<1>7. Abs!isValidTip(Prev[k])' <=> isValidTip(Prev[k])
  <2>1. isValidTip(Prev[k])' <=> isValidTip(Prev[k])
    BY <1>5 DEF isValidTip, canBeATip, isFailed, isConnected
  <2> QED
    BY <2>1, AbsReadsPrimed
<1>8. Abs!InvalidateValid(k, "POP")
  <2>1. \A x : Abs!Children(x) = Children(x)
    BY DEF Abs!Children, Children
  <2> QED
    BY <1>5, <1>6, <1>7, <2>1 DEF Abs!InvalidateValid, Abs!tryAddTip, Refused
<1> QED
  BY <1>2, <1>4, <1>5, <1>8
     DEF Abs!FailAt, Abs!CAN_BE_APPLIED, CAN_BE_APPLIED, payloadVars, Abs!payloadVars

\* The operation has failed, or the old chain has won: what is left of it is a step of
\* the abstract tree or nothing.
LEMMA AbsFailed ==
    ASSUME ControlInv, RefInv, ~idle, Outcome, EndRun, UNCHANGED vars
    PROVE  Abs!Next \/ UNCHANGED Abs!vars
<1>1. idle' /\ sm.to \in Blocks
  BY OperationFacts DEF EndRun, idle
<1>2. {VALID_UNKNOWN, MAYBE_WITH_OTHER, CAN_BE_APPLIED} \subseteq Levels
  BY DEF VALID_UNKNOWN, MAYBE_WITH_OTHER, CAN_BE_APPLIED, Levels
<1>3. /\ Abs!VALID_UNKNOWN = VALID_UNKNOWN /\ Abs!MAYBE_WITH_OTHER = MAYBE_WITH_OTHER
      /\ Abs!CAN_BE_APPLIED = CAN_BE_APPLIED
  BY DEF VALID_UNKNOWN, MAYBE_WITH_OTHER, CAN_BE_APPLIED, Abs!VALID_UNKNOWN,
         Abs!MAYBE_WITH_OTHER, Abs!CAN_BE_APPLIED
<1>4. CASE Unflagged /\ level = saved.level
  BY <1>1, <1>4 DEF Unflagged, vars, statusVars, payloadVars, Abs!vars, Abs!statusVars,
                    Abs!payloadVars
<1>5. CASE Unflagged /\ Forked /\ Reached(VALID_UNKNOWN, MAYBE_WITH_OTHER, sm.to)
  <2>1. level = Abs!Raised(Abs!Unapplied(sm.to), MAYBE_WITH_OTHER)
    BY <1>2, <1>5, AbsRaised
  <2>2. /\ level' = Abs!Raised(Abs!Unapplied(sm.to), Abs!MAYBE_WITH_OTHER)
        /\ failedPop' = saved.failedPop /\ failedChild' = saved.failedChild
        /\ tips' = saved.tips /\ UNCHANGED <<known, inTree, failedBlock, Abs!payloadVars, tip>>
    BY <1>3, <1>5, <2>1 DEF Unflagged, vars, statusVars, payloadVars, Abs!payloadVars
  <2>3. Abs!CompareFork(sm.to)
    BY <1>1, <1>5, <2>2, AbsContracts DEF Abs!CompareFork
  <2> QED
    BY <1>1, <2>3 DEF Abs!Next
<1>6. ASSUME NEW k \in Unapplied(sm.to), Refused(k), saved.level[k] < CAN_BE_APPLIED,
             ~SavedFailed(sm.to),
             \/ ReachedAlone(Prev[k])
             \/ Forked /\ Reached(VALID_UNKNOWN, MAYBE_WITH_OTHER, Prev[k])
      PROVE  Abs!Next
  <2>1. k \in Abs!Unapplied(sm.to)
    BY AbsContracts
  <2>2. CASE Reached(VALID_UNKNOWN, CAN_BE_APPLIED, Prev[k])
    <3>1. Abs!FailAt(k, sm.to, Abs!CAN_BE_APPLIED, Abs!VALID_UNKNOWN)
      BY <1>1, <1>2, <1>3, <1>6, <2>2, AbsFailAt
    <3>2. Abs!SetState(sm.to)
      BY <1>6, <2>1, <3>1, AbsContracts DEF Abs!SetState
    <3> QED
      BY <1>1, <3>2 DEF Abs!Next
  <2>3. CASE Forked /\ Reached(MAYBE_WITH_OTHER, CAN_BE_APPLIED, Prev[k])
    <3>1. Abs!FailAt(k, sm.to, Abs!CAN_BE_APPLIED, Abs!MAYBE_WITH_OTHER)
      BY <1>1, <1>2, <1>3, <1>6, <2>3, AbsFailAt
    <3>2. Abs!CompareFork(sm.to)
      BY <2>1, <2>3, <3>1, AbsContracts DEF Abs!CompareFork
    <3> QED
      BY <1>1, <3>2 DEF Abs!Next
  <2>4. CASE Forked /\ Reached(VALID_UNKNOWN, MAYBE_WITH_OTHER, Prev[k])
    <3>1. Abs!FailAt(k, sm.to, Abs!MAYBE_WITH_OTHER, Abs!VALID_UNKNOWN)
      BY <1>1, <1>2, <1>3, <1>6, <2>4, AbsFailAt
    <3>2. Abs!CompareFork(sm.to)
      BY <2>1, <2>4, <3>1, AbsContracts DEF Abs!CompareFork
    <3> QED
      BY <1>1, <3>2 DEF Abs!Next
  <2> QED
    BY <1>6, <2>2, <2>3, <2>4 DEF ReachedAlone
<1> QED
  BY <1>4, <1>5, <1>6 DEF Outcome

-----------------------------------------------------------------------------
(* The refinement.                                                          *)

\* A step between two jobs.
LEMMA AbsPhase ==
    ASSUME ControlInv, ControlInv', RefInv, job = NoJob,
           UnapplyOld \/ ApplyNew \/ Decide \/ TrimNew \/ UndoNew \/ ReapplyOld
    PROVE  Abs!Next \/ UNCHANGED Abs!vars
<1>1. ~idle
  BY DEF UnapplyOld, ApplyNew, Decide, TrimNew, UndoNew, ReapplyOld, idle, Idle
<1>2. ASSUME \/ \E x : startApply(x) \/ startUnapply(x)
             \/ \E p \in Phases : GoTo(p)
      PROVE  UNCHANGED Abs!vars
  <2>1. saved' = saved /\ UNCHANGED vars
    BY <1>2 DEF startApply, startUnapply, GoTo
  <2>2. ~idle'
    <3>1. CASE \E x : startApply(x) \/ startUnapply(x)
      BY <1>1, <3>1 DEF startApply, startUnapply, idle
    <3>2. ASSUME NEW p \in Phases, GoTo(p) PROVE sm'.phase # "idle"
      BY <1>1, <3>2, OperationFacts DEF GoTo, Operations, Phases
    <3> QED
      BY <1>2, <3>1, <3>2 DEF idle, Idle
  <2> QED
    BY <1>1, <2>1, <2>2, AbsInside DEF vars, statusVars
<1>3. CASE UnapplyOld
  <2>1. CASE Complete /\ sm.a = sm.fork /\ sm.b = sm.to
    BY <1>1, <1>3, <2>1, AbsComplete DEF UnapplyOld
  <2> QED
    BY <1>2, <1>3, <2>1 DEF UnapplyOld, Phases
<1>4. CASE ApplyNew
  <2>1. CASE Complete /\ sm.a = sm.fork /\ sm.b = sm.to
    BY <1>1, <1>4, <2>1, AbsComplete DEF ApplyNew
  <2> QED
    BY <1>2, <1>4, <2>1 DEF ApplyNew, Phases
<1>5. CASE Decide \/ TrimNew \/ UndoNew
  BY <1>2, <1>5 DEF Decide, TrimNew, UndoNew, Phases
<1>6. CASE ReapplyOld
  <2>1. Outcome
    BY <1>1, <1>6 DEF ReapplyOld, RefInv
  <2>2. CASE EndRun /\ UNCHANGED vars
    BY <1>1, <2>1, <2>2, AbsFailed
  <2> QED
    BY <1>2, <1>6, <2>2 DEF ReapplyOld
<1> QED
  BY <1>3, <1>4, <1>5, <1>6

\* Every step of PopStateMachine is a step of AltBlockTree or does not show.
LEMMA NextAbs ==
    ASSUME SMInv, SMInv', RefInv, [SMNext]_allVars
    PROVE  [Abs!Next]_Abs!vars
<1>1. ControlInv /\ ControlInv'
  BY DEF SMInv
<1>2. CASE TreeOperation
  <2>1. idle /\ idle'
    BY <1>2 DEF TreeOperation, runVars, idle
  <2>2. Shown
    BY <2>1 DEF Shown
  <2> QED
    BY <1>2, <2>1, <2>2, AbsHeader, AbsAcceptBlock, AbsRemovePayloads, AbsInvalidate, AbsRevalidate,
       AbsRemove DEF TreeOperation, Abs!Next
<1>3. ASSUME NEW x \in Blocks,
             \/ BeginSetState(x) \/ BeginCompare(x) \/ BeginRemove(x)
             \/ \E r \in ExternalReasons : BeginInvalidate(x, r)
      PROVE  UNCHANGED Abs!vars
  BY <1>3, AbsBegin DEF BeginSetState, BeginCompare, BeginRemove, BeginInvalidate
<1>4. CASE ExecuteCommand \/ UnExecuteCommand \/ BlockApplied \/ BlockUnapplied \/ BlockRefused
  <2>1. /\ known' = known /\ inTree' = inTree /\ tip' = tip /\ failedBlock' = failedBlock
        /\ UNCHANGED payloadVars /\ saved' = saved
    BY <1>4 DEF ExecuteCommand, UnExecuteCommand, BlockApplied, BlockUnapplied, BlockRefused,
                InvalidateValid, vars, statusVars
  <2>2. job # NoJob /\ ~idle
    <3>1. job # NoJob
      BY <1>4 DEF ExecuteCommand, UnExecuteCommand, BlockApplied, BlockUnapplied, BlockRefused,
                  NoJob
    <3> QED
      BY <1>1, <3>1 DEF ControlInv, Control
  <2>3. ~idle'
    <3>1. CASE ExecuteCommand \/ UnExecuteCommand
      BY <2>2, <3>1 DEF ExecuteCommand, UnExecuteCommand, idle
    <3>2. CASE BlockApplied \/ BlockUnapplied
      <4>1. job.block \in Blocks \ {Root}
        BY <1>1, <2>2, JobFacts
      <4>2. \E x \in Blocks : sm' = Moved(x)
        BY <3>2, <4>1, PrevFacts DEF BlockApplied, BlockUnapplied
      <4> QED
        BY <1>1, <2>2, <4>2, MovedFacts
    <3>3. CASE BlockRefused
      BY <1>1, <2>2, <3>3, OperationFacts DEF BlockRefused, Operations, idle, Idle
    <3> QED
      BY <1>4, <3>1, <3>2, <3>3
  <2> QED
    BY <2>1, <2>2, <2>3, AbsInside
<1>5. CASE job = NoJob /\ (UnapplyOld \/ ApplyNew \/ Decide \/ TrimNew \/ UndoNew \/ ReapplyOld)
  BY <1>1, <1>5, AbsPhase
<1>6. CASE UNCHANGED allVars
  BY <1>6 DEF allVars, runVars, vars, statusVars, payloadVars, idle, Abs!vars, Abs!statusVars,
              Abs!payloadVars
<1> QED
  BY <1>2, <1>3, <1>4, <1>5, <1>6 DEF SMNext, Step

\* PopStateMachine implements AltBlockTree: setState, comparePopScore,
\* invalidateSubtree and removeSubtree, command by command, change the tree as one step
\* of AltBlockTree does, or leave it as it was.
THEOREM Refinement ==
    ASSUME OnlyBlockReason
    PROVE  SMSpec => ImplementsAltBlockTree
<1>1. SMInit => Abs!Init
  BY DEF SMInit, Init, idle, Abs!Init, CAN_BE_APPLIED, VALID_UNKNOWN, Abs!CAN_BE_APPLIED,
         Abs!VALID_UNKNOWN
<1>2. SMInit => RefInv
  BY DEF SMInit, RefInv, idle
<1>3. SMInv /\ SMInv' /\ RefInv /\ [SMNext]_allVars => RefInv'
  BY NextRef
<1>4. SMInv /\ SMInv' /\ RefInv /\ [SMNext]_allVars => [Abs!Next]_Abs!vars
  BY NextAbs
<1>5. SMSpec => []SMInv
  BY StateMachineInvariant
<1> QED
  BY <1>1, <1>2, <1>3, <1>4, <1>5, PTL DEF SMSpec, ImplementsAltBlockTree, Abs!Spec

=============================================================================
