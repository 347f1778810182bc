---------------------------- MODULE MCVbkBlockTree ----------------------------
(***************************************************************************)
(* Instances of VbkBlockTree for TLC.                                       *)
(***************************************************************************)
EXTENDS VbkBlockTree

CONSTANTS R, V1, V2, V3, W1, B0, C1, C2, Y, Z, W, X

\* A chain of three VBK blocks on the root, V3 brought by the altchain, and W1
\* beside them.
VbkTree == {R, V1, V2, V3, W1}
VbkTreePrev == [v \in VbkTree \ {R} |-> CASE v = V3 -> V2 [] v = V2 -> V1 [] OTHER -> R]
VbkTreeAncestors ==
    LET anc[v \in VbkTree] == IF v = R THEN {R} ELSE anc[VbkTreePrev[v]] \cup {v}
    IN  anc
VbkTreeHeight ==
    LET h[v \in VbkTree] == IF v = R THEN 0 ELSE h[VbkTreePrev[v]] + 1
    IN  h

\* A chain of two BTC blocks.
BtcChain == {B0, C1, C2}
BtcChainPrev == [c \in {C1, C2} |-> IF c = C2 THEN C1 ELSE B0]

\* Y brings C1 to V1; Z, in V2, needs C1 and brings C2; W brings both to V3, too late
\* for Z; X brings C1 to W1.
VtbSet == {Y, Z, W, X}
VtbContaining ==
    [y \in VtbSet |-> CASE y = Y -> V1 [] y = Z -> V2 [] y = W -> V3 [] OTHER -> W1]
VtbEndorsed == [y \in VtbSet |-> CASE y = Z -> V1 [] y = W -> V2 [] OTHER -> R]
VtbContext == [y \in VtbSet |-> CASE y = Z -> <<C2>> [] y = W -> <<C1, C2>> [] OTHER -> <<C1>>]

\* With X in the block of Y the block fills up.
CrowdedContaining == [VtbContaining EXCEPT ![X] = V1]

\* With Z in the block of Y, one VTB of a block needs another.
DependentContaining == [VtbContaining EXCEPT ![Z] = V1]
DependentEndorsed == [VtbEndorsed EXCEPT ![Z] = R]

\* The instances meet the conditions of the theorems, but for the one with dependent VTBs.
ASSUME InstanceAssumption ==
    ContextsLinked /\ (VtbsIndependent <=> Containing # DependentContaining)

=============================================================================
