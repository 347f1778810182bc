---------------------------- MODULE MCAltBlockTree ----------------------------
(***************************************************************************)
(* Instances of AltBlockTree for TLC.                                       *)
(***************************************************************************)
EXTENDS AltBlockTree

CONSTANTS R, A1, A2, A3, B1, P1

\* A chain of three blocks on the bootstrap block, and a fourth beside it.
Hook == {R, A1, A2, A3, B1}
HookPrev == [b \in {A1, A2, A3, B1} |-> CASE b = A3 -> A2 [] b = A2 -> A1 [] OTHER -> R]


AncestorsOf ==
    LET anc[b \in Blocks] == IF b = R THEN {R} ELSE anc[Prev[b]] \cup {b}
    IN  anc

HeightOf ==
    LET h[b \in Blocks] == IF b = R THEN 0 ELSE h[Prev[b]] + 1
    IN  h

\* Bodies are named by the ids they carry.
OnePayload == {{}, {P1}}
IdsOfBody == [p \in PopDatas |-> p]
Ids1 == {P1}

=============================================================================
