---------------------------- MODULE MCTreeStorage ----------------------------
(***************************************************************************)
(* Instances of TreeStorage for TLC.                                        *)
(***************************************************************************)
EXTENDS TreeStorage

CONSTANTS R, A1, A2, A3, B1, P1

\* Two blocks on the bootstrap block, and a third beside them.
Fork == {R, A1, A2, B1}
ForkPrev == [b \in {A1, A2, B1} |-> IF b = A2 THEN A1 ELSE R]

AncestorsOf ==
    LET anc[b \in Blocks] == IF b = R THEN {R} ELSE anc[Prev[b]] \cup {b}
    IN  anc

HeightOf ==
    LET h[b \in Blocks] == IF b = R THEN 0 ELSE h[Prev[b]] + 1
    IN  h

\* Three blocks in a row.
Row == {R, A1, A2, A3}
RowPrev == [b \in {A1, A2, A3} |-> IF b = A3 THEN A2 ELSE IF b = A2 THEN A1 ELSE R]

\* Bodies are named by the ids they carry.
OnePayload == {{}, {P1}}
IdsOfBody == [p \in PopDatas |-> p]
NoPayload == {{}}
Ids1 == {P1}

=============================================================================
