-------------------------- MODULE MCPopStateMachine --------------------------
(***************************************************************************)
(* Instances of PopStateMachine for TLC.                                    *)
(***************************************************************************)
EXTENDS PopStateMachine

CONSTANTS R, A1, A2, B1, V0, V1, V2

\* A chain of two blocks, and a third one beside it.
Hook == {R, A1, A2, B1}
HookPrev == [b \in {A1, A2, B1} |-> IF b = A2 THEN A1 ELSE R]

AncestorsOf ==
    LET anc[b \in Blocks] == IF b = R THEN {R} ELSE anc[Prev[b]] \cup {b}
    IN  anc

HeightOf ==
    LET h[b \in Blocks] == IF b = R THEN 0 ELSE h[Prev[b]] + 1
    IN  h

\* VBK blocks V0 <- V1 <- V2.
Vbk == {V0, V1, V2}
VbkPrevOf == [v \in {V1, V2} |-> IF v = V2 THEN V1 ELSE V0]

\* Payloads: the VBK context blocks V1 and V2, and an ATV that endorses A1 or the
\* bootstrap block with block of proof V1.
Add(v) == [op |-> "AddBlock", vbk |-> v]
Endorse(v, e, i) == [op |-> "AddEndorsement", vbk |-> v, endorsed |-> e, id |-> i]

PayloadCommands == [ctx1 |-> <<Add(V1)>>, ctx2 |-> <<Add(V2)>>,
                    atvA |-> <<Add(V1), Endorse(V1, A1, "atvA")>>,
                    atvR |-> <<Add(V1), Endorse(V1, R, "atvR")>>]

AllIds == DOMAIN PayloadCommands
BodySet == {<<"ctx1">>, <<"ctx2">>, <<"atvA">>, <<"ctx1", "atvR">>}
IdsOfBody == [p \in PopDatas |-> {p[i] : i \in DOMAIN p}]
CommandsOfBody ==
    [p \in PopDatas |-> IF Len(p) = 1 THEN PayloadCommands[p[1]]
                        ELSE PayloadCommands[p[1]] \o PayloadCommands[p[2]]]

=============================================================================
