--------------------------- MODULE MCFinalization ---------------------------
(***************************************************************************)
(* A chain of five blocks, a branch of two that leaves it early and a block *)
(* beside its end.  That block repeats the payload of A1, which is final    *)
(* and may be deallocated by then.                                          *)
(***************************************************************************)
EXTENDS Finalization

CONSTANTS R, A1, A2, A3, A4, C2, C3, D4, P, Q

ChainBlocks == {R, A1, A2, A3, A4, C2, C3, D4}

ChainPrev ==
    [b \in ChainBlocks \ {R} |->
        CASE b = A1 -> R [] b = A2 -> A1 [] b = A3 -> A2 [] b = A4 -> A3
          [] b = C2 -> A1 [] b = C3 -> C2 [] b = D4 -> A3]

ChainAncestors ==
    [b \in ChainBlocks |->
        CASE b = R -> {R} [] b = A1 -> {R, A1} [] b = A2 -> {R, A1, A2}
          [] b = A3 -> {R, A1, A2, A3} [] b = A4 -> {R, A1, A2, A3, A4}
          [] b = C2 -> {R, A1, C2} [] b = C3 -> {R, A1, C2, C3}
          [] b = D4 -> {R, A1, A2, A3, D4}]

ChainHeight == [b \in ChainBlocks |-> Cardinality(ChainAncestors[b]) - 1]

ChainPayloads ==
    [b \in ChainBlocks |->
        CASE b \in {A1, D4} -> {P} [] b = C2 -> {Q} [] OTHER -> {}]
=============================================================================
