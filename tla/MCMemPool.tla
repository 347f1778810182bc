----------------------------- MODULE MCMemPool -----------------------------
(***************************************************************************)
(* Three VBK blocks.  The second has two VTBs, one of which needs the BTC   *)
(* block that the other brings, and two ATVs.                               *)
(***************************************************************************)
EXTENDS MemPool

CONSTANTS Y, Z, A, B

PayloadBlock == [p \in {Y, Z, A, B} |-> 2]

PublishedBlock == [y \in {Y, Z} |-> 1]

BroughtBtc == [y \in {Y, Z} |-> IF y = Y THEN 1 ELSE 2]

AtvFee == [a \in {A, B} |-> IF a = A THEN 1 ELSE 2]

\* One VTB and both ATVs do not fit into a block with two VBK blocks.
PayloadSize == [p \in {Y, Z, A, B} \cup 1..3 |-> CASE p \in {Y, Z, B} -> 2 [] p = A -> 3 [] OTHER -> 1]

OthersPops ==
    {[context |-> <<1, 2>>, vtbs |-> <<Y>>, atvs |-> <<>>],
     [context |-> <<1>>, vtbs |-> <<>>, atvs |-> <<A>>],
     [context |-> <<1, 2, 3>>, vtbs |-> <<>>, atvs |-> <<>>]}
=============================================================================
