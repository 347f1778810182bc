------------------------------ MODULE MCPopScore ------------------------------
(***************************************************************************)
(* Instances of PopScore and KeystoneContext for TLC.  A behaviour is       *)
(* either a comparison of two views or the computation of the first         *)
(* publication of one keystone; the other part stays at rest.               *)
(***************************************************************************)
EXTENDS PopScoreMirror, KeystoneContext

CONSTANT MaxKeystones

Never == 100
Table == <<3, 1>>
ViewSet == UNION {[1 .. n -> PublicationHeights \cup {NO_ENDORSEMENT}] : n \in 0 .. MaxKeystones}

NothingToCompare == viewA = <<>> /\ viewB = <<>>

NothingReferenced ==
    /\ referencedByBlocks = {} /\ enableTimeAdjustment = FALSE
    /\ timestampOfEndorsedBlock = 0 /\ timestamp = [h \in Heights |-> 0]

ForkInit ==
    \/ NothingReferenced /\ ContextInit /\ ScoreInit
    \/ NothingToCompare /\ ScoreInit /\ ContextInit

ForkNext ==
    \/ ScoreNext /\ UNCHANGED contextVars
    \/ ContextNext /\ UNCHANGED scoreVars

ForkSpec == ForkInit /\ [][ForkNext]_<<scoreVars, contextVars>>

=============================================================================
