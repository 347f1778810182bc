--------------------------- MODULE KeystoneContext ---------------------------
(***************************************************************************)
(* getKeystoneContext (fork_resolution.hpp): the height of the first        *)
(* publication of a keystone, from the blocks of proof that reference it.   *)
(*                                                                          *)
(* referencedByBlocks is a std::set of pointers, so the loop visits it in   *)
(* the order of the addresses: any order.  All its members are on the best  *)
(* chain of the protecting tree (getProtoKeystoneContext) and are named by  *)
(* their heights; timestamps along that chain may go back.  One step is one *)
(* iteration of the outer loop.                                             *)
(***************************************************************************)
EXTENDS Integers, FiniteSets

CONSTANTS
    ChainHeight,          \* best.chainHeight()
    Timestamps,
    NoEndorsement         \* NO_ENDORSEMENT

Heights == 0 .. ChainHeight

ASSUME ContextAssumption ==
    /\ ChainHeight \in Nat
    /\ Timestamps \subseteq Nat
    /\ NoEndorsement \in Nat /\ NoEndorsement > ChainHeight

VARIABLES
    enableTimeAdjustment,        \* a parameter of the protecting tree
    referencedByBlocks,
    timestampOfEndorsedBlock,
    timestamp,                   \* of each block of the best chain
    toVisit,
    earliestEndorsementIndex

contextVars == <<enableTimeAdjustment, referencedByBlocks, timestampOfEndorsedBlock, timestamp,
                 toVisit, earliestEndorsementIndex>>

ContextInit ==
    /\ enableTimeAdjustment \in BOOLEAN
    /\ referencedByBlocks \in SUBSET Heights
    /\ timestampOfEndorsedBlock \in Timestamps
    /\ timestamp \in [Heights -> Timestamps]
    /\ toVisit = referencedByBlocks
    /\ earliestEndorsementIndex = NoEndorsement

\* The block of proof came after the endorsed block.
InTime(h) == timestampOfEndorsedBlock < timestamp[h]

\* Mutant: the search for a later block skips the next one.
AdjustedSkipsNext(h) ==
    LET later == {j \in h + 2 .. ChainHeight : InTime(j)}
        first == CHOOSE j \in later : \A i \in later : j <= i
    IN  IF later # {} /\ first < earliestEndorsementIndex
          THEN first ELSE earliestEndorsementIndex

\* The inner loop: the first later block of the best chain that is in time, if it
\* is earlier than what was found before.
Adjusted(h) ==
    LET later == {j \in h + 1 .. ChainHeight : InTime(j)}
        first == CHOOSE j \in later : \A i \in later : j <= i
    IN  IF later # {} /\ first < earliestEndorsementIndex
          THEN first ELSE earliestEndorsementIndex

Visit(h) ==
    /\ h \in toVisit
    /\ toVisit' = toVisit \ {h}
    /\ earliestEndorsementIndex' =
          IF h >= earliestEndorsementIndex THEN earliestEndorsementIndex
          ELSE IF ~enableTimeAdjustment \/ InTime(h) THEN h
          ELSE Adjusted(h)
    /\ UNCHANGED <<enableTimeAdjustment, referencedByBlocks, timestampOfEndorsedBlock, timestamp>>

ContextNext == \E h \in Heights : Visit(h)

ContextSpec == ContextInit /\ [][ContextNext]_contextVars

-----------------------------------------------------------------------------
(* Properties.                                                              *)

\* The heights that count as publications of a block of proof at height h.
Publications(h) ==
    IF enableTimeAdjustment THEN {j \in h .. ChainHeight : InTime(j)} ELSE {h}

\* What has been found is the least publication of the blocks visited so far, in
\* whatever order the addresses make the loop visit them: two nodes compute the
\* same score.
EarliestOfVisited ==
    LET seen == UNION {Publications(h) : h \in referencedByBlocks \ toVisit}
    IN  IF seen = {} THEN earliestEndorsementIndex = NoEndorsement
        ELSE /\ earliestEndorsementIndex \in seen
             /\ \A j \in seen : earliestEndorsementIndex <= j

=============================================================================
