------------------------------- MODULE PopScore -------------------------------
(***************************************************************************)
(* comparePopScoreImpl (fork_resolution.hpp): the comparison of the reduced *)
(* publication views of the active chain A and of the candidate B, which    *)
(* decides every PoP fork resolution of the ALT and of the VBK tree.        *)
(*                                                                          *)
(* The views start at the same keystone (asserted by the code), so keystone *)
(* heights are replaced by keystone numbers 1, 2, ...  A view is the        *)
(* sequence of the heights of the first publication of each keystone, with  *)
(* NO_ENDORSEMENT for a keystone that nothing endorses.  One step is one    *)
(* iteration of the loop.                                                   *)
(***************************************************************************)
EXTENDS Integers, Sequences

CONSTANTS
    FinalityDelay,        \* getFinalityDelay()
    LookUpTable,          \* getForkResolutionLookUpTable()
    NO_ENDORSEMENT,       \* numeric_limits<int32_t>::max()
    PublicationHeights,
    Views                 \* the publication views

ASSUME ScoreAssumption ==
    /\ FinalityDelay \in Nat
    /\ LookUpTable \in Seq(Nat) /\ Len(LookUpTable) > 0
    /\ LookUpTable[1] > 0
    /\ PublicationHeights \subseteq Nat /\ NO_ENDORSEMENT \in Nat
    /\ \A h \in PublicationHeights : /\ NO_ENDORSEMENT > h + FinalityDelay
                                     /\ NO_ENDORSEMENT >= h + Len(LookUpTable)
    /\ Views \subseteq Seq(PublicationHeights \cup {NO_ENDORSEMENT})

VARIABLES
    viewA, viewB,
    keystone,    \* keystoneToCompare
    A, B,        \* outside finality, score and previous publication of each chain
    done         \* the loop has ended

scoreVars == <<viewA, viewB, keystone, A, B, done>>

publicationViolatesFinality(pubToCheck, base) == pubToCheck - base > FinalityDelay

\* getConsensusScoreFromRelativeBlockStartingAtZero
ConsensusScore(relative) ==
    IF relative < Len(LookUpTable) THEN LookUpTable[relative + 1] ELSE 0

\* a.getKeystone(keystoneToCompare), unless the chain is outside finality
InView(view, c, k) == ~c.outside /\ k \in DOMAIN view

EarliestPublication(view, c, k) == IF InView(view, c, k) THEN view[k] ELSE NO_ENDORSEMENT

\* The keystone of one chain compared with the previous one of the same chain.
Observed(view, c, k) ==
    LET pub == EarliestPublication(view, c, k)
    IN  [c EXCEPT !.outside  = @ \/ (InView(view, c, k)
                                       /\ publicationViolatesFinality(pub, c.previous)),
                  !.previous = pub]

a == Observed(viewA, A, keystone)
b == Observed(viewB, B, keystone)
pubA == a.previous
pubB == b.previous
HasA == InView(viewA, a, keystone)
HasB == InView(viewB, b, keystone)

Scores(c, points) == [c EXCEPT !.score = @ + points]
Leaves(c, cond) == [c EXCEPT !.outside = @ \/ cond]

Start == [outside |-> FALSE, score |-> 0, previous |-> NO_ENDORSEMENT]

\* An empty view is decided without a loop.
ScoreInit ==
    /\ viewA \in Views /\ viewB \in Views
    /\ keystone = 1
    /\ A = Start /\ B = Start
    /\ done = (viewA = <<>> \/ viewB = <<>>)

Iterate == /\ ~done
           /\ keystone <= Len(viewA) \/ keystone <= Len(viewB)
           /\ keystone' = keystone + 1
           /\ UNCHANGED <<viewA, viewB>>

BothMissing ==
    /\ Iterate /\ ~HasA /\ ~HasB
    /\ A' = a /\ B' = b
    /\ done' = (a.outside /\ b.outside)

\* Mutants: the chain that misses the keystone stays within finality; the loop ends
\* although the scores are equal.
OnlyBKeepsA ==
    /\ Iterate /\ ~HasA /\ HasB
    /\ A' = a
    /\ B' = Scores(b, LookUpTable[1])
    /\ done' = (B'.score > A'.score)
OnlyBEnds ==
    /\ Iterate /\ ~HasA /\ HasB
    /\ A' = Leaves(a, TRUE)
    /\ B' = Scores(b, LookUpTable[1])
    /\ done' = TRUE

\* "Chain A is missing the keystone that chain B isn't": A is out of finality.
OnlyB ==
    /\ Iterate /\ ~HasA /\ HasB
    /\ A' = Leaves(a, TRUE)
    /\ B' = Scores(b, LookUpTable[1])
    /\ done' = (B'.score > A'.score)

OnlyA ==
    /\ Iterate /\ HasA /\ ~HasB
    /\ A' = Scores(a, LookUpTable[1])
    /\ B' = Leaves(b, TRUE)
    /\ done' = (A'.score > B'.score)

\* Mutant: a chain far behind the other one stays within finality.
BothStay ==
    LET earliest == IF pubA < pubB THEN pubA ELSE pubB
    IN  /\ Iterate /\ HasA /\ HasB
        /\ A' = Scores(a, ConsensusScore(pubA - earliest))
        /\ B' = Scores(b, ConsensusScore(pubB - earliest))
        /\ UNCHANGED done

BothPresent ==
    LET earliest == IF pubA < pubB THEN pubA ELSE pubB
    IN  /\ Iterate /\ HasA /\ HasB
        /\ A' = Leaves(Scores(a, ConsensusScore(pubA - earliest)),
                       publicationViolatesFinality(pubA, pubB))
        /\ B' = Leaves(Scores(b, ConsensusScore(pubB - earliest)),
                       publicationViolatesFinality(pubB, pubA))
        /\ UNCHANGED done

EndOfViews ==
    /\ ~done
    /\ keystone > Len(viewA) /\ keystone > Len(viewB)
    /\ done' = TRUE
    /\ UNCHANGED <<viewA, viewB, keystone, A, B>>

ScoreNext == BothMissing \/ OnlyB \/ OnlyA \/ BothPresent \/ EndOfViews

ScoreSpec == ScoreInit /\ [][ScoreNext]_scoreVars

\* The result of the comparison: negative when B wins.
Result ==
    IF viewA = <<>> \/ viewB = <<>>
      THEN (IF viewA = <<>> THEN 0 ELSE 1) - (IF viewB = <<>> THEN 0 ELSE 1)
      ELSE A.score - B.score

-----------------------------------------------------------------------------
(* Properties.                                                              *)

Verdicts == [outside : BOOLEAN, score : Nat,
             previous : PublicationHeights \cup {NO_ENDORSEMENT}]

\* Scores never go below zero and the loop stays within the longer view.
ScoreTypeOK ==
    /\ viewA \in Views /\ viewB \in Views
    /\ keystone \in Nat \ {0}
    /\ keystone <= Len(viewA) + 1 \/ keystone <= Len(viewB) + 1
    /\ A \in Verdicts /\ B \in Verdicts
    /\ done \in BOOLEAN

Endorsed(view) == \E i \in DOMAIN view : view[i] # NO_ENDORSEMENT

\* A chain with a published keystone beats every chain without one, however many
\* keystones the other has: the reason to publish.
EndorsedWins ==
    done => /\ Endorsed(viewA) /\ ~Endorsed(viewB) => Result > 0
            /\ Endorsed(viewB) /\ ~Endorsed(viewA) => Result < 0

\* The verdicts c and d on the views v and w after the iteration at keystone k.
Compared(v, w, c, d, k) ==
    LET c1 == Observed(v, c, k)
        d1 == Observed(w, d, k)
        hasC == InView(v, c1, k)
        hasD == InView(w, d1, k)
        p == c1.previous
        q == d1.previous
        e == IF p < q THEN p ELSE q
    IN  IF ~hasC /\ ~hasD THEN <<c1, d1>>
        ELSE IF ~hasC THEN <<Leaves(c1, TRUE), Scores(d1, LookUpTable[1])>>
        ELSE IF ~hasD THEN <<Scores(c1, LookUpTable[1]), Leaves(d1, TRUE)>>
        ELSE <<Leaves(Scores(c1, ConsensusScore(p - e)), publicationViolatesFinality(p, q)),
               Leaves(Scores(d1, ConsensusScore(q - e)), publicationViolatesFinality(q, p))>>

Longer(v, w) == IF Len(v) > Len(w) THEN Len(v) ELSE Len(w)

\* The verdicts after each iteration of a loop without the early exits.  Reference
\* for EarlyExitSound.
Unexited(v, w) ==
    LET after[k \in 0 .. Longer(v, w)] ==
          IF k = 0 THEN <<Start, Start>>
          ELSE Compared(v, w, after[k - 1][1], after[k - 1][2], k)
    IN  after

\* "exit early as the score of A will stay the same": the exits never change who
\* wins.
EarlyExitSound ==
    done /\ viewA # <<>> /\ viewB # <<>> =>
        LET last == Unexited(viewA, viewB)[Longer(viewA, viewB)]
        IN  /\ A.score < B.score <=> last[1].score < last[2].score
            /\ A.score > B.score <=> last[1].score > last[2].score

=============================================================================
