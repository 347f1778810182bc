---------------------------- MODULE PopScoreMirror ----------------------------
(***************************************************************************)
(* The comparison of PopScore with the roles of the chains exchanged.       *)
(***************************************************************************)
EXTENDS PopScore

Mirror == INSTANCE PopScore WITH viewA <- viewB, viewB <- viewA, A <- B, B <- A

\* comparePopScoreImpl(b, a) takes the same steps as comparePopScoreImpl(a, b),
\* with the chains exchanged: the result does not depend on which chain happens to
\* be the active one.
Symmetric == Mirror!ScoreSpec

=============================================================================
