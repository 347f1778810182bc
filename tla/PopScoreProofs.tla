---------------------------- MODULE PopScoreProofs ----------------------------
(***************************************************************************)
(* Theorems about comparePopScoreImpl, for views of any length, any table   *)
(* and any finality delay, and about getKeystoneContext, for any order in   *)
(* which it visits the blocks of proof.                                     *)
(***************************************************************************)
EXTENDS PopScoreMirror, KeystoneContext, NaturalsInduction, WellFoundedInduction, TLAPS

Pubs == PublicationHeights \cup {NO_ENDORSEMENT}

\* The views and heights of ScoreAssumption in the form the proofs use.
LEMMA ViewFacts ==
    /\ \A v \in Views : v \in Seq(Pubs) /\ Len(v) \in Nat
                          /\ \A k \in DOMAIN v : v[k] \in Pubs /\ k \in 1 .. Len(v)
    /\ \A p \in Pubs : p \in Nat
    /\ NO_ENDORSEMENT \in Pubs
    /\ LookUpTable[1] \in Nat /\ LookUpTable[1] > 0
    /\ \A r \in Nat : ConsensusScore(r) \in Nat
<1>1. \A r \in Nat : ConsensusScore(r) \in Nat
  BY ScoreAssumption DEF ConsensusScore
<1>2. ASSUME NEW v \in Views
      PROVE  v \in Seq(Pubs) /\ Len(v) \in Nat
               /\ \A k \in DOMAIN v : v[k] \in Pubs /\ k \in 1 .. Len(v)
  <2>1. v \in Seq(Pubs)
    BY ScoreAssumption DEF Pubs
  <2> QED
    BY <2>1
<1>3. LookUpTable[1] \in Nat /\ LookUpTable[1] > 0
  BY ScoreAssumption
<1>4. \A p \in Pubs : p \in Nat
  BY ScoreAssumption DEF Pubs
<1> QED
  BY <1>1, <1>2, <1>3, <1>4 DEF Pubs

\* Observed records a publication height and changes neither view nor score.
LEMMA ObservedFacts ==
    ASSUME NEW v \in Views, NEW c \in Verdicts, NEW k \in Nat
    PROVE  /\ Observed(v, c, k) \in Verdicts
           /\ Observed(v, c, k).score = c.score
           /\ Observed(v, c, k).previous = EarliestPublication(v, c, k)
           /\ InView(v, Observed(v, c, k), k) => InView(v, c, k)
           /\ c.outside => Observed(v, c, k).outside
<1>1. EarliestPublication(v, c, k) \in Pubs
  BY ViewFacts DEF EarliestPublication, InView
<1> QED
  BY <1>1 DEF Observed, Verdicts, InView, Pubs, publicationViolatesFinality

\* Scoring changes the score and leaving finality the flag, nothing else.
LEMMA ScoresFacts ==
    ASSUME NEW c \in Verdicts, NEW n \in Nat
    PROVE  /\ Scores(c, n) \in Verdicts /\ Scores(c, n).score = c.score + n
           /\ Scores(c, n).outside <=> c.outside
           /\ Scores(c, n).previous = c.previous
BY DEF Scores, Verdicts

\* The same for leaving finality.
LEMMA LeavesFacts ==
    ASSUME NEW c \in Verdicts, NEW t \in BOOLEAN
    PROVE  /\ Leaves(c, t) \in Verdicts /\ Leaves(c, t).score = c.score
           /\ Leaves(c, t).outside <=> c.outside \/ t
           /\ Leaves(c, t).previous = c.previous
BY DEF Leaves, Verdicts

\* Every iteration keeps the loop variables in range.
LEMMA NextType ==
    ASSUME ScoreTypeOK, [ScoreNext]_scoreVars
    PROVE  ScoreTypeOK'
<1>1. viewA \in Views /\ viewB \in Views /\ keystone \in Nat \ {0}
      /\ A \in Verdicts /\ B \in Verdicts /\ done \in BOOLEAN
  BY DEF ScoreTypeOK
<1>2. a \in Verdicts /\ b \in Verdicts /\ pubA \in Nat /\ pubB \in Nat
  <2>1. a \in Verdicts /\ b \in Verdicts
    BY <1>1, ObservedFacts DEF a, b
  <2> QED
    BY <2>1, ViewFacts DEF Verdicts, pubA, pubB, Pubs
<1>3. ASSUME Iterate, A' \in Verdicts, B' \in Verdicts, done' \in BOOLEAN PROVE ScoreTypeOK'
  BY <1>1, <1>3, ViewFacts DEF Iterate, ScoreTypeOK
<1>4. CASE BothMissing
  BY <1>2, <1>3, <1>4, <1>1 DEF BothMissing, Verdicts
<1>5. CASE OnlyB
  <2>1. A' \in Verdicts /\ B' \in Verdicts
    BY <1>2, <1>5, ViewFacts, ScoresFacts, LeavesFacts DEF OnlyB
  <2> QED
    BY <2>1, <1>3, <1>5 DEF OnlyB
<1>6. CASE OnlyA
  <2>1. A' \in Verdicts /\ B' \in Verdicts
    BY <1>2, <1>6, ViewFacts, ScoresFacts, LeavesFacts DEF OnlyA
  <2> QED
    BY <2>1, <1>3, <1>6 DEF OnlyA
<1>7. CASE BothPresent
  <2> DEFINE e == IF pubA < pubB THEN pubA ELSE pubB
  <2>1. ConsensusScore(pubA - e) \in Nat /\ ConsensusScore(pubB - e) \in Nat
    BY <1>2, ViewFacts
  <2>2. Scores(a, ConsensusScore(pubA - e)) \in Verdicts
        /\ Scores(b, ConsensusScore(pubB - e)) \in Verdicts
    BY <2>1, <1>2, ScoresFacts, LeavesFacts
  <2>3. publicationViolatesFinality(pubA, pubB) \in BOOLEAN
        /\ publicationViolatesFinality(pubB, pubA) \in BOOLEAN
    BY DEF publicationViolatesFinality
  <2>4. A' = Leaves(Scores(a, ConsensusScore(pubA - e)), publicationViolatesFinality(pubA, pubB))
        /\ B' = Leaves(Scores(b, ConsensusScore(pubB - e)), publicationViolatesFinality(pubB, pubA))
        /\ Iterate /\ done' = done
    BY <1>7 DEF BothPresent
  <2>5. A' \in Verdicts /\ B' \in Verdicts
    BY <2>2, <2>3, <2>4, ScoresFacts, LeavesFacts
  <2> QED
    BY <2>4, <2>5, <1>1, <1>3
<1>8. CASE EndOfViews
  BY <1>1, <1>8 DEF EndOfViews, ScoreTypeOK
<1>9. CASE UNCHANGED scoreVars
  BY <1>9 DEF scoreVars, ScoreTypeOK
<1> QED
  BY <1>4, <1>5, <1>6, <1>7, <1>8, <1>9 DEF ScoreNext

\* Type correctness of the loop.
THEOREM ScoreTypes == ScoreSpec => []ScoreTypeOK
<1>1. ScoreInit => ScoreTypeOK
  BY ViewFacts DEF ScoreInit, ScoreTypeOK, Start, Verdicts, Pubs
<1>2. ScoreTypeOK /\ [ScoreNext]_scoreVars => ScoreTypeOK'
  BY NextType
<1> QED
  BY <1>1, <1>2, PTL DEF ScoreSpec

-----------------------------------------------------------------------------
(* The two chains are treated alike.                                        *)

\* Exchanging the chains exchanges OnlyA and OnlyB and keeps the other steps.
LEMMA MirrorStep == ScoreTypeOK /\ ScoreNext => Mirror!ScoreNext
<1> SUFFICES ASSUME ScoreTypeOK, ScoreNext PROVE Mirror!ScoreNext
  OBVIOUS
<1>1. Mirror!a = b /\ Mirror!b = a /\ Mirror!pubA = pubB /\ Mirror!pubB = pubA
      /\ (Mirror!HasA <=> HasB) /\ (Mirror!HasB <=> HasA)
  BY DEF a, b, pubA, pubB, HasA, HasB, Mirror!a, Mirror!b, Mirror!pubA, Mirror!pubB,
     Mirror!HasA, Mirror!HasB, Mirror!Observed, Observed, Mirror!InView, InView,
     Mirror!EarliestPublication, EarliestPublication, publicationViolatesFinality,
     Mirror!publicationViolatesFinality
<1>2. Iterate <=> Mirror!Iterate
  BY DEF Iterate, Mirror!Iterate
<1>3. \A c, n : Mirror!Scores(c, n) = Scores(c, n) /\ Mirror!Leaves(c, n) = Leaves(c, n)
  BY DEF Scores, Leaves, Mirror!Scores, Mirror!Leaves
<1>4. CASE BothMissing
  BY <1>1, <1>2, <1>4 DEF BothMissing, Mirror!BothMissing, Mirror!ScoreNext
<1>5. CASE OnlyB
  BY <1>1, <1>2, <1>3, <1>5 DEF OnlyB, Mirror!OnlyA, Mirror!ScoreNext
<1>6. CASE OnlyA
  BY <1>1, <1>2, <1>3, <1>6 DEF OnlyA, Mirror!OnlyB, Mirror!ScoreNext
<1>7. CASE BothPresent
  <2>1. pubA \in Nat /\ pubB \in Nat
    <3>1. a \in Verdicts /\ b \in Verdicts
      BY ObservedFacts DEF a, b, ScoreTypeOK
    <3> QED
      BY <3>1, ViewFacts DEF Verdicts, pubA, pubB, Pubs
  <2>2. (IF pubA < pubB THEN pubA ELSE pubB) = (IF pubB < pubA THEN pubB ELSE pubA)
    BY <2>1
  <2>3. \A r : Mirror!ConsensusScore(r) = ConsensusScore(r)
    BY DEF ConsensusScore, Mirror!ConsensusScore
  <2>4. \A p, q : Mirror!publicationViolatesFinality(p, q) = publicationViolatesFinality(p, q)
    BY DEF publicationViolatesFinality, Mirror!publicationViolatesFinality
  <2> QED
    BY <1>1, <1>2, <1>3, <1>7, <2>2, <2>3, <2>4 DEF BothPresent, Mirror!BothPresent, Mirror!ScoreNext
<1>8. CASE EndOfViews
  BY <1>8 DEF EndOfViews, Mirror!EndOfViews, Mirror!ScoreNext
<1> QED
  BY <1>4, <1>5, <1>6, <1>7, <1>8 DEF ScoreNext

\* comparePopScoreImpl(a, b) and comparePopScoreImpl(b, a) take the same steps with
\* the chains exchanged, so who wins does not depend on which chain is active.
THEOREM Symmetry == ScoreSpec => Symmetric
<1>1. ScoreInit => Mirror!ScoreInit
  BY DEF ScoreInit, Mirror!ScoreInit, Start, Mirror!Start
<1>2. ScoreTypeOK /\ [ScoreNext]_scoreVars => [Mirror!ScoreNext]_(Mirror!scoreVars)
  <2>1. UNCHANGED scoreVars => UNCHANGED Mirror!scoreVars
    BY DEF scoreVars, Mirror!scoreVars
  <2> QED
    BY <2>1, MirrorStep
<1> QED
  BY <1>1, <1>2, ScoreTypes, PTL DEF ScoreSpec, Mirror!ScoreSpec, Symmetric

-----------------------------------------------------------------------------
(* A published chain beats an unpublished one.                              *)

\* A publication of the view lies among the keystones compared so far.
Seen(view, k) == \E i \in DOMAIN view : i < k /\ view[i] # NO_ENDORSEMENT

\* c has a published keystone, d has none.  Until the first one is reached the
\* chains score alike; then d leaves finality and stays behind for good.
Ahead(viewC, c, viewD, d, k, end) ==
    Endorsed(viewC) /\ ~Endorsed(viewD) /\ viewC # <<>> /\ viewD # <<>> =>
      /\ Seen(viewC, k) => c.score > d.score /\ (d.outside \/ end)
      /\ ~Seen(viewC, k) /\ ~end =>
            /\ c.score = d.score /\ ~c.outside /\ ~d.outside
            /\ c.previous = NO_ENDORSEMENT /\ d.previous = NO_ENDORSEMENT
      /\ end => c.score > d.score

WinsInv == /\ Ahead(viewA, A, viewB, B, keystone, done)
           /\ Ahead(viewB, B, viewA, A, keystone, done)

\* How one iteration at keystone k takes the verdicts c, d to c2, d2: the four
\* iteration steps, for either assignment of the chains.
Iteration(viewC, c, viewD, d, k, c2, d2, end2) ==
    LET o == Observed(viewC, c, k)
        p == Observed(viewD, d, k)
        hasC == InView(viewC, o, k)
        hasD == InView(viewD, p, k)
        e == IF o.previous < p.previous THEN o.previous ELSE p.previous
    IN  \/ ~hasC /\ ~hasD /\ c2 = o /\ d2 = p /\ (end2 <=> o.outside /\ p.outside)
        \/ ~hasC /\ hasD /\ c2 = Leaves(o, TRUE) /\ d2 = Scores(p, LookUpTable[1])
             /\ (end2 <=> d2.score > c2.score)
        \/ hasC /\ ~hasD /\ c2 = Scores(o, LookUpTable[1]) /\ d2 = Leaves(p, TRUE)
             /\ (end2 <=> c2.score > d2.score)
        \/ /\ hasC /\ hasD /\ ~end2
           /\ c2 = Leaves(Scores(o, ConsensusScore(o.previous - e)),
                          publicationViolatesFinality(o.previous, p.previous))
           /\ d2 = Leaves(Scores(p, ConsensusScore(p.previous - e)),
                          publicationViolatesFinality(p.previous, o.previous))

\* An iteration keeps the published chain ahead.
LEMMA IterationAhead ==
    ASSUME NEW v \in Views, NEW w \in Views, NEW c \in Verdicts, NEW d \in Verdicts,
           NEW k \in Nat \ {0}, k <= Len(v) \/ k <= Len(w),
           NEW c2, NEW d2, NEW end2 \in BOOLEAN,
           Ahead(v, c, w, d, k, FALSE), Iteration(v, c, w, d, k, c2, d2, end2)
    PROVE  Ahead(v, c2, w, d2, k + 1, end2)
<1> SUFFICES ASSUME Endorsed(v), ~Endorsed(w), v # <<>>, w # <<>>
             PROVE  /\ Seen(v, k + 1) => c2.score > d2.score /\ (d2.outside \/ end2)
                    /\ ~Seen(v, k + 1) /\ ~end2 =>
                          /\ c2.score = d2.score /\ ~c2.outside /\ ~d2.outside
                          /\ c2.previous = NO_ENDORSEMENT /\ d2.previous = NO_ENDORSEMENT
                    /\ end2 => c2.score > d2.score
  BY DEF Ahead
<1> DEFINE o == Observed(v, c, k)
           p == Observed(w, d, k)
           e == IF o.previous < p.previous THEN o.previous ELSE p.previous
           T == LookUpTable[1]
<1>1. /\ o \in Verdicts /\ p \in Verdicts /\ o.score = c.score /\ p.score = d.score
      /\ o.previous = EarliestPublication(v, c, k) /\ p.previous = EarliestPublication(w, d, k)
      /\ c.outside => o.outside
      /\ d.outside => p.outside
  BY ObservedFacts
<1>2. /\ c.score \in Nat /\ d.score \in Nat /\ T \in Nat /\ T > 0
      /\ o.previous \in Pubs /\ p.previous \in Pubs /\ o.previous \in Nat /\ p.previous \in Nat
  BY <1>1, ViewFacts DEF Verdicts, Pubs
<1>3. p.previous = NO_ENDORSEMENT
  BY <1>1 DEF Endorsed, EarliestPublication, InView
<1>4. InView(w, p, k) <=> ~p.outside /\ k \in DOMAIN w
  BY DEF InView
<1>5. InView(v, o, k) <=> ~o.outside /\ k \in DOMAIN v
  BY DEF InView
<1> HIDE DEF o, p, e, T
<1>8. Scores(o, T).score = c.score + T /\ Leaves(p, TRUE).score = d.score
      /\ Leaves(p, TRUE).outside
  <2>1. Scores(o, T).score = o.score + T
    BY <1>1, <1>2, ScoresFacts
  <2>2. Leaves(p, TRUE).score = p.score /\ Leaves(p, TRUE).outside
    BY <1>1, LeavesFacts
  <2> QED
    BY <2>1, <2>2, <1>1
<1>6. CASE Seen(v, k)
  <2>1. c.score > d.score /\ d.outside
    BY <1>6 DEF Ahead
  <2>2. Seen(v, k + 1)
    BY <1>6, ViewFacts DEF Seen
  <2>3. p.outside /\ ~InView(w, p, k)
    BY <2>1, <1>1, <1>4
  <2>4. CASE c2 = o /\ d2 = p
    BY <2>1, <2>2, <2>3, <2>4, <1>1
  <2>5. CASE c2 = Scores(o, T) /\ d2 = Leaves(p, TRUE) /\ (end2 <=> c2.score > d2.score)
    <3>1. c2.score = c.score + T /\ d2.score = d.score /\ d2.outside
      BY <2>5, <1>8
    <3> QED
      BY <3>1, <2>1, <2>2, <2>5, <1>2
  <2> QED
    BY <2>3, <2>4, <2>5 DEF Iteration, o, p, T
<1>7. CASE ~Seen(v, k)
  <2>1. c.score = d.score /\ ~c.outside /\ ~d.outside
        /\ c.previous = NO_ENDORSEMENT /\ d.previous = NO_ENDORSEMENT
    BY <1>7 DEF Ahead
  \* the unseen publication is at k or later
  <2>2. k \in DOMAIN v
    <3>1. PICK i \in DOMAIN v : v[i] # NO_ENDORSEMENT
      BY DEF Endorsed
    <3>2. i \in 1 .. Len(v) /\ ~(i < k) /\ Len(v) \in Nat /\ v \in Seq(Pubs)
      BY <3>1, <1>7, ViewFacts DEF Seen
    <3>3. k \in 1 .. Len(v)
      BY <3>2
    <3> QED
      BY <3>2, <3>3
  <2>3. o.previous = v[k]
    BY <2>1, <2>2, <1>1 DEF EarliestPublication, InView
  <2>4. ~publicationViolatesFinality(o.previous, NO_ENDORSEMENT)
        /\ ~publicationViolatesFinality(NO_ENDORSEMENT, NO_ENDORSEMENT)
    BY <1>2, ScoreAssumption DEF publicationViolatesFinality, Pubs
  <2>5. ~o.outside
    BY <2>1, <2>3, <2>4, <1>1 DEF o, Observed, Verdicts
  <2>6. ~p.outside
    BY <2>1, <2>4, <1>1, <1>3 DEF p, Observed, Verdicts
  <2>7. InView(v, o, k)
    BY <1>5, <2>2, <2>5
  <2>8. Seen(v, k + 1) <=> v[k] # NO_ENDORSEMENT
    <3>1. \A i \in DOMAIN v : i < k + 1 <=> i < k \/ i = k
      <4>1. \A i \in DOMAIN v : i \in Nat
        BY ViewFacts
      <4> QED
        BY <4>1
    <3> QED
      BY <3>1, <2>2, <1>7 DEF Seen
  <2>9. CASE ~InView(w, p, k)
    <3>1. c2 = Scores(o, T) /\ d2 = Leaves(p, TRUE) /\ (end2 <=> c2.score > d2.score)
      BY <2>7, <2>9 DEF Iteration, o, p, T
    <3>2. c2.score = c.score + T /\ d2.score = d.score /\ d2.outside
      BY <3>1, <1>8
    <3>3. c2.score > d2.score
      <4>1. c2.score = d.score + T
        BY <3>2, <2>1

      <4> QED
        BY <4>1, <3>2, <1>2
    <3>4. end2 /\ d2.outside
      BY <3>1, <3>2, <3>3
    <3> QED
      BY <3>3, <3>4
  <2>10. CASE InView(w, p, k)
    <3> DEFINE x == ConsensusScore(o.previous - e)
               y == ConsensusScore(p.previous - e)
    <3>1. /\ c2 = Leaves(Scores(o, x), publicationViolatesFinality(o.previous, p.previous))
          /\ d2 = Leaves(Scores(p, y), publicationViolatesFinality(p.previous, o.previous))
          /\ ~end2
      BY <2>7, <2>10 DEF Iteration, o, p, e
    <3>2. o.previous <= p.previous /\ e = o.previous
      BY <1>2, <1>3, ScoreAssumption DEF e, Pubs
    <3>3. o.previous - e = 0 /\ x = T
      BY <3>2, <1>2, ScoreAssumption DEF ConsensusScore, T
    <3>4. x \in Nat /\ y \in Nat
      <4>1. o.previous - e \in Nat /\ p.previous - e \in Nat
        BY <3>2, <1>2
      <4> QED
        BY <4>1, ViewFacts
    <3> HIDE DEF x, y
    <3>5. Scores(o, x) \in Verdicts /\ Scores(o, x).score = c.score + x
          /\ ~Scores(o, x).outside /\ Scores(o, x).previous = o.previous
      <4>1. /\ Scores(o, x) \in Verdicts /\ Scores(o, x).score = o.score + x
            /\ Scores(o, x).outside <=> o.outside
            /\ Scores(o, x).previous = o.previous
        BY <3>4, <1>1, ScoresFacts
      <4> QED
        BY <4>1, <1>1, <2>5
    <3>10. Scores(p, y) \in Verdicts /\ Scores(p, y).score = d.score + y
          /\ ~Scores(p, y).outside /\ Scores(p, y).previous = p.previous
      <4>1. /\ Scores(p, y) \in Verdicts /\ Scores(p, y).score = p.score + y
            /\ Scores(p, y).outside <=> p.outside
            /\ Scores(p, y).previous = p.previous
        BY <3>4, <1>1, ScoresFacts
      <4> QED
        BY <4>1, <1>1, <2>6
    <3>6. publicationViolatesFinality(o.previous, p.previous) \in BOOLEAN
          /\ publicationViolatesFinality(p.previous, o.previous) \in BOOLEAN
      BY DEF publicationViolatesFinality
    <3>11. /\ c2.score = c.score + x /\ c2.previous = o.previous
           /\ c2.outside <=> publicationViolatesFinality(o.previous, p.previous)
      <4> DEFINE s == Scores(o, x)
                 t == publicationViolatesFinality(o.previous, p.previous)
      <4> HIDE DEF s, t
      <4>1. /\ Leaves(s, t).score = s.score /\ Leaves(s, t).previous = s.previous
            /\ Leaves(s, t).outside <=> s.outside \/ t
        BY <3>5, <3>6, LeavesFacts DEF s, t
      <4> QED
        BY <4>1, <3>1, <3>5 DEF s, t
    <3>12. /\ d2.score = d.score + y /\ d2.previous = p.previous
           /\ d2.outside <=> publicationViolatesFinality(p.previous, o.previous)
      <4> DEFINE s == Scores(p, y)
                 t == publicationViolatesFinality(p.previous, o.previous)
      <4> HIDE DEF s, t
      <4>1. /\ Leaves(s, t).score = s.score /\ Leaves(s, t).previous = s.previous
            /\ Leaves(s, t).outside <=> s.outside \/ t
        BY <3>10, <3>6, LeavesFacts DEF s, t
      <4> QED
        BY <4>1, <3>1, <3>10 DEF s, t
    <3>8. CASE v[k] = NO_ENDORSEMENT
      <4>1. y = T
        BY <3>2, <3>3, <3>8, <2>3, <1>3 DEF x, y
      <4> QED
        BY <4>1, <3>1, <3>3, <3>11, <3>12, <3>8, <2>1, <2>3, <2>4, <2>8, <1>2, <1>3
    <3>9. CASE v[k] # NO_ENDORSEMENT
      <4>1. o.previous \in PublicationHeights
        BY <3>9, <2>3, <1>2 DEF Pubs
      <4>2. p.previous - e >= Len(LookUpTable) /\ publicationViolatesFinality(p.previous, o.previous)
        BY <4>1, <3>2, <1>2, <1>3, ScoreAssumption DEF publicationViolatesFinality
      <4>3. y = 0
        BY <4>2, <1>2, <3>2, ScoreAssumption DEF ConsensusScore, y
      <4>4. c2.score > d2.score
        <5>1. c2.score = d.score + T /\ d2.score = d.score + 0
          BY <4>3, <3>3, <3>11, <3>12, <2>1
        <5> QED
          BY <5>1, <1>2
      <4>5. d2.outside /\ ~end2 /\ Seen(v, k + 1)
        BY <4>2, <3>1, <3>12, <3>9, <2>8
      <4> QED
        BY <4>4, <4>5
    <3> QED
      BY <3>8, <3>9
  <2> QED
    BY <2>9, <2>10
<1> QED
  BY <1>6, <1>7

\* The four iteration steps are iterations of (A, B) and of (B, A).
LEMMA StepIsIteration ==
    ASSUME ScoreTypeOK, BothMissing \/ OnlyB \/ OnlyA \/ BothPresent
    PROVE  /\ Iteration(viewA, A, viewB, B, keystone, A', B', done')
           /\ Iteration(viewB, B, viewA, A, keystone, B', A', done')
<1>1. a \in Verdicts /\ b \in Verdicts /\ pubA \in Nat /\ pubB \in Nat /\ done \in BOOLEAN
  <2>1. a \in Verdicts /\ b \in Verdicts /\ done \in BOOLEAN
    BY ObservedFacts DEF a, b, ScoreTypeOK
  <2> QED
    BY <2>1, ViewFacts DEF Verdicts, pubA, pubB, Pubs
<1>2. CASE BothMissing
  BY <1>2 DEF BothMissing, Iteration, a, b, HasA, HasB
<1>3. CASE OnlyB
  BY <1>3 DEF OnlyB, Iteration, a, b, HasA, HasB
<1>4. CASE OnlyA
  BY <1>4 DEF OnlyA, Iteration, a, b, HasA, HasB
<1>5. CASE BothPresent
  <2>1. (IF pubA < pubB THEN pubA ELSE pubB) = (IF pubB < pubA THEN pubB ELSE pubA)
    BY <1>1
  <2>2. ~done'
    BY <1>5 DEF BothPresent, Iterate
  <2>3. Iteration(viewA, A, viewB, B, keystone, A', B', done')
    BY <1>5, <2>2 DEF BothPresent, Iteration, a, b, HasA, HasB, pubA, pubB
  <2>4. Iteration(viewB, B, viewA, A, keystone, B', A', done')
    BY <1>5, <2>1, <2>2 DEF BothPresent, Iteration, a, b, HasA, HasB, pubA, pubB
  <2> QED
    BY <2>3, <2>4
<1> QED
  BY <1>2, <1>3, <1>4, <1>5

\* Every step keeps the published chain ahead; when the views are exhausted its
\* publication has been seen.
LEMMA NextWins ==
    ASSUME ScoreTypeOK, WinsInv, [ScoreNext]_scoreVars
    PROVE  WinsInv'
<1>1. viewA \in Views /\ viewB \in Views /\ keystone \in Nat \ {0}
      /\ A \in Verdicts /\ B \in Verdicts /\ done \in BOOLEAN
  BY DEF ScoreTypeOK
<1>2. CASE BothMissing \/ OnlyB \/ OnlyA \/ BothPresent
  <2>1. /\ ~done /\ (keystone <= Len(viewA) \/ keystone <= Len(viewB))
        /\ keystone' = keystone + 1 /\ viewA' = viewA /\ viewB' = viewB
    BY <1>2 DEF BothMissing, OnlyB, OnlyA, BothPresent, Iterate
  <2>2. done' \in BOOLEAN
    <3>1. ScoreTypeOK'
      BY <1>2, NextType DEF ScoreNext
    <3> QED
      BY <3>1 DEF ScoreTypeOK
  <2>3. Ahead(viewA, A, viewB, B, keystone, FALSE) /\ Ahead(viewB, B, viewA, A, keystone, FALSE)
    <3>1. done = FALSE
      BY <1>1, <2>1
    <3> QED
      BY <3>1 DEF WinsInv
  <2>4. Ahead(viewA, A', viewB, B', keystone + 1, done')
    BY <1>1, <1>2, <2>1, <2>2, <2>3, StepIsIteration, IterationAhead
  <2>5. Ahead(viewB, B', viewA, A', keystone + 1, done')
    BY <1>1, <1>2, <2>1, <2>2, <2>3, StepIsIteration, IterationAhead
  <2> QED
    BY <2>1, <2>4, <2>5 DEF WinsInv
<1>3. CASE EndOfViews
  <2>1. /\ ~done /\ keystone > Len(viewA) /\ keystone > Len(viewB) /\ done' = TRUE
        /\ viewA' = viewA /\ viewB' = viewB /\ keystone' = keystone /\ A' = A /\ B' = B
    BY <1>3 DEF EndOfViews
  <2>2. ASSUME NEW v \in Views, keystone > Len(v), Endorsed(v) PROVE Seen(v, keystone)
    <3>1. PICK i \in DOMAIN v : v[i] # NO_ENDORSEMENT
      BY <2>2 DEF Endorsed
    <3>2. i \in 1 .. Len(v) /\ Len(v) \in Nat
      BY <3>1, ViewFacts
    <3>3. i < keystone
      BY <3>2, <2>2, <1>1
    <3> QED
      BY <3>1, <3>3 DEF Seen
  <2>3. Ahead(viewA, A, viewB, B, keystone, TRUE)
    BY <1>1, <2>1, <2>2 DEF WinsInv, Ahead
  <2>4. Ahead(viewB, B, viewA, A, keystone, TRUE)
    BY <1>1, <2>1, <2>2 DEF WinsInv, Ahead
  <2> QED
    BY <2>1, <2>3, <2>4 DEF WinsInv
<1>4. CASE UNCHANGED scoreVars
  BY <1>4 DEF scoreVars, WinsInv
<1> QED
  BY <1>2, <1>3, <1>4 DEF ScoreNext

\* Whatever the lengths of the views, the lookup table and the finality delay, a
\* chain with a published keystone beats a chain without one.
THEOREM EndorsedWinsTheorem == ScoreSpec => []EndorsedWins
<1>1. ScoreInit => WinsInv
  <2> SUFFICES ASSUME ScoreInit PROVE WinsInv
    OBVIOUS
  <2>1. ASSUME NEW v \in Views PROVE ~Seen(v, 1)
    <3>1. \A i \in DOMAIN v : ~(i < 1)
      BY ViewFacts
    <3> QED
      BY <3>1 DEF Seen
  <2>2. viewA \in Views /\ viewB \in Views /\ keystone = 1 /\ A = Start /\ B = Start
        /\ (done <=> viewA = <<>> \/ viewB = <<>>)
    BY DEF ScoreInit
  <2>3. Start.score = 0 /\ ~Start.outside /\ Start.previous = NO_ENDORSEMENT
    BY DEF Start
  <2> QED
    BY <2>1, <2>2, <2>3 DEF WinsInv, Ahead
<1>2. ScoreTypeOK /\ WinsInv /\ [ScoreNext]_scoreVars => WinsInv'
  BY NextWins
<1>3. ScoreTypeOK /\ WinsInv => EndorsedWins
  <2> SUFFICES ASSUME ScoreTypeOK, WinsInv, done PROVE
        /\ Endorsed(viewA) /\ ~Endorsed(viewB) => Result > 0
        /\ Endorsed(viewB) /\ ~Endorsed(viewA) => Result < 0
    BY DEF EndorsedWins
  <2>1. \A v : Endorsed(v) => v # <<>>
    BY DEF Endorsed
  <2>2. A.score \in Nat /\ B.score \in Nat
    BY DEF ScoreTypeOK, Verdicts
  <2>3. CASE viewA = <<>> \/ viewB = <<>>
    BY <2>1, <2>3 DEF Result
  <2>4. CASE viewA # <<>> /\ viewB # <<>>
    <3>1. Endorsed(viewA) /\ ~Endorsed(viewB) => A.score > B.score
      BY <2>4 DEF WinsInv, Ahead
    <3>2. Endorsed(viewB) /\ ~Endorsed(viewA) => B.score > A.score
      BY <2>4 DEF WinsInv, Ahead
    <3> QED
      BY <3>1, <3>2, <2>2, <2>4 DEF Result
  <2> QED
    BY <2>3, <2>4
<1> QED
  BY <1>1, <1>2, <1>3, ScoreTypes, PTL DEF ScoreSpec

-----------------------------------------------------------------------------
(* Induction over keystones.                                                *)

\* Every set of naturals has a least element: induction by least counterexample.
LEMMA LeastNumber ==
    ASSUME NEW S \in SUBSET Nat, S # {}
    PROVE  \E n \in S : \A m \in S : n <= m
<1>1. IsWellFoundedOn(OpToRel(<, Nat), Nat)
  BY NatLessThanWellFounded
<1>2. PICK n \in S : \A m \in S : ~(<<m, n>> \in OpToRel(<, Nat))
  BY <1>1, WFMin
<1>3. \A m \in S : ~(m < n)
  BY <1>2 DEF OpToRel
<1>4. S \subseteq Nat
  OBVIOUS
<1> QED
  BY <1>3, <1>4

-----------------------------------------------------------------------------
(* The early exits of the loop.                                             *)

\* The loop without exits is well defined: its verdicts exist for views of any
\* length.
LEMMA UnexitedUnfolds ==
    ASSUME NEW v \in Views, NEW w \in Views
    PROVE  /\ Longer(v, w) \in Nat
           /\ Unexited(v, w)[0] = <<Start, Start>>
           /\ \A k \in 1 .. Longer(v, w) :
                 Unexited(v, w)[k] = Compared(v, w, Unexited(v, w)[k - 1][1],
                                              Unexited(v, w)[k - 1][2], k)
<1> DEFINE C(x, k) == Compared(v, w, x[1], x[2], k)
           D(f, k) == IF k = 0 THEN <<Start, Start>> ELSE C(f[k - 1], k)
           Exists(n) == \E f : f = [k \in 0 .. n |-> D(f, k)]
           missing == {n \in Nat : ~Exists(n)}
<1>1. Longer(v, w) \in Nat
  BY ViewFacts DEF Longer
<1>2. missing = {}
  <2> SUFFICES ASSUME missing # {} PROVE FALSE
    OBVIOUS
  <2>1. PICK n \in missing : \A m \in missing : n <= m
    <3>1. missing \in SUBSET Nat
      OBVIOUS
    <3> QED
      BY <3>1, LeastNumber
  <2>2. n \in Nat /\ ~Exists(n)
    OBVIOUS
  <2> HIDE DEF C
  <2>3. CASE n = 0
    <3> DEFINE f == [k \in 0 .. 0 |-> <<Start, Start>>]
    <3>1. f = [k \in 0 .. 0 |-> D(f, k)]
      OBVIOUS
    <3> HIDE DEF f
    <3>2. Exists(0)
      BY <3>1
    <3>3. Exists(n)
      BY <3>2, <2>3
    <3> HIDE DEF Exists
    <3> QED
      BY <3>3, <2>2
  <2>4. CASE n # 0
    <3>1. n - 1 \in Nat /\ n - 1 \notin missing
      <4> HIDE DEF missing
      <4>1. n - 1 \in Nat /\ ~(n <= n - 1)
        BY <2>2, <2>4
      <4> QED
        BY <4>1, <2>1
    <3>2. PICK f : f = [k \in 0 .. n - 1 |-> D(f, k)]
      BY <3>1
    <3> DEFINE g == [k \in 0 .. n |-> IF k = n THEN C(f[n - 1], n) ELSE f[k]]
    <3>3. ASSUME NEW k \in 0 .. n PROVE g[k] = D(g, k)
      <4>1. CASE k = 0
        BY <3>2, <4>1, <2>2, <2>4
      <4>2. CASE k # 0
        <5>1. k - 1 \in 0 .. n /\ k - 1 # n /\ g[k - 1] = f[k - 1]
          BY <4>2, <2>2
        <5>2. CASE k = n
          BY <5>1, <5>2, <4>2
        <5>3. CASE k # n
          <6>1. k \in 0 .. n - 1
            BY <5>3, <2>2
          <6>2. f[k] = D(f, k)
            BY <6>1, <3>2
          <6> QED
            BY <6>2, <5>1, <5>3, <4>2
        <5> QED
          BY <5>2, <5>3
      <4> QED
        BY <4>1, <4>2
    <3>4. g = [k \in 0 .. n |-> g[k]]
      OBVIOUS
    <3> HIDE DEF g
    <3>5. g = [k \in 0 .. n |-> D(g, k)]
      BY <3>3, <3>4
    <3> QED
      BY <3>5, <2>2
  <2> QED
    BY <2>3, <2>4
<1>3. Exists(Longer(v, w))
  BY <1>1, <1>2
<1> DEFINE u == CHOOSE f : f = [k \in 0 .. Longer(v, w) |-> D(f, k)]
<1>4. u = [k \in 0 .. Longer(v, w) |-> D(u, k)]
  BY <1>3
<1>5. u = Unexited(v, w)
  BY DEF Unexited
<1> HIDE DEF u
<1>6. u[0] = <<Start, Start>> /\ \A k \in 1 .. Longer(v, w) : u[k] = C(u[k - 1], k)
  BY <1>1, <1>4
<1> QED
  BY <1>1, <1>5, <1>6

\* An iteration never lowers a score, and a chain that is outside finality stays
\* there and scores no more.
LEMMA ComparedFacts ==
    ASSUME NEW v \in Views, NEW w \in Views, NEW c \in Verdicts, NEW d \in Verdicts,
           NEW k \in Nat
    PROVE  /\ Compared(v, w, c, d, k) \in Verdicts \X Verdicts
           /\ Compared(v, w, c, d, k)[1].score >= c.score
           /\ Compared(v, w, c, d, k)[2].score >= d.score
           /\ c.outside => /\ Compared(v, w, c, d, k)[1].outside
                           /\ Compared(v, w, c, d, k)[1].score = c.score
           /\ d.outside => /\ Compared(v, w, c, d, k)[2].outside
                           /\ Compared(v, w, c, d, k)[2].score = d.score
<1> DEFINE o == Observed(v, c, k)
           p == Observed(w, d, k)
           e == IF o.previous < p.previous THEN o.previous ELSE p.previous
           x == ConsensusScore(o.previous - e)
           y == ConsensusScore(p.previous - e)
           s == publicationViolatesFinality(o.previous, p.previous)
           t == publicationViolatesFinality(p.previous, o.previous)
           T == LookUpTable[1]
           lo == Leaves(o, TRUE)
           lp == Leaves(p, TRUE)
<1>1. /\ o \in Verdicts /\ p \in Verdicts /\ o.score = c.score /\ p.score = d.score
      /\ c.outside => o.outside
      /\ d.outside => p.outside
  BY ObservedFacts
<1>2. o.previous \in Nat /\ p.previous \in Nat /\ c.score \in Nat /\ d.score \in Nat
      /\ T \in Nat
  BY <1>1, ViewFacts DEF Verdicts, Pubs
<1>3. x \in Nat /\ y \in Nat /\ s \in BOOLEAN /\ t \in BOOLEAN
  <2>1. o.previous - e \in Nat /\ p.previous - e \in Nat
    BY <1>2
  <2>2. x \in Nat /\ y \in Nat
    BY <2>1, ViewFacts
  <2> QED
    BY <2>2 DEF publicationViolatesFinality
<1>4. InView(v, o, k) => ~c.outside
  BY <1>1 DEF InView
<1>5. InView(w, p, k) => ~d.outside
  BY <1>1 DEF InView
<1>6. \/ Compared(v, w, c, d, k) = <<o, p>>
      \/ Compared(v, w, c, d, k) = <<lo, Scores(p, T)>> /\ InView(w, p, k)
      \/ Compared(v, w, c, d, k) = <<Scores(o, T), lp>> /\ InView(v, o, k)
      \/ /\ Compared(v, w, c, d, k) = <<Leaves(Scores(o, x), s), Leaves(Scores(p, y), t)>>
         /\ InView(v, o, k) /\ InView(w, p, k)
  BY DEF Compared
<1> HIDE DEF o, p, x, y, s, t, T, lo, lp
<1>7. CASE Compared(v, w, c, d, k) = <<o, p>>
  BY <1>1, <1>2, <1>7
<1>8. CASE Compared(v, w, c, d, k) = <<lo, Scores(p, T)>> /\ InView(w, p, k)
  <2>1. lo \in Verdicts /\ lo.score = c.score /\ lo.outside
    BY <1>1, LeavesFacts DEF lo, lp
  <2>2. Scores(p, T) \in Verdicts /\ Scores(p, T).score = p.score + T
    BY <1>1, <1>2, ScoresFacts
  <2>3. Scores(p, T).score >= d.score
    BY <2>2, <1>1, <1>2
  <2>4. Compared(v, w, c, d, k)[1] = lo /\ Compared(v, w, c, d, k)[2] = Scores(p, T)
    BY <1>8
  <2>5. Compared(v, w, c, d, k) \in Verdicts \X Verdicts
    BY <1>8, <2>1, <2>2
  <2> QED
    BY <1>2, <1>5, <1>8, <2>1, <2>3, <2>4, <2>5
<1>9. CASE Compared(v, w, c, d, k) = <<Scores(o, T), lp>> /\ InView(v, o, k)
  <2>1. lp \in Verdicts /\ lp.score = d.score /\ lp.outside
    BY <1>1, LeavesFacts DEF lo, lp
  <2>2. Scores(o, T) \in Verdicts /\ Scores(o, T).score = o.score + T
    BY <1>1, <1>2, ScoresFacts
  <2>3. Scores(o, T).score >= c.score
    BY <2>2, <1>1, <1>2
  <2>4. Compared(v, w, c, d, k)[1] = Scores(o, T) /\ Compared(v, w, c, d, k)[2] = lp
    BY <1>9
  <2>5. Compared(v, w, c, d, k) \in Verdicts \X Verdicts
    BY <1>9, <2>1, <2>2
  <2> QED
    BY <1>2, <1>4, <1>9, <2>1, <2>3, <2>4, <2>5
<1>10. CASE /\ Compared(v, w, c, d, k) = <<Leaves(Scores(o, x), s), Leaves(Scores(p, y), t)>>
            /\ InView(v, o, k) /\ InView(w, p, k)
  <2>1. Scores(o, x) \in Verdicts /\ Scores(o, x).score = c.score + x
    BY <1>1, <1>3, ScoresFacts
  <2>2. Scores(p, y) \in Verdicts /\ Scores(p, y).score = d.score + y
    BY <1>1, <1>3, ScoresFacts
  <2>3. Leaves(Scores(o, x), s) \in Verdicts /\ Leaves(Scores(o, x), s).score = c.score + x
    BY <2>1, <1>3, LeavesFacts
  <2>4. Leaves(Scores(p, y), t) \in Verdicts /\ Leaves(Scores(p, y), t).score = d.score + y
    BY <2>2, <1>3, LeavesFacts
  <2> QED
    BY <2>3, <2>4, <1>2, <1>3, <1>4, <1>5, <1>10
<1> QED
  BY <1>6, <1>7, <1>8, <1>9, <1>10

\* So it is over all iterations of the loop without exits, from any keystone j on.
LEMMA UnexitedFacts ==
    ASSUME NEW v \in Views, NEW w \in Views, NEW j \in 0 .. Longer(v, w)
    PROVE  \A k \in j .. Longer(v, w) :
             LET x == Unexited(v, w)[j]
                 y == Unexited(v, w)[k]
             IN  /\ x \in Verdicts \X Verdicts /\ y \in Verdicts \X Verdicts
                 /\ y[1].score >= x[1].score /\ y[2].score >= x[2].score
                 /\ x[1].outside => y[1].outside /\ y[1].score = x[1].score
                 /\ x[2].outside => y[2].outside /\ y[2].score = x[2].score
<1> DEFINE N == Longer(v, w)
           u == Unexited(v, w)
           V == Verdicts \X Verdicts
<1>1. /\ N \in Nat /\ u[0] = <<Start, Start>>
      /\ \A k \in 1 .. N : u[k] = Compared(v, w, u[k - 1][1], u[k - 1][2], k)
  BY UnexitedUnfolds
<1>2. \A k \in 1 .. N : u[k - 1] \in V =>
        /\ u[k] \in V
        /\ u[k][1].score >= u[k - 1][1].score /\ u[k][2].score >= u[k - 1][2].score
        /\ u[k - 1][1].outside => u[k][1].outside /\ u[k][1].score = u[k - 1][1].score
        /\ u[k - 1][2].outside => u[k][2].outside /\ u[k][2].score = u[k - 1][2].score
  <2> SUFFICES ASSUME NEW k \in 1 .. N, u[k - 1] \in V
               PROVE  /\ u[k] \in V
                      /\ u[k][1].score >= u[k - 1][1].score /\ u[k][2].score >= u[k - 1][2].score
                      /\ u[k - 1][1].outside => u[k][1].outside /\ u[k][1].score = u[k - 1][1].score
                      /\ u[k - 1][2].outside => u[k][2].outside /\ u[k][2].score = u[k - 1][2].score
    OBVIOUS
  <2>1. k \in Nat /\ u[k - 1][1] \in Verdicts /\ u[k - 1][2] \in Verdicts
    OBVIOUS
  <2>2. u[k] = Compared(v, w, u[k - 1][1], u[k - 1][2], k)
    BY <1>1
  <2> DEFINE c == u[k - 1][1]
             d == u[k - 1][2]
  <2>3. u[k] = Compared(v, w, c, d, k) /\ c \in Verdicts /\ d \in Verdicts
    BY <2>1, <2>2
  <2> HIDE DEF u, c, d, V
  <2>4. /\ u[k] \in Verdicts \X Verdicts
        /\ u[k][1].score >= c.score /\ u[k][2].score >= d.score
        /\ c.outside => u[k][1].outside /\ u[k][1].score = c.score
        /\ d.outside => u[k][2].outside /\ u[k][2].score = d.score
    BY <2>1, <2>3, ComparedFacts
  <2> QED
    BY <2>4 DEF c, d, V
<1>3. Start \in Verdicts
  BY ViewFacts DEF Start, Verdicts, Pubs
<1> HIDE DEF u, N
\* first the types, then the order
<1>4. \A k \in 0 .. N : u[k] \in V
  <2> DEFINE bad == {k \in 0 .. N : u[k] \notin V}
  <2> SUFFICES ASSUME bad # {} PROVE FALSE
    OBVIOUS
  <2>1. PICK n \in bad : \A m \in bad : n <= m
    <3>1. bad \in SUBSET Nat
      BY <1>1
    <3> QED
      BY <3>1, LeastNumber
  <2>2. n \in 0 .. N /\ u[n] \notin V
    OBVIOUS
  <2>3. n # 0
    <3>1. u[0] \in V
      BY <1>1, <1>3
    <3> QED
      BY <3>1, <2>2
  <2>4. n - 1 \in 0 .. N /\ n \in 1 .. N
    BY <2>2, <2>3, <1>1
  <2>5. ~(n <= n - 1)
    BY <2>2
  <2>6. u[n - 1] \in V
    BY <2>1, <2>4, <2>5
  <2> QED
    BY <2>2, <2>4, <2>6, <1>2
<1> DEFINE Ok(k) == /\ u[k][1].score >= u[j][1].score /\ u[k][2].score >= u[j][2].score
                    /\ u[j][1].outside => u[k][1].outside /\ u[k][1].score = u[j][1].score
                    /\ u[j][2].outside => u[k][2].outside /\ u[k][2].score = u[j][2].score
<1>5. j \in 0 .. N /\ j \in Nat
  BY <1>1 DEF N
<1>7. \A k \in 0 .. N : u[k][1].score \in Nat /\ u[k][2].score \in Nat
  <2>1. \A c \in Verdicts : c.score \in Nat
    BY DEF Verdicts
  <2> QED
    BY <1>4, <2>1
<1>6. \A k \in j .. N : Ok(k)
  <2> DEFINE bad == {k \in j .. N : ~Ok(k)}
  <2> SUFFICES ASSUME bad # {} PROVE FALSE
    OBVIOUS
  <2>1. PICK n \in bad : \A m \in bad : n <= m
    <3>1. bad \in SUBSET Nat
      BY <1>1, <1>5
    <3> QED
      BY <3>1, LeastNumber
  <2>2. n \in j .. N /\ ~Ok(n)
    OBVIOUS
  <2>3. n # j
    BY <2>2, <1>5, <1>7
  <2>4. n - 1 \in j .. N /\ n \in 1 .. N /\ n - 1 \in 0 .. N /\ n \in 0 .. N
    BY <2>2, <2>3, <1>1, <1>5
  <2>5. ~(n <= n - 1)
    BY <2>2, <1>5
  <2>6. Ok(n - 1)
    <3> HIDE DEF Ok
    <3> QED
      BY <2>1, <2>4, <2>5
  <2>7. u[n - 1] \in V
    BY <2>4, <1>4
  <2>8. /\ u[n][1].score >= u[n - 1][1].score /\ u[n][2].score >= u[n - 1][2].score
        /\ u[n - 1][1].outside => u[n][1].outside /\ u[n][1].score = u[n - 1][1].score
        /\ u[n - 1][2].outside => u[n][2].outside /\ u[n][2].score = u[n - 1][2].score
    BY <2>4, <2>7, <1>2
  <2>9. /\ u[j][1].score \in Nat /\ u[n][1].score \in Nat /\ u[n - 1][1].score \in Nat
        /\ u[j][2].score \in Nat /\ u[n][2].score \in Nat /\ u[n - 1][2].score \in Nat
    BY <2>4, <1>5, <1>7
  <2> QED
    BY <2>2, <2>6, <2>8, <2>9
<1>8. \A k \in j .. N : u[j] \in V /\ u[k] \in V /\ Ok(k)
  <2>1. \A k \in j .. N : k \in 0 .. N
    BY <1>1, <1>5
  <2> QED
    BY <2>1, <1>4, <1>5, <1>6
<1> QED
  BY <1>8 DEF u, N

\* Until it ends the loop is where the loop without exits is; once it has ended, it
\* has the winner that the loop without exits finds.
ExitInv ==
    viewA # <<>> /\ viewB # <<>> =>
        /\ ~done => /\ keystone - 1 \in 0 .. Longer(viewA, viewB)
                    /\ Unexited(viewA, viewB)[keystone - 1] = <<A, B>>
        /\ EarlyExitSound

\* The four iteration steps compute what Compared computes, and an early exit finds
\* a chain outside finality and behind, or both outside finality.
LEMMA StepIsCompared ==
    ASSUME ScoreTypeOK, BothMissing \/ OnlyB \/ OnlyA \/ BothPresent
    PROVE  /\ <<A', B'>> = Compared(viewA, viewB, A, B, keystone)
           /\ done' => \/ A'.outside /\ B'.outside
                       \/ A'.outside /\ B'.score > A'.score
                       \/ B'.outside /\ A'.score > B'.score
<1> USE DEF a, b, HasA, HasB, pubA, pubB
<1>1. a \in Verdicts /\ b \in Verdicts
  BY ObservedFacts DEF ScoreTypeOK
<1>2. Leaves(a, TRUE).outside /\ Leaves(b, TRUE).outside
  BY <1>1, LeavesFacts
<1>3. CASE BothMissing
  BY <1>3 DEF BothMissing, Compared
<1>4. CASE OnlyB
  <2>1. A' = Leaves(a, TRUE) /\ B' = Scores(b, LookUpTable[1]) /\ (done' => B'.score > A'.score)
    BY <1>4 DEF OnlyB
  <2>2. <<A', B'>> = Compared(viewA, viewB, A, B, keystone)
    BY <1>4 DEF OnlyB, Compared
  <2> QED
    BY <2>1, <2>2, <1>2
<1>5. CASE OnlyA
  <2>1. B' = Leaves(b, TRUE) /\ (done' => A'.score > B'.score)
    BY <1>5 DEF OnlyA
  <2>2. <<A', B'>> = Compared(viewA, viewB, A, B, keystone)
    BY <1>5 DEF OnlyA, Compared
  <2> QED
    BY <2>1, <2>2, <1>2
<1>6. CASE BothPresent
  <2>1. ~done'
    BY <1>6 DEF BothPresent, Iterate
  <2>2. <<A', B'>> = Compared(viewA, viewB, A, B, keystone)
    BY <1>6 DEF BothPresent, Compared
  <2> QED
    BY <2>1, <2>2
<1> QED
  BY <1>3, <1>4, <1>5, <1>6

\* Every iteration, and every exit, keeps ExitInv.
LEMMA NextExit ==
    ASSUME ScoreTypeOK, ExitInv, [ScoreNext]_scoreVars
    PROVE  ExitInv'
<1>1. viewA \in Views /\ viewB \in Views /\ keystone \in Nat \ {0} /\ done \in BOOLEAN
  BY DEF ScoreTypeOK
<1> DEFINE N == Longer(viewA, viewB)
           u == Unexited(viewA, viewB)
<1>2. N \in Nat /\ \A k \in 1 .. N : u[k] = Compared(viewA, viewB, u[k - 1][1], u[k - 1][2], k)
  BY <1>1, UnexitedUnfolds
<1>3. CASE UNCHANGED scoreVars
  BY <1>3 DEF scoreVars, ExitInv, EarlyExitSound
<1>4. CASE EndOfViews
  <2> SUFFICES ASSUME viewA # <<>>, viewB # <<>>
               PROVE  /\ A.score < B.score <=> u[N][1].score < u[N][2].score
                      /\ A.score > B.score <=> u[N][1].score > u[N][2].score
    BY <1>4 DEF EndOfViews, ExitInv, EarlyExitSound
  <2>1. keystone - 1 \in 0 .. N /\ u[keystone - 1] = <<A, B>>
    BY <1>4 DEF EndOfViews, ExitInv
  <2>2. keystone > N
    BY <1>4, <1>1 DEF EndOfViews, Longer
  <2>3. keystone - 1 = N
    BY <2>1, <2>2, <1>1, <1>2
  <2> HIDE DEF u, N
  <2> QED
    BY <2>1, <2>3
<1>5. CASE BothMissing \/ OnlyB \/ OnlyA \/ BothPresent
  <2>1. /\ ~done /\ (keystone <= Len(viewA) \/ keystone <= Len(viewB))
        /\ keystone' = keystone + 1 /\ viewA' = viewA /\ viewB' = viewB
    BY <1>5 DEF BothMissing, OnlyB, OnlyA, BothPresent, Iterate
  <2>2. <<A', B'>> = Compared(viewA, viewB, A, B, keystone)
        /\ (done' => \/ A'.outside /\ B'.outside
                     \/ A'.outside /\ B'.score > A'.score
                     \/ B'.outside /\ A'.score > B'.score)
    BY <1>5, StepIsCompared
  <2>3. keystone \in 1 .. N
    <3>1. Len(viewA) \in Nat /\ Len(viewB) \in Nat
      BY <1>1, ViewFacts
    <3> QED
      BY <3>1, <2>1, <1>1 DEF Longer
  <2> SUFFICES ASSUME viewA # <<>>, viewB # <<>>
               PROVE  /\ keystone \in 0 .. N /\ u[keystone] = <<A', B'>>
                      /\ done' => /\ A'.score < B'.score <=> u[N][1].score < u[N][2].score
                                  /\ A'.score > B'.score <=> u[N][1].score > u[N][2].score
    <3>1. keystone' - 1 = keystone
      BY <2>1, <1>1
    <3> QED
      BY <2>1, <3>1 DEF ExitInv, EarlyExitSound
  <2>4. u[keystone - 1] = <<A, B>>
    BY <2>1 DEF ExitInv
  <2> HIDE DEF u
  <2>5. u[keystone] = Compared(viewA, viewB, A, B, keystone)
    BY <1>2, <2>3, <2>4
  <2>6. keystone \in 0 .. N /\ u[keystone] = <<A', B'>>
    BY <2>2, <2>3, <2>5, <1>2
  <2>7. ASSUME done'
        PROVE  /\ A'.score < B'.score <=> u[N][1].score < u[N][2].score
               /\ A'.score > B'.score <=> u[N][1].score > u[N][2].score
    <3>1. N \in keystone .. N
      BY <2>3, <1>2
    <3>2. LET x == u[keystone]
              y == u[N]
          IN  /\ x \in Verdicts \X Verdicts /\ y \in Verdicts \X Verdicts
              /\ y[1].score >= x[1].score /\ y[2].score >= x[2].score
              /\ x[1].outside => y[1].outside /\ y[1].score = x[1].score
              /\ x[2].outside => y[2].outside /\ y[2].score = x[2].score
      BY <2>6, <3>1, <1>1, UnexitedFacts DEF u
    <3>3. u[keystone][1] = A' /\ u[keystone][2] = B'
      BY <2>6
    <3>4. A' \in Verdicts /\ B' \in Verdicts /\ u[N][1] \in Verdicts /\ u[N][2] \in Verdicts
      BY <3>2, <3>3
    <3>5. A'.score \in Nat /\ B'.score \in Nat /\ u[N][1].score \in Nat /\ u[N][2].score \in Nat
      <4>1. \A c \in Verdicts : c.score \in Nat
        BY DEF Verdicts
      <4> QED
        BY <3>4, <4>1
    <3>6. /\ u[N][1].score >= A'.score /\ u[N][2].score >= B'.score
          /\ A'.outside => u[N][1].score = A'.score
          /\ B'.outside => u[N][2].score = B'.score
      BY <3>2, <3>3
    <3> QED
      BY <2>2, <2>7, <3>5, <3>6
  <2> QED
    BY <2>6, <2>7
<1> QED
  BY <1>3, <1>4, <1>5 DEF ScoreNext

\* The early exits of comparePopScoreImpl never change who wins, for views of any
\* length, any lookup table and any finality delay.
THEOREM EarlyExitTheorem == ScoreSpec => []EarlyExitSound
<1>1. ScoreInit => ExitInv
  <2> SUFFICES ASSUME ScoreInit, viewA # <<>>, viewB # <<>>
               PROVE  /\ keystone - 1 \in 0 .. Longer(viewA, viewB)
                      /\ Unexited(viewA, viewB)[keystone - 1] = <<A, B>>
                      /\ ~done
    BY DEF ExitInv, EarlyExitSound
  <2>3. viewA \in Views /\ viewB \in Views /\ keystone = 1 /\ A = Start /\ B = Start
        /\ (done <=> viewA = <<>> \/ viewB = <<>>)
    BY DEF ScoreInit
  <2>1. viewA \in Views /\ viewB \in Views /\ keystone - 1 = 0 /\ A = Start /\ B = Start /\ ~done
    BY <2>3
  <2>2. Longer(viewA, viewB) \in Nat /\ Unexited(viewA, viewB)[0] = <<Start, Start>>
    BY <2>1, UnexitedUnfolds
  <2> QED
    BY <2>1, <2>2
<1>2. ScoreTypeOK /\ ExitInv /\ [ScoreNext]_scoreVars => ExitInv'
  BY NextExit
<1>3. ExitInv => EarlyExitSound
  BY DEF ExitInv, EarlyExitSound
<1> QED
  BY <1>1, <1>2, <1>3, ScoreTypes, PTL DEF ScoreSpec

-----------------------------------------------------------------------------
(* The first publication of a keystone.                                     *)

\* The blocks of proof are blocks of the best chain and those left to visit are
\* among them.
ContextInv ==
    /\ enableTimeAdjustment \in BOOLEAN
    /\ referencedByBlocks \subseteq Heights
    /\ toVisit \subseteq referencedByBlocks
    /\ earliestEndorsementIndex \in Nat
    /\ EarliestOfVisited

\* One iteration of getKeystoneContext on the block of proof h, whichever it is.
LEMMA VisitStep ==
    ASSUME ContextInv, NEW h \in Heights, Visit(h)
    PROVE  ContextInv'
<1> DEFINE pubs == Publications(h)
           seen == UNION {Publications(x) : x \in referencedByBlocks \ toVisit}
           later == {j \in h + 1 .. ChainHeight : InTime(j)}
           first == CHOOSE j \in later : \A i \in later : j <= i
           e == earliestEndorsementIndex
<1>1. /\ h \in toVisit /\ toVisit' = toVisit \ {h} /\ referencedByBlocks' = referencedByBlocks
      /\ enableTimeAdjustment' = enableTimeAdjustment /\ timestamp' = timestamp
      /\ timestampOfEndorsedBlock' = timestampOfEndorsedBlock
      /\ earliestEndorsementIndex' =
            IF h >= e THEN e ELSE IF ~enableTimeAdjustment \/ InTime(h) THEN h ELSE Adjusted(h)
  BY DEF Visit
<1>2. /\ ChainHeight \in Nat /\ NoEndorsement \in Nat /\ NoEndorsement > ChainHeight
      /\ h \in Nat /\ h <= ChainHeight /\ e \in Nat
  BY ContextAssumption DEF Heights, ContextInv
<1>3. /\ e \in seen \/ (seen = {} /\ e = NoEndorsement)
      /\ \A j \in seen : e <= j
  BY DEF ContextInv, EarliestOfVisited
<1>4. \A x \in Heights : Publications(x) \subseteq 0 .. ChainHeight
  BY <1>2 DEF Publications, Heights
<1>5. seen \subseteq 0 .. ChainHeight /\ pubs \subseteq 0 .. ChainHeight
      /\ \A j \in pubs : h <= j
  <2>1. \A j \in pubs : h <= j
    BY <1>2 DEF Publications
  <2> QED
    BY <1>4, <2>1 DEF ContextInv
<1>6. UNION {Publications(x)' : x \in (referencedByBlocks \ toVisit)'} = seen \cup pubs
  <2>1. (referencedByBlocks \ toVisit)' = (referencedByBlocks \ toVisit) \cup {h}
    BY <1>1 DEF ContextInv
  <2>2. \A x : Publications(x)' = Publications(x)
    BY <1>1 DEF Publications, InTime
  <2> QED
    BY <2>1, <2>2
<1>7. ASSUME NEW n \in Nat, earliestEndorsementIndex' = n,
             n \in seen \cup pubs \/ (seen \cup pubs = {} /\ n = NoEndorsement),
             \A j \in seen \cup pubs : n <= j
      PROVE  ContextInv'
  <2> HIDE DEF seen, pubs
  <2>1. EarliestOfVisited'
    BY <1>6, <1>7 DEF EarliestOfVisited
  <2> QED
    BY <2>1, <1>1, <1>7 DEF ContextInv
<1> HIDE DEF seen
<1>8. CASE h >= e
  <2>1. e # NoEndorsement
    BY <1>2, <1>8
  <2>2. \A j \in pubs : e <= j
    BY <1>2, <1>5, <1>8
  <2> QED
    BY <1>1, <1>2, <1>3, <1>7, <1>8, <2>1, <2>2
<1>9. CASE ~(h >= e) /\ (~enableTimeAdjustment \/ InTime(h))
  <2>1. h \in pubs
    BY <1>2, <1>9 DEF Publications
  <2>2. \A j \in seen : h <= j
    BY <1>2, <1>3, <1>5, <1>9
  <2>3. earliestEndorsementIndex' = h
    BY <1>1, <1>9
  <2> HIDE DEF pubs
  <2> QED
    BY <1>2, <1>5, <1>7, <2>1, <2>2, <2>3
<1>10. CASE ~(h >= e) /\ enableTimeAdjustment /\ ~InTime(h)
  <2>1. pubs = later
    <3>1. \A j \in h .. ChainHeight : j # h => j \in h + 1 .. ChainHeight
      BY <1>2
    <3>2. \A j \in h + 1 .. ChainHeight : j \in h .. ChainHeight
      BY <1>2
    <3> QED
      BY <3>1, <3>2, <1>10 DEF Publications
  <2>2. earliestEndorsementIndex' = IF later # {} /\ first < e THEN first ELSE e
    <3>1. earliestEndorsementIndex' = Adjusted(h)
      BY <1>1, <1>10
    <3> QED
      BY <3>1 DEF Adjusted
  <2>3. CASE later = {}
    BY <1>2, <1>3, <1>7, <2>1, <2>2, <2>3
  <2>4. CASE later # {}
    <3>1. first \in later /\ \A i \in later : first <= i
      <4>1. later \in SUBSET Nat
        BY <1>2
      <4> QED
        BY <4>1, <2>4, LeastNumber
    <3> HIDE DEF later, first, pubs
    <3>2. first \in Nat /\ first <= ChainHeight
      BY <3>1, <2>1, <1>2, <1>5
    <3>3. CASE first < e
      <4>1. \A j \in seen : first <= j
        BY <1>2, <1>3, <1>5, <3>2, <3>3
      <4> QED
        BY <4>1, <3>1, <3>2, <3>3, <2>1, <2>2, <2>4, <1>7
    <3>4. CASE ~(first < e)
      <4>1. e # NoEndorsement
        BY <1>2, <3>2, <3>4
      <4>2. \A j \in pubs : e <= j
        BY <1>2, <1>5, <3>1, <3>2, <3>4, <2>1
      <4> QED
        BY <4>1, <4>2, <3>4, <2>2, <1>2, <1>3, <1>7
    <3> QED
      BY <3>3, <3>4
  <2> QED
    BY <2>3, <2>4
<1> QED
  BY <1>8, <1>9, <1>10

\* In whatever order the addresses make getKeystoneContext visit the blocks of
\* proof, it finds the least publication among those visited: the score of a chain
\* is the same on every node.
THEOREM EarliestTheorem == ContextSpec => []EarliestOfVisited
<1>1. ContextInit => ContextInv
  <2> SUFFICES ASSUME ContextInit PROVE ContextInv
    OBVIOUS
  <2>1. UNION {Publications(h) : h \in referencedByBlocks \ toVisit} = {}
    BY DEF ContextInit
  <2> QED
    BY <2>1, ContextAssumption DEF ContextInit, ContextInv, EarliestOfVisited
<1>2. ContextInv /\ [ContextNext]_contextVars => ContextInv'
  <2> SUFFICES ASSUME ContextInv, [ContextNext]_contextVars PROVE ContextInv'
    OBVIOUS
  <2>1. CASE UNCHANGED contextVars
    BY <2>1 DEF contextVars, ContextInv, EarliestOfVisited, Publications, InTime
  <2> QED
    BY <2>1, VisitStep DEF ContextNext
<1>3. ContextInv => EarliestOfVisited
  BY DEF ContextInv
<1> QED
  BY <1>1, <1>2, <1>3, PTL DEF ContextSpec

=============================================================================
