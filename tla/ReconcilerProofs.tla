-------------------------- MODULE ReconcilerProofs --------------------------
(***************************************************************************)
(* What reconcile does to any two results: it always has an outcome, which *)
(* of the evaluators comes first decides nothing but the words of a bug    *)
(* both report, and no score leaves the range the two gave.                *)
(***************************************************************************)
EXTENDS Reconciler, FiniteSetTheorems, SequenceTheorems, TLAPS

-----------------------------------------------------------------------------
(* Largest and smallest elements *)

\* A set of naturals has a least element.
LEMMA LeastNatural ==
    ASSUME NEW T \in SUBSET Nat, T # {}
    PROVE  \E x \in T : \A y \in T : x <= y
<1>1. PICK x \in T : \A y \in T : <<y, x>> \notin OpToRel(<, Nat)
  BY NatLessThanWellFounded, WFMin
<1>2. \A y \in T : ~(y < x)
  BY <1>1 DEF OpToRel
<1> QED BY <1>2

\* A set of indices has a greatest element.
LEMMA LargestIndex ==
    ASSUME NEW n \in Nat, NEW T \in SUBSET (1..n), T # {}
    PROVE  \E x \in T : \A y \in T : x >= y
<1> DEFINE D == {n - x : x \in T}
<1>1. D \in SUBSET Nat /\ D # {}
  <2>1. \A x \in T : n - x \in Nat
    OBVIOUS
  <2>2. PICK x \in T : TRUE
    OBVIOUS
  <2>3. n - x \in D
    OBVIOUS
  <2> QED BY <2>1, <2>3
<1>2. PICK d \in D : \A e \in D : d <= e
  BY <1>1, LeastNatural
<1>3. PICK x \in T : d = n - x
  BY <1>2
<1>4. \A y \in T : n - x <= n - y
  BY <1>2, <1>3
<1> QED BY <1>4

\* Max is the element that no other exceeds.
LEMMA MaxIs ==
    ASSUME NEW S, S \subseteq Int, NEW m \in S, \A y \in S : m >= y
    PROVE  Max(S) = m
<1>1. Max(S) \in S /\ \A y \in S : Max(S) >= y
  BY Zenon DEF Max
<1>2. Max(S) \in Int /\ m \in Int
  BY <1>1
<1>3. Max(S) >= m /\ m >= Max(S)
  BY <1>1
<1> QED BY <1>2, <1>3

\* Min is the element that exceeds no other.
LEMMA MinIs ==
    ASSUME NEW S, S \subseteq Int, NEW m \in S, \A y \in S : m <= y
    PROVE  Min(S) = m
<1>1. Min(S) \in S /\ \A y \in S : Min(S) <= y
  BY Zenon DEF Min
<1>2. Min(S) \in Int /\ m \in Int
  BY <1>1
<1>3. Min(S) <= m /\ m <= Min(S)
  BY <1>1
<1> QED BY <1>2, <1>3

\* Max and Min of two numbers.
LEMMA MaxMinOfTwo ==
    ASSUME NEW x \in Int, NEW y \in Int
    PROVE  /\ Max({x, y}) = IF x >= y THEN x ELSE y
           /\ Min({x, y}) = IF x <= y THEN x ELSE y
<1>1. Max({x, y}) = IF x >= y THEN x ELSE y
  BY MaxIs
<1>2. Min({x, y}) = IF x <= y THEN x ELSE y
  BY MinIs
<1> QED BY <1>1, <1>2

-----------------------------------------------------------------------------
(* Scores *)

\* What the fields of a result are.
LEMMA ResultTypes ==
    ASSUME NEW r \in EvaluationResult
    PROVE  /\ Len(r.scores) \in Nat /\ DOMAIN r.scores = 1..Len(r.scores)
           /\ \A i \in DOMAIN r.scores : r.scores[i] \in BenchmarkScore
           /\ Len(r.bugs) \in Nat /\ DOMAIN r.bugs = 1..Len(r.bugs)
           /\ \A i \in DOMAIN r.bugs : r.bugs[i] \in BugReport
<1>1. r.scores \in Seq(BenchmarkScore) /\ r.bugs \in Seq(BugReport)
  BY DEF EvaluationResult
<1> QED BY <1>1

\* The score a criterion ends up with is that of an entry of the sheet.
LEMMA LastScore ==
    ASSUME NEW r \in EvaluationResult, NEW c \in Scored(r)
    PROVE  /\ ScoreOf(r, c) \in 0..100
           /\ \E i \in DOMAIN r.scores :
                  r.scores[i].criterion = c /\ ScoreOf(r, c) = r.scores[i].score
<1> DEFINE At == {i \in DOMAIN r.scores : r.scores[i].criterion = c}
<1>1. At \in SUBSET (1..Len(r.scores)) /\ At # {} /\ Len(r.scores) \in Nat
  BY ResultTypes DEF Scored
<1>2. PICK i \in At : \A j \in At : i >= j
  BY <1>1, LargestIndex
<1>3. Max(At) = i
  <2>1. At \subseteq Int
    BY <1>1
  <2> HIDE DEF At
  <2> QED BY <1>2, <2>1, MaxIs
<1>4. ScoreOf(r, c) = r.scores[i].score
  BY <1>3 DEF ScoreOf
<1>5. r.scores[i].score \in 0..100
  <2>1. r.scores[i] \in BenchmarkScore
    BY ResultTypes
  <2> QED BY <2>1 DEF BenchmarkScore
<1> QED BY <1>2, <1>4, <1>5

\* How far two scores of a criterion are apart.
LEMMA ApartIs ==
    ASSUME NEW a \in EvaluationResult, NEW b \in EvaluationResult,
           NEW c \in Paired(a, b)
    PROVE  /\ ScoreOf(a, c) \in 0..100 /\ ScoreOf(b, c) \in 0..100
           /\ Apart(a, b, c) = IF ScoreOf(a, c) >= ScoreOf(b, c)
                               THEN ScoreOf(a, c) - ScoreOf(b, c)
                               ELSE ScoreOf(b, c) - ScoreOf(a, c)
<1> DEFINE x == ScoreOf(a, c)
           y == ScoreOf(b, c)
<1>1. x \in 0..100 /\ y \in 0..100
  BY LastScore DEF Paired
<1>2. Apart(a, b, c) = Max({x, y}) - Min({x, y})
  BY DEF Apart
<1> HIDE DEF x, y
<1>3. Apart(a, b, c) = IF x >= y THEN x - y ELSE y - x
  BY <1>1, <1>2, MaxMinOfTwo
<1> QED BY <1>1, <1>3 DEF x, y

\* A mean in tenths lies between the two numbers.
LEMMA MeanIsBetween ==
    ASSUME NEW x \in Int, NEW y \in Int, x <= y, NEW z \in Mean(x, y)
    PROVE  z \in x..y
BY SMT DEF Mean

\* The mean does not ask who gave which score.
LEMMA MeanIsSymmetric ==
    ASSUME NEW x \in Int, NEW y \in Int
    PROVE  Mean(x, y) = Mean(y, x)
<1>1. x + y = y + x
  OBVIOUS
<1> QED BY <1>1 DEF Mean

\* The final score of a criterion: the only score there is, the lower of two
\* that disagree, or one between two that agree.
LEMMA FinalScoreIs ==
    ASSUME NEW a \in EvaluationResult, NEW b \in EvaluationResult, NEW d,
           NEW c \in Scored(a) \cup Scored(b), NEW x \in FinalScore(a, b, d, c)
    PROVE  /\ x \in 0..100
           /\ c \notin Scored(b) => x = ScoreOf(a, c)
           /\ c \notin Scored(a) => x = ScoreOf(b, c)
           /\ c \in Paired(a, b) =>
                 \/ (ScoreOf(a, c) <= x /\ x <= ScoreOf(b, c))
                 \/ (ScoreOf(b, c) <= x /\ x <= ScoreOf(a, c))
           /\ c \in Paired(a, b) /\ c \in d =>
                 x <= ScoreOf(a, c) /\ x <= ScoreOf(b, c)
<1>1. CASE c \notin Scored(b)
  BY <1>1, LastScore DEF FinalScore, Paired
<1>2. CASE c \notin Scored(a)
  BY <1>2, LastScore DEF FinalScore, Paired
<1>3. CASE c \in Paired(a, b)
  <2> DEFINE p == ScoreOf(a, c)
             q == ScoreOf(b, c)
  <2>1. p \in 0..100 /\ q \in 0..100
    BY <1>3, ApartIs
  <2>2. x \in IF c \in d THEN {Min({p, q})} ELSE Mean(p, q)
    BY <1>3 DEF FinalScore, Paired
  <2> HIDE DEF p, q
  <2>3. CASE c \in d
    <3>0. x = Min({p, q})
      BY <2>2, <2>3
    <3>1. Min({p, q}) = IF p <= q THEN p ELSE q
      <4>1. p \in Int /\ q \in Int
        BY <2>1
      <4> QED BY <4>1, MaxMinOfTwo
    <3>2. x = IF p <= q THEN p ELSE q
      BY <3>0, <3>1
    <3> QED BY <1>3, <2>1, <3>2 DEF p, q, Paired
  <2>4. CASE c \notin d
    <3>1. x \in Mean(p, q) /\ x \in Mean(q, p)
      BY <2>1, <2>2, <2>4, MeanIsSymmetric
    <3>2. x \in p..q \/ x \in q..p
      BY <2>1, <3>1, MeanIsBetween
    <3>3. x \in 0..100 /\ ((p <= x /\ x <= q) \/ (q <= x /\ x <= p))
      BY <2>1, <3>2
    <3> QED BY <1>3, <2>4, <3>3 DEF p, q, Paired
  <2> QED BY <2>3, <2>4
<1> QED BY <1>1, <1>2, <1>3 DEF Paired

\* The scores a criterion may end up with, as long as one evaluator gave one.
LEMMA FinalScoreExists ==
    ASSUME NEW a \in EvaluationResult, NEW b \in EvaluationResult, NEW d,
           NEW c \in Scored(a) \cup Scored(b)
    PROVE  FinalScore(a, b, d, c) # {}
BY Zenon DEF FinalScore, Mean

\* Whatever two evaluators say (reconciler.reconcile), there is an outcome:
\* a set of disagreements and a score for every criterion.
THEOREM ReconcileReturns ==
    ASSUME NEW a \in EvaluationResult, NEW b \in EvaluationResult
    PROVE  \E d \in Disagreements(a, b) : FinalScores(a, b, d) # {}
<1> DEFINE d == Paired(a, b) \ Agreeable(a, b)
<1>1. d \in Disagreements(a, b)
  <2>1. \A c \in d : Apart(a, b, c) \in Int /\ ~(Apart(a, b, c) <= Tolerance)
    BY ApartIs DEF Agreeable
  <2>2. \A c \in d : Apart(a, b, c) >= Tolerance
    BY <2>1 DEF Tolerance
  <2> QED BY <2>2 DEF Disagreements
<1> DEFINE criteria == Scored(a) \cup Scored(b)
           f == [c \in criteria |-> CHOOSE x \in FinalScore(a, b, d, c) : TRUE]
<1>2. \A c \in criteria : f[c] \in FinalScore(a, b, d, c)
  BY FinalScoreExists
<1>3. f \in [criteria -> UNION {FinalScore(a, b, d, c) : c \in criteria}]
  BY <1>2
<1>4. f \in FinalScores(a, b, d)
  BY <1>2, <1>3 DEF FinalScores
<1> QED BY <1>1, <1>4

\* Which evaluator is the first decides neither the verdict nor the
\* disagreements nor the scores (reconciler.reconcile).
THEOREM ReconcileIsSymmetric ==
    ASSUME NEW a \in EvaluationResult, NEW b \in EvaluationResult
    PROVE  /\ FinalVerdict(a, b) = FinalVerdict(b, a)
           /\ Disagreements(a, b) = Disagreements(b, a)
           /\ \A d : FinalScores(a, b, d) = FinalScores(b, a, d)
<1>1. Paired(a, b) = Paired(b, a)
  BY DEF Paired
<1>2. \A c \in Paired(a, b) : Apart(a, b, c) = Apart(b, a, c)
  BY <1>1, ApartIs
<1>3. Agreeable(a, b) = Agreeable(b, a)
  BY <1>1, <1>2 DEF Agreeable
<1>4. Disagreements(a, b) = Disagreements(b, a)
  <2>1. \A d \in SUBSET Paired(a, b) :
           (\A c \in d : Apart(a, b, c) >= Tolerance)
             <=> (\A c \in d : Apart(b, a, c) >= Tolerance)
    BY <1>2
  <2> QED BY <1>1, <1>3, <2>1 DEF Disagreements
<1>5. ASSUME NEW d, NEW c \in Scored(a) \cup Scored(b)
      PROVE  FinalScore(a, b, d, c) = FinalScore(b, a, d, c)
  <2> DEFINE x == ScoreOf(a, c)
             y == ScoreOf(b, c)
  <2>1. CASE c \notin Scored(a) \/ c \notin Scored(b)
    BY <1>5, <2>1 DEF FinalScore
  <2>2. CASE c \in Scored(a) /\ c \in Scored(b)
    <3>1. x \in Int /\ y \in Int
      BY <2>2, LastScore
    <3>2. {x, y} = {y, x} /\ Mean(x, y) = Mean(y, x)
      <4> HIDE DEF x, y
      <4> QED BY <3>1, MeanIsSymmetric
    <3> QED BY <2>2, <3>2 DEF FinalScore
  <2> QED BY <2>1, <2>2
<1>6. ASSUME NEW d PROVE FinalScores(a, b, d) = FinalScores(b, a, d)
  <2> DEFINE criteria == Scored(a) \cup Scored(b)
  <2>1. criteria = Scored(b) \cup Scored(a)
    OBVIOUS
  <2>2. \A c \in criteria : FinalScore(a, b, d, c) = FinalScore(b, a, d, c)
    BY <1>5
  <2>3. {FinalScore(a, b, d, c) : c \in criteria}
          = {FinalScore(b, a, d, c) : c \in criteria}
    BY <2>2
  <2> QED BY <2>1, <2>2, <2>3, Zenon DEF FinalScores
<1>7. FinalVerdict(a, b) = FinalVerdict(b, a)
  BY DEF FinalVerdict
<1> QED BY <1>4, <1>6, <1>7

-----------------------------------------------------------------------------
(* Bugs *)

\* Every place complained about has a first complaint.
LEMMA FirstComplaint ==
    ASSUME NEW bugs \in Seq(BugReport), NEW i \in DOMAIN bugs
    PROVE  \E k \in DOMAIN bugs :
              /\ bugs[k].place = bugs[i].place
              /\ \A j \in 1..(k - 1) : bugs[j].place # bugs[k].place
<1> DEFINE At == {k \in DOMAIN bugs : bugs[k].place = bugs[i].place}
<1>1. DOMAIN bugs = 1..Len(bugs) /\ Len(bugs) \in Nat
  OBVIOUS
<1>2. At \in SUBSET Nat /\ At # {}
  BY <1>1
<1>3. PICK k \in At : \A j \in At : k <= j
  BY <1>2, LeastNatural
<1>4. \A j \in 1..(k - 1) : j \in DOMAIN bugs /\ j \notin At
  BY <1>1, <1>3
<1> QED BY <1>3, <1>4

\* A list of bugs without doublets holds one bug for every place that either
\* evaluator complains about, and the first evaluator's if it has one
\* (reconciler._deduplicate_bugs).
THEOREM BugsAreMerged ==
    ASSUME NEW as \in Seq(BugReport), NEW bs \in Seq(BugReport),
           NEW bugs, bugs = DeduplicateBugs(as, bs)
    PROVE  /\ \A i \in DOMAIN as : \E k \in bugs : k.place = as[i].place
           /\ \A i \in DOMAIN bs : \E k \in bugs : k.place = bs[i].place
           /\ \A k, l \in bugs : k.place = l.place => k = l
           /\ \A i \in DOMAIN as :
                 (\A j \in 1..(i - 1) : as[j].place # as[i].place) => as[i] \in bugs
<1> DEFINE all == as \o bs
           m == Len(as)
           n == Len(bs)
<1>0. /\ m \in Nat /\ n \in Nat
      /\ DOMAIN as = 1..m /\ DOMAIN bs = 1..n
  BY LenProperties
<1>1. /\ all \in Seq(BugReport) /\ DOMAIN all = 1..(m + n)
      /\ \A i \in DOMAIN as : i \in DOMAIN all /\ all[i] = as[i]
      /\ \A i \in DOMAIN bs : m + i \in DOMAIN all /\ all[m + i] = bs[i]
  <2>1. /\ all \in Seq(BugReport) /\ Len(all) = m + n
        /\ \A i \in 1..(m + n) : all[i] = IF i <= m THEN as[i] ELSE bs[i - m]
    BY ConcatProperties
  <2>2. DOMAIN all = 1..(m + n)
    BY <2>1, LenProperties
  <2> HIDE DEF all, m, n
  <2>3. \A i \in 1..m : i \in 1..(m + n) /\ i <= m
    BY <1>0
  <2>4. \A i \in 1..n : /\ m + i \in 1..(m + n)
                        /\ ~(m + i <= m)
                        /\ (m + i) - m = i
    BY <1>0
  <2>5. \A i \in DOMAIN as : i \in DOMAIN all /\ all[i] = as[i]
    BY <1>0, <2>1, <2>2, <2>3
  <2>6. \A i \in DOMAIN bs : m + i \in DOMAIN all /\ all[m + i] = bs[i]
    BY <1>0, <2>1, <2>2, <2>4
  <2> QED BY <2>1, <2>2, <2>5, <2>6
<1>2. bugs = {all[i] : i \in {i \in DOMAIN all :
                 \A j \in 1..(i - 1) : all[j].place # all[i].place}}
  BY Zenon DEF DeduplicateBugs
<1> HIDE DEF all, m, n
<1>3. \A i \in DOMAIN all : \E k \in bugs : k.place = all[i].place
  <2> TAKE i \in DOMAIN all
  <2>1. PICK k \in DOMAIN all :
              /\ all[k].place = all[i].place
              /\ \A j \in 1..(k - 1) : all[j].place # all[k].place
    BY <1>1, FirstComplaint
  <2>2. all[k] \in bugs
    BY <1>2, <2>1
  <2> QED BY <2>1, <2>2
<1>4. ASSUME NEW k \in bugs, NEW l \in bugs, k.place = l.place PROVE k = l
  <2>1. PICK i \in DOMAIN all : /\ k = all[i]
                                /\ \A j \in 1..(i - 1) : all[j].place # k.place
    BY <1>2
  <2>2. PICK h \in DOMAIN all : /\ l = all[h]
                                /\ \A j \in 1..(h - 1) : all[j].place # l.place
    BY <1>2
  <2>3. ~(i \in 1..(h - 1)) /\ ~(h \in 1..(i - 1))
    BY <1>4, <2>1, <2>2
  <2>4. i = h
    BY <1>0, <1>1, <2>3
  <2> QED BY <2>1, <2>2, <2>4
<1>5. ASSUME NEW i \in DOMAIN as,
             \A j \in 1..(i - 1) : as[j].place # as[i].place
      PROVE  as[i] \in bugs
  <2>1. \A j \in 1..(i - 1) : j \in DOMAIN as
    BY <1>0
  <2>2. \A j \in 1..(i - 1) : all[j].place # all[i].place
    BY <1>1, <1>5, <2>1
  <2> QED BY <1>1, <1>2, <2>2
<1>6. /\ \A i \in DOMAIN as : \E k \in bugs : k.place = as[i].place
      /\ \A i \in DOMAIN bs : \E k \in bugs : k.place = bs[i].place
  BY <1>1, <1>3
<1> QED BY <1>4, <1>5, <1>6
=============================================================================
