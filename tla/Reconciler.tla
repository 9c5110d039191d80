----------------------------- MODULE Reconciler -----------------------------
(***************************************************************************)
(* ScoreReconciler (reconciler.py): how the results of two evaluators      *)
(* become one.  Scores are in tenths of a point; lists whose order decides *)
(* nothing are sets.                                                       *)
(***************************************************************************)
EXTENDS Integers, Sequences, FiniteSetsExt

Tolerance == 10

BenchmarkScore == [criterion : STRING, score : 0..100]

\* The text stands for all of a bug report but its file and line.
BugReport == [place : STRING, text : Nat]

EvaluationResult ==
    [scores     : Seq(BenchmarkScore),
     verdict    : {"PASS", "FAIL"},
     bugs       : Seq(BugReport),
     veto       : BOOLEAN,  \* the suites or a fallback made it FAIL
     reprompted : BOOLEAN]  \* its verdict did not look at the thresholds

\* An entry below the threshold of the criterion it names, if there is one.
Missed(e, threshold) ==
    e.criterion \in DOMAIN threshold /\ e.score < threshold[e.criterion]

\* What a verdict says of its scores, whichever path through grade made it.
HasReason(r, threshold) ==
    LET misses == \E i \in DOMAIN r.scores : Missed(r.scores[i], threshold)
    IN  IF r.verdict = "PASS" THEN misses => r.reprompted
                              ELSE ~misses => r.veto

\* The dictionaries by criterion: a criterion scored twice keeps its last score.
Scored(r) == {r.scores[i].criterion : i \in DOMAIN r.scores}

ScoreOf(r, c) ==
    r.scores[Max({i \in DOMAIN r.scores : r.scores[i].criterion = c})].score

Paired(a, b) == Scored(a) \cap Scored(b)

Apart(a, b, c) == Max({ScoreOf(a, c), ScoreOf(b, c)})
                    - Min({ScoreOf(a, c), ScoreOf(b, c)})

\* The criteria two evaluators may agree on.  Scores exactly a point apart
\* agree or do not: 3.1 - 2.1 is 1.0, 8.3 - 7.3 is a little more.
Agreeable(a, b) == {c \in Paired(a, b) : Apart(a, b, c) <= Tolerance}

Disagreements(a, b) ==
    {d \in SUBSET Paired(a, b) :
        /\ \A c \in Paired(a, b) \ Agreeable(a, b) : c \in d
        /\ \A c \in d : Apart(a, b, c) >= Tolerance}

\* round(mean, 1): half a tenth goes up or down with the binary fraction.
\* (Definitions named X_HowItBreaks are X with a plausible bug, for the
\* mutants.)
Mean(x, y) == {(x + y) \div 2, (x + y + 1) \div 2}

\* The scores a criterion may end up with, when they disagree on those in d.
FinalScore_Higher(a, b, d, c) ==
    IF c \notin Scored(b) THEN {ScoreOf(a, c)}
    ELSE IF c \notin Scored(a) THEN {ScoreOf(b, c)}
    ELSE IF c \in d THEN {Max({ScoreOf(a, c), ScoreOf(b, c)})}
    ELSE Mean(ScoreOf(a, c), ScoreOf(b, c))

FinalScore(a, b, d, c) ==
    IF c \notin Scored(b) THEN {ScoreOf(a, c)}
    ELSE IF c \notin Scored(a) THEN {ScoreOf(b, c)}
    ELSE IF c \in d THEN {Min({ScoreOf(a, c), ScoreOf(b, c)})}
    ELSE Mean(ScoreOf(a, c), ScoreOf(b, c))

FinalScores(a, b, d) ==
    LET criteria == Scored(a) \cup Scored(b)
    IN  {f \in [criteria -> UNION {FinalScore(a, b, d, c) : c \in criteria}] :
            \A c \in criteria : f[c] \in FinalScore(a, b, d, c)}

FinalVerdict(a, b) ==
    IF "FAIL" \in {a.verdict, b.verdict} THEN "FAIL" ELSE "PASS"

\* One bug per file and line, the one reported first; a bug without them has
\* the place "" and 0 like any other such bug.
DeduplicateBugs_ByText(as, bs) ==
    LET bugs == as \o bs
    IN  {bugs[i] : i \in {i \in DOMAIN bugs :
            \A j \in 1..(i - 1) : bugs[j].text # bugs[i].text}}

DeduplicateBugs(as, bs) ==
    LET bugs == as \o bs
    IN  {bugs[i] : i \in {i \in DOMAIN bugs :
            \A j \in 1..(i - 1) : bugs[j].place # bugs[i].place}}
=============================================================================
