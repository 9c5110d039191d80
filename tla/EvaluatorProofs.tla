--------------------------- MODULE EvaluatorProofs ---------------------------
(***************************************************************************)
(* Safety of Evaluator, for all criteria, thresholds, score sheets and     *)
(* suite outcomes.                                                         *)
(***************************************************************************)
EXTENDS Evaluator, TLAPS

\* A hundred times a part of n, divided by n, is a percentage, and 100 only
\* when nothing is left over.
LEMMA PercentBounds ==
    ASSUME NEW p \in Nat, NEW n \in Nat, n > 0, p <= n,
           NEW d \in Int, NEW m \in 0..(n - 1), 100 * p = n * d + m
    PROVE  d \in 0..100 /\ (d = 100 => m = 0)
<1>1. d >= 0
  <2>1. SUFFICES ASSUME d <= -1 PROVE FALSE
    OBVIOUS
  <2>2. PICK k \in Int : k = n * d
    OBVIOUS
  <2>3. k <= -n
    BY ONLY n \in Nat, n > 0, d \in Int, <2>1, <2>2, SMT
  <2>4. 100 * p = k + m
    BY ONLY <2>2, 100 * p = n * d + m
  <2> QED
    BY ONLY p \in Nat, n \in Nat, n > 0, m \in 0..(n - 1), <2>2, <2>3, <2>4, SMT
<1>2. d <= 100
  <2>1. SUFFICES ASSUME d >= 101 PROVE FALSE
    OBVIOUS
  <2>2. PICK k \in Int : k = n * d
    OBVIOUS
  <2>3. k >= 101 * n
    BY ONLY n \in Nat, n > 0, d \in Int, <2>1, <2>2, SMT
  <2>4. 100 * p = k + m
    BY ONLY <2>2, 100 * p = n * d + m
  <2> QED
    BY ONLY p \in Nat, n \in Nat, n > 0, p <= n, m \in 0..(n - 1),
            <2>2, <2>3, <2>4, SMT
<1>3. ASSUME d = 100 PROVE m = 0
  BY <1>3, SMT
<1> QED BY <1>1, <1>2, <1>3, SMT

\* The quotient and the rest of a division.
LEMMA Division ==
    ASSUME NEW a \in Nat, NEW n \in Nat, n > 0
    PROVE  /\ a \div n \in Int
           /\ a % n \in 0..(n - 1)
           /\ a = n * (a \div n) + (a % n)
BY SMT

\* A pass rate is a score from 0 to 10 points: the fallbacks never build a
\* BenchmarkScore that its model would reject.
LEMMA PassRateIsScore ==
    ASSUME NEW suite \in [passed : Nat, failed : Nat, errors : Nat,
                          execution_ok : BOOLEAN]
    PROVE  PassRate(suite) \in 0..100
<1> DEFINE total == suite.passed + suite.failed + suite.errors
           n     == IF total = 0 THEN 1 ELSE total
           down  == (100 * suite.passed) \div n
           mod   == (100 * suite.passed) % n
<1>1. /\ suite.passed \in Nat /\ n \in Nat /\ n > 0
      /\ suite.passed <= n /\ 100 * suite.passed \in Nat
  OBVIOUS
<1>2. PassRate(suite) =
        IF 2 * mod > n \/ (2 * mod = n /\ down % 2 = 1) THEN down + 1 ELSE down
  BY Zenon DEF PassRate
<1>3. /\ down \in Int /\ mod \in 0..(n - 1)
      /\ 100 * suite.passed = n * down + mod
  <2> HIDE DEF n
  <2> QED BY <1>1, Division
<1> HIDE DEF n, down, mod
<1>4. down \in 0..100 /\ (down = 100 => mod = 0)
  BY <1>1, <1>3, PercentBounds
<1> QED BY <1>1, <1>2, <1>3, <1>4, SMT

\* What the fallback grades with is a score sheet.
LEMMA FallbackIsSheet ==
    ASSUME NEW suite \in Outcomes
    PROVE  FallbackScores(suite) \in Seq(BenchmarkScore)
<1>1. PassRate(suite) \in 0..100
  BY PassRateIsScore, OutcomesAssumption
<1>2. DOMAIN Criteria = 1..Len(Criteria) /\ Len(Criteria) \in Nat
  BY CriteriaAssumption
<1>3. \A i \in 1..Len(Criteria) :
        [criterion |-> Criteria[i], score |-> PassRate(suite)] \in BenchmarkScore
  BY <1>1, <1>2 DEF BenchmarkScore, Names
<1> DEFINE sheet(i) == [criterion |-> Criteria[i], score |-> PassRate(suite)]
<1>4. FallbackScores(suite) = [i \in 1..Len(Criteria) |-> sheet(i)]
  BY <1>2 DEF FallbackScores
<1>5. \A i \in 1..Len(Criteria) : sheet(i) \in BenchmarkScore
  BY <1>3
<1> HIDE DEF sheet
<1> QED BY <1>2, <1>4, <1>5

\* So is the one "Overall" score of a persistent refusal.
LEMMA OverallIsSheet ==
    ASSUME NEW suite \in Outcomes
    PROVE  <<[criterion |-> "Overall", score |-> PassRate(suite)]>>
               \in Seq(BenchmarkScore)
<1>1. PassRate(suite) \in 0..100
  BY PassRateIsScore, OutcomesAssumption
<1>2. [criterion |-> "Overall", score |-> PassRate(suite)] \in BenchmarkScore
  BY <1>1 DEF BenchmarkScore, Names
<1> QED BY <1>2

\* A verdict computed from a sheet is one of the two, and PASS just when no
\* entry misses its threshold.
LEMMA VerdictMeetsThresholds ==
    ASSUME NEW scores
    PROVE  /\ ComputeVerdict(scores) \in {"PASS", "FAIL"}
           /\ ComputeVerdict(scores) = "PASS" <=>
                \A e \in Entries(scores) : ~Misses(e)
BY DEF ComputeVerdict

\* The flag DetectRubberStamp computes is Boolean.
LEMMA RubberStampIsBoolean ==
    ASSUME NEW scores
    PROVE  DetectRubberStamp(scores) \in BOOLEAN
BY DEF DetectRubberStamp

-----------------------------------------------------------------------------

\* The invariant holds before grade starts.
LEMMA InitIInv == Init => IInv
<1> SUFFICES ASSUME Init PROVE IInv
  OBVIOUS
<1>1. NoResult \in EvaluationResult
  <2>1. <<>> \in Seq(BenchmarkScore)
    OBVIOUS
  <2> QED BY <2>1 DEF NoResult, EvaluationResult
<1> QED BY <1>1 DEF Init, IInv, TypeOK, PhaseInv, StampInv, NoResult

\* Types are kept by every step.
LEMMA TypeStep == TypeOK /\ [Next]_vars => TypeOK'
<1> SUFFICES ASSUME TypeOK, [Next]_vars PROVE TypeOK'
  OBVIOUS
<1> USE DEF TypeOK
<1>1. ASSUME NEW o \in Outcomes, RunTestSuite(o) PROVE TypeOK'
  BY <1>1 DEF RunTestSuite
<1>2. ASSUME NEW os \in {{}} \cup {{o} : o \in Outcomes}, RunRegressionTests(os)
      PROVE  TypeOK'
  BY <1>2 DEF RunRegressionTests
<1>3. CASE GradeRaises
  BY <1>3 DEF GradeRaises
<1>4. ASSUME NEW scores \in Sheets \cup Seq(BenchmarkScore),
             NEW verdict \in {"PASS", "FAIL"}, NEW degraded \in BOOLEAN,
             Graded(scores, verdict, degraded)
      PROVE  TypeOK'
  <2>1. result' \in EvaluationResult
    BY <1>4, RubberStampIsBoolean DEF Graded, EvaluationResult
  <2> QED BY <1>4, <2>1 DEF Graded
<1>5. ASSUME NEW s \in Sheets, LlmGrade(s) PROVE TypeOK'
  BY <1>4, <1>5, VerdictMeetsThresholds DEF LlmGrade
<1>6. ASSUME NEW o \in Outcomes, FallbackGrade(o) PROVE TypeOK'
  BY <1>4, <1>6, VerdictMeetsThresholds, FallbackIsSheet DEF FallbackGrade
<1>7. ASSUME NEW r \in EvaluationResult, Mitigated(r) PROVE TypeOK'
  BY <1>7 DEF Mitigated
<1>8. CASE DetectRefusalToBeNegative
  <2>1. [result EXCEPT !.verdict = "FAIL", !.suspicious_approval = TRUE]
            \in EvaluationResult
    BY DEF EvaluationResult
  <2> QED BY <1>7, <1>8, <2>1 DEF DetectRefusalToBeNegative
<1>9. ASSUME NEW s \in Sheets, RePromptForHonesty(s) PROVE TypeOK'
  <2>1. [scores |-> s,
         verdict |-> IF Failures(hidden) THEN "FAIL" ELSE "PASS",
         degraded_evaluation |-> FALSE, suspicious_approval |-> FALSE,
         regression_result |-> result.regression_result,
         refusal_recovery |-> "re_prompt"] \in EvaluationResult
    BY DEF EvaluationResult
  <2> QED BY <1>7, <1>9, <2>1 DEF RePromptForHonesty
<1>10. ASSUME NEW o \in Outcomes, PersistentRefusal(o) PROVE TypeOK'
  <2>1. [scores |-> <<[criterion |-> "Overall", score |-> PassRate(o)]>>,
         verdict |-> "FAIL",
         degraded_evaluation |-> TRUE, suspicious_approval |-> FALSE,
         regression_result |-> {},
         refusal_recovery |-> "fallback"] \in EvaluationResult
    BY OverallIsSheet DEF EvaluationResult
  <2> QED BY <1>7, <1>10, <2>1 DEF PersistentRefusal
<1>11. CASE RegressionVeto
  <2>1. [result EXCEPT !.verdict = "FAIL"] \in EvaluationResult
    BY DEF EvaluationResult
  <2> QED BY <1>11, <2>1 DEF RegressionVeto
<1>12. CASE WriteOutput
  BY <1>12 DEF WriteOutput
<1>13. CASE WriteStatus
  BY <1>13 DEF WriteStatus
<1>14. CASE UNCHANGED vars
  BY <1>14 DEF vars
<1> QED
  BY <1>1, <1>2, <1>3, <1>5, <1>6, <1>8, <1>9, <1>10, <1>11, <1>12, <1>13,
     <1>14 DEF Next, Over

\* What is known of the result in each phase is kept by every step.
LEMMA PhaseStep == TypeOK /\ PhaseInv /\ [Next]_vars => PhaseInv'
<1> SUFFICES ASSUME TypeOK, PhaseInv, [Next]_vars PROVE PhaseInv'
  OBVIOUS
<1>1. ASSUME NEW o \in Outcomes, RunTestSuite(o) PROVE PhaseInv'
  BY <1>1 DEF RunTestSuite, PhaseInv
<1>2. ASSUME NEW os \in {{}} \cup {{o} : o \in Outcomes}, RunRegressionTests(os)
      PROVE  PhaseInv'
  BY <1>2 DEF RunRegressionTests, PhaseInv
<1>3. CASE GradeRaises
  BY <1>3 DEF GradeRaises, PhaseInv
<1>4. ASSUME NEW scores, NEW verdict, NEW degraded,
             pc = "llm", Graded(scores, verdict, degraded),
             verdict = "PASS" => \A e \in Entries(scores) : ~Misses(e),
             verdict = "FAIL" => \/ \E e \in Entries(scores) : Misses(e)
                                 \/ Failures(regression)
      PROVE  PhaseInv'
  <2>1. GradedInv'
    <3>1. /\ result'.regression_result = regression'
          /\ result'.verdict = verdict /\ result'.scores = scores
          /\ regression' = regression
      BY <1>4 DEF Graded
    <3> QED BY <1>4, <3>1 DEF GradedInv, Failures, Entries, Misses
  <2> QED BY <1>4, <2>1 DEF Graded, PhaseInv
<1>5. ASSUME NEW s \in Sheets, LlmGrade(s) PROVE PhaseInv'
  BY <1>4, <1>5, VerdictMeetsThresholds DEF LlmGrade
<1>6. ASSUME NEW o \in Outcomes, FallbackGrade(o) PROVE PhaseInv'
  BY <1>4, <1>6, VerdictMeetsThresholds DEF FallbackGrade
<1>7. ASSUME NEW r, pc = "refusal", Mitigated(r), MitigatedInv' PROVE PhaseInv'
  BY <1>7 DEF Mitigated, PhaseInv
<1>8. CASE DetectRefusalToBeNegative
  <2> DEFINE generous == /\ Failing(hidden) /\ result.scores # <<>>
                         /\ \A e \in Entries(result.scores) : e.score >= 50
  <2>1. GradedInv /\ pc = "refusal"
    BY <1>8 DEF DetectRefusalToBeNegative, PhaseInv
  <2>2. CASE generous
    <3> DEFINE r == [result EXCEPT !.verdict = "FAIL",
                                   !.suspicious_approval = TRUE]
    <3>1. Mitigated(r)
      BY <1>8, <2>2 DEF DetectRefusalToBeNegative
    <3>2. r.verdict = "FAIL" /\ r.regression_result = result.regression_result
      BY DEF TypeOK, EvaluationResult
    <3>3. MitigatedInv'
      <4> HIDE DEF r
      <4>1. /\ result' = r /\ Failing(hidden) /\ hidden' = hidden
            /\ regression' = regression
        BY <2>2, <3>1 DEF Mitigated
      <4>2. Failing(hidden')
        BY <4>1
      <4> QED BY <2>1, <3>2, <4>1, <4>2 DEF GradedInv, MitigatedInv
    <3> QED BY <1>7, <2>1, <3>1, <3>3
  <2>3. CASE ~generous
    <3>1. Mitigated(result)
      BY <1>8, <2>3 DEF DetectRefusalToBeNegative
    <3>2. \A e \in Entries(result.scores) : e.score \in Int
      <4>1. result.scores \in Seq(BenchmarkScore)
        BY SheetsAssumption DEF TypeOK, EvaluationResult
      <4>2. \A i \in DOMAIN result.scores : result.scores[i] \in BenchmarkScore
        BY <4>1
      <4>3. \A e \in BenchmarkScore : e.score \in Int
        BY DEF BenchmarkScore
      <4> QED BY <4>2, <4>3 DEF Entries
    <3>3. Failing(hidden) => \/ result.scores = <<>>
                             \/ \E e \in Entries(result.scores) : e.score < 50
      BY <2>3, <3>2
    <3>4. MitigatedInv
      BY <2>1, <3>3 DEF GradedInv, MitigatedInv
    <3>5. MitigatedInv'
      BY <3>1, <3>4 DEF Mitigated, MitigatedInv
    <3> QED BY <1>7, <2>1, <3>1, <3>5
  <2> QED BY <2>2, <2>3
<1>9. ASSUME NEW s \in Sheets, RePromptForHonesty(s) PROVE PhaseInv'
  <2>1. GradedInv /\ pc = "refusal"
    BY <1>9 DEF RePromptForHonesty, PhaseInv
  <2>2. /\ result'.verdict = "PASS" => ~Failures(hidden)
        /\ result'.refusal_recovery = "re_prompt"
        /\ result'.regression_result = result.regression_result
        /\ UNCHANGED <<hidden, regression>>
    BY <1>9 DEF RePromptForHonesty, Mitigated
  <2>3. Failing(hidden')
    BY <1>9, <2>2 DEF RePromptForHonesty, IsRefusal
  <2>4. MitigatedInv'
    BY <2>1, <2>2, <2>3 DEF GradedInv, MitigatedInv
  <2> QED BY <1>7, <1>9, <2>4 DEF RePromptForHonesty
<1>10. ASSUME NEW o \in Outcomes, PersistentRefusal(o) PROVE PhaseInv'
  <2>1. /\ result'.verdict = "FAIL" /\ result'.refusal_recovery = "fallback"
        /\ Failing(hidden')
    BY <1>10 DEF PersistentRefusal, Mitigated, IsRefusal
  <2>2. MitigatedInv'
    BY <2>1 DEF MitigatedInv
  <2> QED BY <1>7, <1>10, <2>2 DEF PersistentRefusal
<1>11. CASE RegressionVeto
  <2>1. /\ pc = "veto" /\ MitigatedInv /\ published = NoResult
        /\ pc' = "write" /\ UNCHANGED <<hidden, regression, published>>
    BY <1>11 DEF RegressionVeto, PhaseInv
  <2>2. CASE Failures(regression)
    <3>1. /\ result'.verdict = "FAIL"
          /\ result'.regression_result = result.regression_result
          /\ result'.refusal_recovery = result.refusal_recovery
          /\ Failures(regression')
      BY <1>11, <2>2 DEF RegressionVeto, TypeOK, EvaluationResult
    <3>2. MitigatedInv' /\ VetoedInv'
      BY <2>1, <3>1 DEF MitigatedInv, VetoedInv
    <3> QED BY <2>1, <3>2 DEF PhaseInv
  <2>3. CASE ~Failures(regression)
    <3>1. result' = result
      BY <1>11, <2>3 DEF RegressionVeto
    <3>2. MitigatedInv' /\ VetoedInv'
      BY <2>1, <2>3, <3>1 DEF MitigatedInv, VetoedInv
    <3> QED BY <2>1, <3>2 DEF PhaseInv
  <2> QED BY <2>2, <2>3
<1>12. CASE WriteOutput
  BY <1>12 DEF WriteOutput, PhaseInv, MitigatedInv, VetoedInv
<1>13. CASE WriteStatus
  BY <1>13 DEF WriteStatus, PhaseInv, MitigatedInv, VetoedInv
<1>14. CASE UNCHANGED vars
  BY <1>14 DEF vars, PhaseInv, GradedInv, MitigatedInv, VetoedInv
<1> QED
  BY <1>1, <1>2, <1>3, <1>5, <1>6, <1>8, <1>9, <1>10, <1>11, <1>12, <1>13,
     <1>14 DEF Next, Over

\* Scores are integers, which the provers ask for before they compare them.
LEMMA ScoreIsInt == \A b \in BenchmarkScore : b.score \in Int
BY DEF BenchmarkScore

\* A sheet that is no refusal of failing tests has a score below 7, and is no
\* rubber stamp.
LEMMA HonestIsNoStamp ==
    ASSUME NEW sheet \in Sheets, Failing(hidden), sheet # <<>>,
           ~IsRefusal(sheet)
    PROVE  ~DetectRubberStamp(sheet)
<1>1. PICK e \in Entries(sheet) : ~(e.score >= 70)
  BY DEF IsRefusal
<1>2. sheet \in Seq(BenchmarkScore)
  BY SheetsAssumption
<1>3. e.score \in Int
  <2>1. \A i \in DOMAIN sheet : sheet[i] \in BenchmarkScore
    BY <1>2
  <2> QED BY <2>1, ScoreIsInt DEF Entries
<1> QED BY <1>1, <1>3 DEF DetectRubberStamp

\* The flag of a rubber stamp is kept by every step.
LEMMA StampStep == TypeOK /\ StampInv /\ [Next]_vars => StampInv'
<1> SUFFICES ASSUME TypeOK, StampInv, [Next]_vars PROVE StampInv'
  OBVIOUS
<1>1. ASSUME NEW o \in Outcomes, RunTestSuite(o) PROVE StampInv'
  BY <1>1 DEF RunTestSuite, StampInv, DetectRubberStamp, Entries
<1>2. ASSUME NEW os \in {{}} \cup {{o} : o \in Outcomes}, RunRegressionTests(os)
      PROVE  StampInv'
  BY <1>2 DEF RunRegressionTests, StampInv, DetectRubberStamp, Entries
<1>3. ASSUME NEW scores, NEW verdict, NEW degraded,
             Graded(scores, verdict, degraded)
      PROVE  StampInv'
  <2>1. /\ result'.scores = scores
        /\ result'.suspicious_approval = DetectRubberStamp(scores)
    BY <1>3 DEF Graded
  <2> QED BY <2>1 DEF StampInv, DetectRubberStamp, Entries
<1>4. CASE DetectRefusalToBeNegative
  <2>1. \/ result'.verdict = "FAIL"
        \/ result' = result
    BY <1>4 DEF DetectRefusalToBeNegative, Mitigated, TypeOK, EvaluationResult
  <2> QED BY <2>1 DEF StampInv, DetectRubberStamp, Entries
<1>5. ASSUME NEW s \in Sheets, RePromptForHonesty(s) PROVE StampInv'
  <2>1. ~DetectRubberStamp(s)
    BY <1>5, HonestIsNoStamp DEF RePromptForHonesty, IsRefusal
  <2>2. result'.scores = s
    BY <1>5 DEF RePromptForHonesty, Mitigated
  <2> QED BY <2>1, <2>2 DEF StampInv, DetectRubberStamp, Entries
<1>6. ASSUME NEW o \in Outcomes, PersistentRefusal(o) PROVE StampInv'
  <2>1. result'.verdict = "FAIL"
    BY <1>6 DEF PersistentRefusal, Mitigated
  <2> QED BY <2>1 DEF StampInv
<1>7. CASE RegressionVeto
  <2>1. result'.verdict = "FAIL" \/ result' = result
    BY <1>7 DEF RegressionVeto, TypeOK, EvaluationResult
  <2> QED BY <2>1 DEF StampInv, DetectRubberStamp, Entries
<1>8. CASE UNCHANGED result
  BY <1>8 DEF StampInv, DetectRubberStamp, Entries
<1> QED
  BY <1>1, <1>2, <1>3, <1>4, <1>5, <1>6, <1>7, <1>8
  DEF Next, LlmGrade, FallbackGrade, GradeRaises, WriteOutput, WriteStatus,
      Over, vars

\* The inductive invariant holds of every grade.
THEOREM Invariant == Spec => []IInv
<1>1. IInv /\ [Next]_vars => IInv'
  BY TypeStep, PhaseStep, StampStep DEF IInv
<1> QED BY InitIInv, <1>1, PTL DEF Spec

-----------------------------------------------------------------------------

\* Types: a published result is always one EvaluationResult accepts; the
\* fallbacks' scores too, which no validation looks at.
THEOREM TypeCorrect == Spec => []TypeOK
<1>1. IInv => TypeOK
  BY DEF IInv
<1> QED BY Invariant, <1>1, PTL

\* Before anything is published there is no PASS.
LEMMA PublishedIsMitigated ==
    ASSUME IInv, published.verdict = "PASS"
    PROVE  published = result /\ MitigatedInv
<1>1. NoResult.verdict = "FAIL"
  BY DEF NoResult
<1> QED BY <1>1 DEF IInv, PhaseInv

\* A PASS over failing hidden tests (evaluator.grade) has one of three
\* reasons, for every rubric and whatever the model answers.
THEOREM PassHasReason == Spec => []PassOverFailures
<1>1. IInv => PassOverFailures
  BY PublishedIsMitigated DEF MitigatedInv, PassOverFailures
<1> QED BY Invariant, <1>1, PTL

\* A PASS meets every threshold unless it was re-prompted, and a FAIL misses one
\* unless a suite is to blame.
THEOREM VerdictIsReasoned == Spec => []VerdictHasReason
<1>1. IInv => VerdictHasReason
  BY PublishedIsMitigated
  DEF IInv, PhaseInv, MitigatedInv, VerdictHasReason
<1> QED BY Invariant, <1>1, PTL

\* What the reconciler and the record read of a published result; bugs are none
\* of the grade's decisions.
AsRead(bugs) ==
    [scores |-> published.scores, verdict |-> published.verdict, bugs |-> bugs,
     veto |-> Failing(hidden) \/ Failures(regression),
     reprompted |-> published.refusal_recovery = "re_prompt"]

R == INSTANCE Reconciler

\* What grade returns is what RunRecord assumes of the results it records
\* (ResultsAssumption): a result whose verdict has a reason.
THEOREM PublishedIsReasoned ==
    Spec => [](pc = "returned" =>
                  \A bugs \in Seq(R!BugReport) :
                     /\ AsRead(bugs) \in R!EvaluationResult
                     /\ R!HasReason(AsRead(bugs), Threshold))
<1> DEFINE Goal(bugs) == /\ AsRead(bugs) \in R!EvaluationResult
                         /\ R!HasReason(AsRead(bugs), Threshold)
<1>0. ASSUME TypeOK, VerdictHasReason, pc = "returned",
             NEW bugs \in Seq(R!BugReport)
      PROVE  Goal(bugs)
  <2>1. published.scores \in Seq(R!BenchmarkScore)
    <3>1. published.scores \in Seq(BenchmarkScore)
      BY <1>0, SheetsAssumption DEF TypeOK, EvaluationResult
    <3>2. BenchmarkScore \subseteq R!BenchmarkScore
      BY NamesAssumption DEF BenchmarkScore, R!BenchmarkScore
    <3> QED BY <3>1, <3>2
  <2>2. AsRead(bugs) \in R!EvaluationResult
    BY <1>0, <2>1 DEF TypeOK, EvaluationResult, AsRead, R!EvaluationResult, Failing, Failures
  <2>3. (\E i \in DOMAIN AsRead(bugs).scores :
            R!Missed(AsRead(bugs).scores[i], Threshold))
          <=> \E e \in Entries(published.scores) : Misses(e)
    BY CriteriaAssumption DEF AsRead, R!Missed, Misses, Entries
  <2>4. R!HasReason(AsRead(bugs), Threshold)
    BY <1>0, <2>3 DEF VerdictHasReason, R!HasReason, AsRead, TypeOK, EvaluationResult
  <2> QED BY <2>2, <2>4
<1>1. TypeOK /\ VerdictHasReason =>
        (pc = "returned" => \A bugs \in Seq(R!BugReport) : Goal(bugs))
  BY <1>0
<1> QED BY TypeCorrect, VerdictIsReasoned, <1>1, PTL

\* A PASS on nothing but high scores (evaluator._detect_rubber_stamp) carries
\* its flag to the file, on every path.
THEOREM StampsAreFlagged == Spec => []RubberStampFlagged
<1>1. IInv => RubberStampFlagged
  BY PublishedIsMitigated DEF IInv, StampInv, RubberStampFlagged
<1> QED BY Invariant, <1>1, PTL

\* No path through the mitigations gets a failed regression test past the veto.
THEOREM RegressionVetoes == Spec => []RegressionIsFail
<1>1. IInv => RegressionIsFail
  BY DEF IInv, PhaseInv, VetoedInv, RegressionIsFail
<1> QED BY Invariant, <1>1, PTL

\* The regression result is lost only by a grade that is a fallback FAIL.
THEOREM EvidenceStays == Spec => []EvidenceKept
<1>1. IInv => EvidenceKept
  BY DEF IInv, PhaseInv, MitigatedInv, EvidenceKept
<1> QED BY Invariant, <1>1, PTL

\* After grading a FAIL stays a FAIL, whichever mitigation or veto follows,
\* unless a re-prompt met a suite without failed tests.
THEOREM FailStaysFail == Spec => MitigationsHarden
<1> DEFINE Step == result'.verdict = "PASS" /\ pc \in {"refusal", "veto"} =>
                     \/ result.verdict = "PASS"
                     \/ result'.refusal_recovery = "re_prompt"
                        /\ ~Failures(hidden)
<1>1. TypeOK /\ [Next]_vars => [Step]_vars
  <2> SUFFICES ASSUME TypeOK, Next, result'.verdict = "PASS",
                      pc \in {"refusal", "veto"}
               PROVE  \/ result.verdict = "PASS"
                      \/ result'.refusal_recovery = "re_prompt"
                         /\ ~Failures(hidden)
    OBVIOUS
  <2>1. CASE DetectRefusalToBeNegative
    BY <2>1 DEF DetectRefusalToBeNegative, Mitigated, TypeOK, EvaluationResult
  <2>2. ASSUME NEW s \in Sheets, RePromptForHonesty(s)
        PROVE  result'.refusal_recovery = "re_prompt" /\ ~Failures(hidden)
    BY <2>2 DEF RePromptForHonesty, Mitigated
  <2>3. ASSUME NEW o \in Outcomes, PersistentRefusal(o) PROVE FALSE
    BY <2>3 DEF PersistentRefusal, Mitigated
  <2>4. CASE RegressionVeto
    BY <2>4 DEF RegressionVeto, TypeOK, EvaluationResult
  <2>5. CASE Over
    BY <2>5 DEF Over, vars
  <2> QED
    BY <2>1, <2>2, <2>3, <2>4, <2>5
    DEF Next, RunTestSuite, RunRegressionTests, GradeRaises, LlmGrade,
        FallbackGrade, WriteOutput, WriteStatus
<1>2. Spec => [][Step]_vars
  BY TypeCorrect, <1>1, PTL DEF Spec
<1> QED BY <1>2 DEF MitigationsHarden
=============================================================================
