----------------------------- MODULE Evaluator -----------------------------
(***************************************************************************)
(* One call of EvaluatorAgent.grade (agents/evaluator.py): two suite runs, *)
(* a model's score sheet or the fallback that replaces it, the Goodhart    *)
(* mitigations, the regression veto and the file it publishes.             *)
(*                                                                         *)
(* What varies is what the code cannot choose: how each suite run comes    *)
(* out and what the model answers, both times it is asked.  The model      *)
(* stands behind call_llm and the copilot executor.  (At this commit       *)
(* call_llm is a stub that answers no JSON, which is one of the answers    *)
(* modelled.)  Scores are in tenths of a point.  Fixtures and bugs reach   *)
(* the prompt and the report but no decision, and are left out.            *)
(***************************************************************************)
EXTENDS Integers, Sequences

CONSTANTS
    Criteria,    \* names in the criteria file, in its order
    OffRubric,   \* other names a model may score
    Threshold,   \* criterion -> tenths, its passing score
    Sheets,      \* score sheets a model may answer with
    Outcomes     \* results a suite run may have (SuiteExecution)

Names == {Criteria[i] : i \in DOMAIN Criteria} \cup OffRubric \cup {"Overall"}

BenchmarkScore == [criterion : Names, score : 0..100]

ASSUME CriteriaAssumption ==
    /\ Criteria \in Seq(STRING)
    /\ Threshold \in [{Criteria[i] : i \in DOMAIN Criteria} -> 10..100]
ASSUME OffRubricAssumption ==
    \A n \in OffRubric : \A i \in DOMAIN Criteria : n # Criteria[i]
ASSUME NamesAssumption == Names \subseteq STRING
ASSUME SheetsAssumption == Sheets \subseteq Seq(BenchmarkScore)
ASSUME OutcomesAssumption ==
    Outcomes \subseteq
        [passed : Nat, failed : Nat, errors : Nat, execution_ok : BOOLEAN]

VARIABLES
    pc,          \* the phase of grade about to run
    hidden,      \* {eval_test_result}, empty before the suite ran
    regression,  \* {regression_result}, empty for None
    result,      \* the EvaluationResult under construction
    published,   \* evaluations/eval_iter{n}.json
    agentStatus  \* evaluator.status

vars == <<pc, hidden, regression, result, published, agentStatus>>

-----------------------------------------------------------------------------
(* Data *)

EvaluationResult ==
    [scores              : Sheets \cup Seq(BenchmarkScore),
     verdict             : {"PASS", "FAIL"},
     degraded_evaluation : BOOLEAN,
     suspicious_approval : BOOLEAN,
     regression_result   : SUBSET Outcomes,
     refusal_recovery    : {"", "re_prompt", "fallback"}]

NoResult ==
    [scores |-> <<>>, verdict |-> "FAIL", degraded_evaluation |-> FALSE,
     suspicious_approval |-> FALSE, regression_result |-> {},
     refusal_recovery |-> ""]

Entries(scores) == {scores[i] : i \in DOMAIN scores}

Failing(suites) == \E s \in suites : s.failed > 0 \/ s.errors > 0
Failures(suites) == \E s \in suites : s.failed > 0

\* An entry below the threshold of the criterion it names.
Misses(e) == \E i \in DOMAIN Criteria :
                 e.criterion = Criteria[i] /\ e.score < Threshold[Criteria[i]]

\* Definitions named X_HowItBreaks are X with a plausible bug, for the mutants.
ComputeVerdict_FirstOnly(scores) ==
    IF scores # <<>> /\ Misses(scores[1]) THEN "FAIL" ELSE "PASS"

ComputeVerdict(scores) ==
    IF \E e \in Entries(scores) : Misses(e) THEN "FAIL" ELSE "PASS"

DetectRubberStamp(scores) ==
    scores # <<>> /\ \A e \in Entries(scores) : e.score >= 90

IsRefusal(scores) ==
    Failing(hidden) /\ scores # <<>> /\ \A e \in Entries(scores) : e.score >= 70

PassRate_OfPercent(suite) == 100 * suite.passed

\* round(10 * pass rate, 1) in tenths.  A tie goes to the even tenth here; in
\* floats some ties round the other way, which no property tells apart.
PassRate(suite) ==
    LET total == suite.passed + suite.failed + suite.errors
        n     == IF total = 0 THEN 1 ELSE total
        down  == (100 * suite.passed) \div n
        rest  == 2 * ((100 * suite.passed) % n)
    IN  IF rest > n \/ (rest = n /\ down % 2 = 1) THEN down + 1 ELSE down

FallbackScores(suite) ==
    [i \in DOMAIN Criteria |->
        [criterion |-> Criteria[i], score |-> PassRate(suite)]]

-----------------------------------------------------------------------------

Init ==
    /\ pc = "hidden"
    /\ hidden = {} /\ regression = {}
    /\ result = NoResult /\ published = NoResult
    /\ agentStatus = "none"

RunTestSuite(o) ==
    /\ pc = "hidden"
    /\ agentStatus' = "grading"
    /\ hidden' = {o}
    /\ pc' = "regression"
    /\ UNCHANGED <<regression, result, published>>

\* The visible suite is run when the code has a tests or test directory.
RunRegressionTests(os) ==
    /\ pc = "regression"
    /\ regression' = os
    /\ pc' = "llm"
    /\ UNCHANGED <<hidden, result, published, agentStatus>>

\* What the suites, the criteria file and the fixtures raise leaves grade.
GradeRaises ==
    /\ pc \in {"hidden", "regression"}
    /\ agentStatus' = "grading"
    /\ pc' = "raised"
    /\ UNCHANGED <<hidden, regression, result, published>>

Graded(scores, verdict, degraded) ==
    /\ result' = [scores |-> scores, verdict |-> verdict,
                  degraded_evaluation |-> degraded,
                  suspicious_approval |-> DetectRubberStamp(scores),
                  regression_result |-> regression,
                  refusal_recovery |-> ""]
    /\ pc' = "refusal"
    /\ UNCHANGED <<hidden, regression, published, agentStatus>>

LlmGrade(sheet) == pc = "llm" /\ Graded(sheet, ComputeVerdict(sheet), FALSE)

\* The call fails, or the answer is no score sheet: the pass rate of the
\* hidden suite stands in for every criterion.
FallbackGrade(suite) ==
    /\ pc = "llm" /\ suite \in hidden
    /\ LET scores == FallbackScores(suite)
       IN  Graded(scores,
                  IF Failures(regression) THEN "FAIL" ELSE ComputeVerdict(scores),
                  TRUE)

Mitigated(r) ==
    /\ result' = r
    /\ pc' = "veto"
    /\ UNCHANGED <<hidden, regression, published, agentStatus>>

DetectRefusalToBeNegative_KeepsVerdict ==
    /\ pc = "refusal" /\ ~IsRefusal(result.scores)
    /\ LET generous == /\ Failing(hidden) /\ result.scores # <<>>
                       /\ \A e \in Entries(result.scores) : e.score >= 50
       IN  Mitigated(IF generous
                     THEN [result EXCEPT !.suspicious_approval = TRUE]
                     ELSE result)

\* No refusal: failing tests without a score below 5 still override to FAIL.
DetectRefusalToBeNegative ==
    /\ pc = "refusal" /\ ~IsRefusal(result.scores)
    /\ LET generous == /\ Failing(hidden) /\ result.scores # <<>>
                       /\ \A e \in Entries(result.scores) : e.score >= 50
       IN  Mitigated(IF generous
                     THEN [result EXCEPT !.verdict = "FAIL",
                                         !.suspicious_approval = TRUE]
                     ELSE result)

\* A refusal: the model is asked again, and its second sheet, if it has
\* scores and is no refusal, replaces the first.  Its verdict looks at the
\* failed tests alone.
RePromptForHonesty_TrustsTheSheet(sheet) ==
    /\ pc = "refusal" /\ IsRefusal(result.scores)
    /\ sheet # <<>> /\ ~IsRefusal(sheet)
    /\ Mitigated([scores |-> sheet,
                  verdict |-> ComputeVerdict(sheet),
                  degraded_evaluation |-> FALSE,
                  suspicious_approval |-> FALSE,
                  regression_result |-> result.regression_result,
                  refusal_recovery |-> "re_prompt"])

RePromptForHonesty_LosesEvidence(sheet) ==
    /\ pc = "refusal" /\ IsRefusal(result.scores)
    /\ sheet # <<>> /\ ~IsRefusal(sheet)
    /\ Mitigated([scores |-> sheet,
                  verdict |-> IF Failures(hidden) THEN "FAIL" ELSE "PASS",
                  degraded_evaluation |-> FALSE,
                  suspicious_approval |-> FALSE,
                  regression_result |-> {},
                  refusal_recovery |-> "re_prompt"])

RePromptForHonesty(sheet) ==
    /\ pc = "refusal" /\ IsRefusal(result.scores)
    /\ sheet # <<>> /\ ~IsRefusal(sheet)
    /\ Mitigated([scores |-> sheet,
                  verdict |-> IF Failures(hidden) THEN "FAIL" ELSE "PASS",
                  degraded_evaluation |-> FALSE,
                  suspicious_approval |-> FALSE,
                  regression_result |-> result.regression_result,
                  refusal_recovery |-> "re_prompt"])

PersistentRefusal_ByScore(suite) ==
    /\ pc = "refusal" /\ IsRefusal(result.scores)
    /\ suite \in hidden
    /\ LET scores == <<[criterion |-> "Overall", score |-> PassRate(suite)]>>
       IN  Mitigated([scores |-> scores, verdict |-> ComputeVerdict(scores),
                      degraded_evaluation |-> TRUE,
                      suspicious_approval |-> FALSE,
                      regression_result |-> {},
                      refusal_recovery |-> "fallback"])

\* The second answer raises, is no JSON, holds no scores or refuses again:
\* one "Overall" score from the pass rate, without the regression result.
PersistentRefusal(suite) ==
    /\ pc = "refusal" /\ IsRefusal(result.scores)
    /\ suite \in hidden
    /\ Mitigated([scores |-> <<[criterion |-> "Overall",
                                score |-> PassRate(suite)]>>,
                  verdict |-> "FAIL",
                  degraded_evaluation |-> TRUE,
                  suspicious_approval |-> FALSE,
                  regression_result |-> {},
                  refusal_recovery |-> "fallback"])

RegressionVeto_DegradedOnly ==
    /\ pc = "veto"
    /\ result' = IF Failures(regression) /\ result.degraded_evaluation
                 THEN [result EXCEPT !.verdict = "FAIL"] ELSE result
    /\ pc' = "write"
    /\ UNCHANGED <<hidden, regression, published, agentStatus>>

\* Regression = automatic FAIL.
RegressionVeto ==
    /\ pc = "veto"
    /\ result' = IF Failures(regression)
                 THEN [result EXCEPT !.verdict = "FAIL"] ELSE result
    /\ pc' = "write"
    /\ UNCHANGED <<hidden, regression, published, agentStatus>>

\* _write_output, then the agent's status.
WriteOutput ==
    /\ pc = "write"
    /\ published' = result
    /\ pc' = "writeStatus"
    /\ UNCHANGED <<hidden, regression, result, agentStatus>>

WriteStatus ==
    /\ pc = "writeStatus"
    /\ agentStatus' = "done"
    /\ pc' = "returned"
    /\ UNCHANGED <<hidden, regression, result, published>>

Over == pc \in {"returned", "raised"} /\ UNCHANGED vars

Next ==
    \/ \E o \in Outcomes : RunTestSuite(o)
    \/ \E os \in {{}} \cup {{o} : o \in Outcomes} : RunRegressionTests(os)
    \/ GradeRaises
    \/ \E s \in Sheets : LlmGrade(s)
    \/ \E o \in Outcomes : FallbackGrade(o)
    \/ DetectRefusalToBeNegative
    \/ \E s \in Sheets : RePromptForHonesty(s)
    \/ \E o \in Outcomes : PersistentRefusal(o)
    \/ RegressionVeto \/ WriteOutput \/ WriteStatus \/ Over

Spec == Init /\ [][Next]_vars

-----------------------------------------------------------------------------
(* Properties *)

\* Type correctness.
TypeOK ==
    /\ pc \in {"hidden", "regression", "llm", "refusal", "veto", "write",
               "writeStatus", "returned", "raised"}
    /\ hidden \subseteq Outcomes
    /\ regression \subseteq Outcomes
    /\ result \in EvaluationResult
    /\ published \in EvaluationResult
    /\ agentStatus \in {"none", "grading", "done"}

\* A PASS is published over failing hidden tests in three cases only: the
\* sheet is empty, its low score names no criterion it would fail, or a
\* re-prompted sheet was judged by failed tests where there were only errors.
PassOverFailures ==
    published.verdict = "PASS" /\ Failing(hidden) =>
        \/ published.scores = <<>>
        \/ \E e \in Entries(published.scores) : e.score < 50 /\ ~Misses(e)
        \/ published.refusal_recovery = "re_prompt" /\ ~Failures(hidden)

\* A failed regression test fails the grade, whatever became of the result
\* and of the regression evidence on the way.
RegressionIsFail ==
    pc = "returned" /\ Failures(regression) => published.verdict = "FAIL"

\* The evidence a PASS rests on is published with it: only a fallback FAIL
\* loses the regression result.
EvidenceKept ==
    pc = "returned" /\ published.regression_result # regression =>
        published.verdict = "FAIL" /\ published.refusal_recovery = "fallback"

\* A PASS with nothing but scores of 9 and above is flagged, on every path to
\* it: the flag is set before the mitigations replace the result.
RubberStampFlagged ==
    published.verdict = "PASS" /\ DetectRubberStamp(published.scores) =>
        published.suspicious_approval

\* A verdict has a reason, whichever path made it: a PASS meets the threshold
\* of every criterion it scores, unless it was re-prompted, for that verdict
\* ignores the thresholds; a FAIL misses one, or a suite did not come out clean.
VerdictHasReason ==
    /\ published.verdict = "PASS" =>
          \/ \A e \in Entries(published.scores) : ~Misses(e)
          \/ published.refusal_recovery = "re_prompt" /\ ~Failures(hidden)
    /\ pc = "returned" /\ published.verdict = "FAIL" =>
          \/ \E e \in Entries(published.scores) : Misses(e)
          \/ Failing(hidden) \/ Failures(regression)

\* What happens after grading makes a FAIL of a PASS; it makes a PASS of a
\* FAIL only by a re-prompt over tests that erred without failing.
MitigationsHarden ==
    [][result'.verdict = "PASS" /\ pc \in {"refusal", "veto"} =>
          \/ result.verdict = "PASS"
          \/ result'.refusal_recovery = "re_prompt" /\ ~Failures(hidden)]_vars

-----------------------------------------------------------------------------
(* What the project's documents say and the code does not do               *)

\* docs/designs/v1-cli-benchmark-harness.md:144: passing the hidden tests is
\* necessary (though not sufficient) for a PASS.
PassNeedsTests == published.verdict = "PASS" => ~Failing(hidden)

-----------------------------------------------------------------------------
(* The inductive invariant behind the safety properties                    *)

\* What is known of the result once it was graded, after the mitigations, and
\* after the veto.
GradedInv ==
    /\ result.regression_result = regression
    /\ result.verdict = "PASS" => \A e \in Entries(result.scores) : ~Misses(e)
    /\ result.verdict = "FAIL" =>
          (\E e \in Entries(result.scores) : Misses(e)) \/ Failures(regression)

MitigatedInv ==
    /\ result.verdict = "FAIL" =>
          \/ \E e \in Entries(result.scores) : Misses(e)
          \/ Failing(hidden) \/ Failures(regression)
    /\ result.verdict = "PASS" =>
          \/ /\ \A e \in Entries(result.scores) : ~Misses(e)
             /\ Failing(hidden) => \/ result.scores = <<>>
                                   \/ \E e \in Entries(result.scores) : e.score < 50
          \/ result.refusal_recovery = "re_prompt" /\ ~Failures(hidden)
    /\ result.regression_result # regression =>
          result.verdict = "FAIL" /\ result.refusal_recovery = "fallback"

VetoedInv == Failures(regression) => result.verdict = "FAIL"

\* In every phase: only sheets that are no rubber stamp lose the flag.
StampInv ==
    result.verdict = "PASS" /\ DetectRubberStamp(result.scores) =>
        result.suspicious_approval

PhaseInv ==
    /\ pc = "refusal" => GradedInv
    /\ pc \in {"veto", "write", "writeStatus", "returned"} => MitigatedInv
    /\ pc \in {"write", "writeStatus", "returned"} => VetoedInv
    /\ IF pc \in {"writeStatus", "returned"}
       THEN published = result ELSE published = NoResult

IInv == TypeOK /\ PhaseInv /\ StampInv
=============================================================================
