------------------------- MODULE ShellPipelineProofs -------------------------
(***************************************************************************)
(* What the script's manifest says, for any number of iterations.  IInv    *)
(* states whose values the script's globals hold at each of its phases,    *)
(* since none of them is ever reset.                                       *)
(***************************************************************************)
EXTENDS ShellPipeline, TLAPS

USE MaxIterationsAssumption

\* What Judge does to the list of evaluations.
LEMMA LastEvaluation ==
    ASSUME DataOK, NEW e \in [suites : SuiteRun, claims : BOOLEAN],
           evaluated' = Append(evaluated, e)
    PROVE  /\ evaluated' # <<>> /\ Len(evaluated') = Len(evaluated) + 1
           /\ evaluated' \in Seq([suites : SuiteRun, claims : BOOLEAN])
           /\ Last(evaluated') = e
  BY DEF DataOK, Last

\* The last of some elements is one of them.
LEMMA LastInSet ==
    ASSUME NEW S, NEW s \in Seq(S), s # <<>>
    PROVE  Last(s) \in S
  <1>1. Len(s) \in Nat /\ s \in [1..Len(s) -> S]
    OBVIOUS
  <1>2. Len(s) # 0
    BY <1>1
  <1>3. Len(s) \in 1..Len(s)
    BY <1>1, <1>2
  <1>q. QED
    BY <1>1, <1>3 DEF Last

\* A script that ends without a record has said so in its exit code.
LEMMA NoRecord ==
    ASSUME manifest' = NoManifest, exit' # 0
    PROVE  PassIsEarned' /\ OneIterationRecorded'
  BY DEF PassIsEarned, OneIterationRecorded

\* Every step keeps the types.
LEMMA TypeStep ==
    ASSUME TypeOK, DataOK, CountInv, [Next]_vars
    PROVE  TypeOK'
  <1> USE DEF TypeOK, DataOK, CountInv, NoSuites, globals
  <1>1. CASE PlannerSucceeds
    BY <1>1 DEF PlannerSucceeds
  <1>2. CASE PlannerFails \/ SuiteCommandFails
    BY <1>2 DEF PlannerFails, SuiteCommandFails, Abort
  <1>3. CASE StartIteration
    <2>1. iteration' \in 0..MaxIterations
      BY <1>3 DEF StartIteration
    <2>q. QED
      BY <1>3, <2>1 DEF StartIteration
  <1>4. CASE LeaveLoop
    BY <1>4 DEF LeaveLoop
  <1>5. CASE GeneratorSucceeds
    BY <1>5 DEF GeneratorSucceeds
  <1>6. CASE GeneratorFails
    BY <1>6 DEF GeneratorFails, Abort
  <1>7. CASE RunSuites
    <2>1. iteration \in 1..MaxIterations
      BY <1>7 DEF RunSuites
    <2>2. suites' \in [by : 1..MaxIterations, visible : Suites, hidden : Suites]
      BY <1>7, <2>1 DEF RunSuites
    <2>3. validity' \in {"clean", "harness_error", "tainted"}
      BY <1>7 DEF RunSuites
    <2>q. QED
      BY <1>7, <2>2, <2>3 DEF RunSuites
  <1>8. ASSUME NEW a \in Answers, pc = "evaluator", ~Unfit(a), Judge(a)
        PROVE  TypeOK'
    BY <1>8 DEF Judge, Answers
  <1>9. CASE pc = "evaluator" /\ Abort
    BY <1>9 DEF Abort
  <1>10. CASE AppendSprintMetric
    <2>1. sprints' \in 0..MaxIterations
      <3>1. CASE scores.shape = "notOne"
        BY <1>10, <3>1 DEF AppendSprintMetric, Abort
      <3>2. CASE scores.shape # "notOne"
        <4>1. sprints' = Len(evaluated) /\ Len(evaluated) <= iteration
          BY <1>10, <3>2 DEF AppendSprintMetric
        <4>q. QED
          BY <4>1
      <3>q. QED
        BY <3>1, <3>2
    <2>q. QED
      BY <1>10, <2>1 DEF AppendSprintMetric, Abort
  <1>11. CASE WriteIterationFeedback
    BY <1>11 DEF WriteIterationFeedback, Abort
  <1>12. CASE WriteCanonicalManifest
    BY <1>12 DEF WriteCanonicalManifest, Abort
  <1>13. CASE UNCHANGED vars
    BY <1>13 DEF vars
  <1>q. QED
    BY <1>1, <1>2, <1>3, <1>4, <1>5, <1>6, <1>7, <1>8, <1>9, <1>10, <1>11, <1>12, <1>13
       DEF Next, Evaluate

\* Every step keeps the types of the evaluations and of the scores.
LEMMA DataStep ==
    ASSUME TypeOK, DataOK, GlobalsInv, [Next]_vars
    PROVE  DataOK'
  <1> USE DEF TypeOK, DataOK, GlobalsInv, globals
  <1>1. CASE PlannerSucceeds
    BY <1>1 DEF PlannerSucceeds
  <1>2. CASE PlannerFails \/ SuiteCommandFails
    BY <1>2 DEF PlannerFails, SuiteCommandFails, Abort
  <1>3. CASE StartIteration
    BY <1>3 DEF StartIteration
  <1>4. CASE LeaveLoop
    BY <1>4 DEF LeaveLoop
  <1>5. CASE GeneratorSucceeds
    BY <1>5 DEF GeneratorSucceeds
  <1>6. CASE GeneratorFails
    BY <1>6 DEF GeneratorFails, Abort
  <1>7. CASE RunSuites
    BY <1>7 DEF RunSuites
  <1>8. ASSUME NEW a \in Answers, pc = "evaluator", ~Unfit(a), Judge(a)
        PROVE  DataOK'
    <2>1. [suites |-> suites, claims |-> a.claims] \in [suites : SuiteRun, claims : BOOLEAN]
      BY <1>8 DEF Answers
    <2>2. evaluated' \in Seq([suites : SuiteRun, claims : BOOLEAN])
      BY <1>8, <2>1, LastEvaluation DEF Judge
    <2>3. scores' \in [by : 0..MaxIterations, shape : Shapes, max : {1, 5, 10}]
      BY <1>8 DEF Judge, Answers
    <2>q. QED
      BY <2>2, <2>3
  <1>9. CASE pc = "evaluator" /\ Abort
    BY <1>9 DEF Abort
  <1>10. CASE AppendSprintMetric
    BY <1>10 DEF AppendSprintMetric, Abort
  <1>11. CASE WriteIterationFeedback
    BY <1>11 DEF WriteIterationFeedback, Abort
  <1>12. CASE WriteCanonicalManifest
    BY <1>12 DEF WriteCanonicalManifest, Abort
  <1>13. CASE UNCHANGED vars
    BY <1>13 DEF vars
  <1>q. QED
    BY <1>1, <1>2, <1>3, <1>4, <1>5, <1>6, <1>7, <1>8, <1>9, <1>10, <1>11, <1>12, <1>13
       DEF Next, Evaluate

\* Every step keeps the counts.
LEMMA CountStep ==
    ASSUME TypeOK, DataOK, CountInv, GlobalsInv, [Next]_vars
    PROVE  CountInv'
  <1> USE DEF TypeOK, DataOK, CountInv, GlobalsInv, globals
  <1>1. CASE PlannerSucceeds
    BY <1>1 DEF PlannerSucceeds
  <1>2. CASE PlannerFails \/ SuiteCommandFails
    BY <1>2 DEF PlannerFails, SuiteCommandFails, Abort
  <1>3. CASE StartIteration
    <2>1. iteration' = iteration + 1 /\ pc = "loop" /\ pc' = "generator"
          /\ UNCHANGED <<mode, verdict, sprints, manifest, exit, evaluated>>
      BY <1>3 DEF StartIteration
    <2>2. Len(evaluated) \in Nat /\ iteration \in Nat
      OBVIOUS
    <2>q. QED
      BY ONLY <2>1, <2>2, CountInv DEF CountInv
  <1>4. CASE LeaveLoop
    BY <1>4 DEF LeaveLoop
  <1>5. CASE GeneratorSucceeds
    BY <1>5 DEF GeneratorSucceeds
  <1>6. CASE GeneratorFails
    BY <1>6 DEF GeneratorFails, Abort
  <1>7. CASE RunSuites
    BY <1>7 DEF RunSuites
  <1>8. ASSUME NEW a \in Answers, pc = "evaluator", ~Unfit(a), Judge(a)
        PROVE  CountInv'
    <2>1. [suites |-> suites, claims |-> a.claims] \in [suites : SuiteRun, claims : BOOLEAN]
      BY <1>8 DEF Answers
    <2>2. evaluated' # <<>> /\ Len(evaluated') = Len(evaluated) + 1
      BY <1>8, <2>1, LastEvaluation DEF Judge
    <2>3. verdict' # "INCOMPLETE"
      BY <1>8 DEF Judge, Answers
    <2>4. /\ pc = "evaluator" /\ pc' = IF mode = "trio" THEN "sprint" ELSE "telemetry"
          /\ UNCHANGED <<mode, iteration, sprints, manifest, exit>>
      BY <1>8 DEF Judge
    <2>5. Len(evaluated) \in Nat /\ iteration \in Nat /\ mode \in {"solo", "trio"}
      OBVIOUS
    <2>q. QED
      BY ONLY <2>2, <2>3, <2>4, <2>5, CountInv DEF CountInv
  <1>9. CASE pc = "evaluator" /\ Abort
    BY <1>9 DEF Abort
  <1>10. CASE AppendSprintMetric
    <2>1. CASE scores.shape = "notOne"
      BY <1>10, <2>1 DEF AppendSprintMetric, Abort
    <2>2. CASE scores.shape # "notOne"
      <3>1. /\ pc = "sprint" /\ sprints' = sprints + 1
            /\ pc' \in {"telemetry", "feedback"}
            /\ UNCHANGED <<mode, iteration, verdict, manifest, exit, evaluated>>
        BY <1>10, <2>2 DEF AppendSprintMetric
      <3>2. Len(evaluated) \in Nat
        OBVIOUS
      <3>q. QED
        BY ONLY <3>1, <3>2, CountInv DEF CountInv
    <2>q. QED
      BY <2>1, <2>2
  <1>11. CASE WriteIterationFeedback
    BY <1>11 DEF WriteIterationFeedback, Abort
  <1>12. CASE WriteCanonicalManifest
    BY <1>12 DEF WriteCanonicalManifest, Abort
  <1>13. CASE UNCHANGED vars
    BY <1>13 DEF vars
  <1>q. QED
    BY <1>1, <1>2, <1>3, <1>4, <1>5, <1>6, <1>7, <1>8, <1>9, <1>10, <1>11, <1>12, <1>13
       DEF Next, Evaluate

\* Every step keeps whose values the globals hold.
LEMMA GlobalsStep ==
    ASSUME TypeOK, DataOK, CountInv, GlobalsInv, [Next]_vars
    PROVE  GlobalsInv'
  <1> USE DEF TypeOK, DataOK, CountInv, GlobalsInv, LastSuites, globals
  <1>1. CASE PlannerSucceeds
    BY <1>1 DEF PlannerSucceeds
  <1>2. CASE PlannerFails \/ SuiteCommandFails
    BY <1>2 DEF PlannerFails, SuiteCommandFails, Abort
  <1>3. CASE StartIteration
    BY <1>3 DEF StartIteration
  <1>4. CASE LeaveLoop
    BY <1>4 DEF LeaveLoop
  <1>5. CASE GeneratorSucceeds
    BY <1>5 DEF GeneratorSucceeds
  <1>6. CASE GeneratorFails
    BY <1>6 DEF GeneratorFails, Abort
  <1>7. CASE RunSuites
    <2>1. iteration \in 1..MaxIterations
      BY <1>7 DEF RunSuites
    <2>2. suites' \in SuiteRun /\ suites'.by = iteration
      BY <1>7, <2>1 DEF RunSuites, SuiteRun
    <2>3. Untrusted(suites') => validity' # "clean"
      BY <1>7 DEF RunSuites
    <2>q. QED
      BY <1>7, <2>2, <2>3 DEF RunSuites
  <1>8. ASSUME NEW a \in Answers, pc = "evaluator", ~Unfit(a), Judge(a)
        PROVE  GlobalsInv'
    <2>1. [suites |-> suites, claims |-> a.claims] \in [suites : SuiteRun, claims : BOOLEAN]
      BY <1>8 DEF Answers
    <2>2. evaluated' # <<>>
          /\ Last(evaluated') = [suites |-> suites, claims |-> a.claims]
      BY <1>8, <2>1, LastEvaluation DEF Judge
    <2>3. suites' = suites /\ suites = LastSuites'
      BY <1>8, <2>2 DEF Judge
    <2>4. /\ scores'.by = iteration /\ evalFile' = iteration
          /\ pc' \in {"sprint", "telemetry"}
          /\ scores'.max = IF validity' # "clean" THEN 1
                           ELSE IF Failing(suites) THEN 5 ELSE 10
      BY <1>8 DEF Judge
    <2>5. suites.by = iteration
      BY <1>8
    <2>q. QED
      BY ONLY <2>3, <2>4, <2>5 DEF GlobalsInv
  <1>9. CASE pc = "evaluator" /\ Abort
    BY <1>9 DEF Abort
  <1>10. CASE AppendSprintMetric
    BY <1>10 DEF AppendSprintMetric, Abort
  <1>11. CASE WriteIterationFeedback
    BY <1>11 DEF WriteIterationFeedback, Abort
  <1>12. CASE WriteCanonicalManifest
    BY <1>12 DEF WriteCanonicalManifest, Abort
  <1>13. CASE UNCHANGED vars
    BY <1>13 DEF vars
  <1>q. QED
    BY <1>1, <1>2, <1>3, <1>4, <1>5, <1>6, <1>7, <1>8, <1>9, <1>10, <1>11, <1>12, <1>13
       DEF Next, Evaluate

\* Every step keeps what a clean run and a PASS are.
LEMMA ValidityStep ==
    ASSUME TypeOK, DataOK, GlobalsInv, ValidityInv, [Next]_vars
    PROVE  ValidityInv'
  <1> USE DEF TypeOK, DataOK, GlobalsInv, ValidityInv, globals
  <1>1. CASE PlannerSucceeds
    BY <1>1 DEF PlannerSucceeds
  <1>2. CASE PlannerFails \/ SuiteCommandFails
    BY <1>2 DEF PlannerFails, SuiteCommandFails, Abort
  <1>3. CASE StartIteration
    BY <1>3 DEF StartIteration
  <1>4. CASE LeaveLoop
    BY <1>4 DEF LeaveLoop
  <1>5. CASE GeneratorSucceeds
    BY <1>5 DEF GeneratorSucceeds
  <1>6. CASE GeneratorFails
    BY <1>6 DEF GeneratorFails, Abort
  <1>7. CASE RunSuites
    BY <1>7 DEF RunSuites
  <1>8. ASSUME NEW a \in Answers, pc = "evaluator", ~Unfit(a), Judge(a)
        PROVE  ValidityInv'
    <2> DEFINE e == [suites |-> suites, claims |-> a.claims]
    <2>1. e \in [suites : SuiteRun, claims : BOOLEAN]
      BY <1>8 DEF Answers
    <2>2. evaluated' = Append(evaluated, e)
      BY <1>8 DEF Judge
    <2>3. Last(evaluated') = e
      BY <2>1, <2>2, LastEvaluation
    <2>4. validity' = "clean" => validity = "clean" /\ ~a.claims
      BY <1>8 DEF Judge
    <2>5. validity' = "clean" =>
             ~Untrusted(Last(evaluated').suites) /\ ~Last(evaluated').claims
      <3>1. Untrusted(suites) => validity # "clean"
        BY <1>8
      <3>2. e.suites = suites /\ e.claims = a.claims
        OBVIOUS
      <3>q. QED
        BY ONLY <2>3, <2>4, <3>1, <3>2
    <2>6. ASSUME verdict' = "PASS"
          PROVE  /\ pc' \in {"sprint", "telemetry"}
                 /\ validity' = "clean" /\ ~Failing(suites')
      BY <1>8, <2>6 DEF Judge, Clamped
    <2>q. QED
      BY ONLY <2>5, <2>6 DEF ValidityInv
  <1>9. CASE pc = "evaluator" /\ Abort
    BY <1>9 DEF Abort
  <1>10. CASE AppendSprintMetric
    BY <1>10 DEF AppendSprintMetric, Abort
  <1>11. CASE WriteIterationFeedback
    BY <1>11 DEF WriteIterationFeedback, Abort
  <1>12. CASE WriteCanonicalManifest
    BY <1>12 DEF WriteCanonicalManifest, Abort
  <1>13. CASE UNCHANGED vars
    BY <1>13 DEF vars
  <1>q. QED
    BY <1>1, <1>2, <1>3, <1>4, <1>5, <1>6, <1>7, <1>8, <1>9, <1>10, <1>11, <1>12, <1>13
       DEF Next, Evaluate

\* Every step keeps the record true.
LEMMA RecordStep ==
    ASSUME IInv, [Next]_vars
    PROVE  PassIsEarned' /\ OneIterationRecorded'
  <1> USE DEF IInv, TypeOK, CountInv, PassIsEarned, OneIterationRecorded, globals
  <1>1. CASE PlannerSucceeds
    BY <1>1 DEF PlannerSucceeds
  <1>2. CASE PlannerFails \/ SuiteCommandFails
    BY <1>2, NoRecord DEF PlannerFails, SuiteCommandFails, Abort
  <1>3. CASE StartIteration
    BY <1>3 DEF StartIteration
  <1>4. CASE LeaveLoop
    BY <1>4 DEF LeaveLoop
  <1>5. CASE GeneratorSucceeds
    BY <1>5 DEF GeneratorSucceeds
  <1>6. CASE GeneratorFails
    <2>1. manifest' = NoManifest /\ exit' # 0
      BY <1>6 DEF GeneratorFails, Abort
    <2>q. QED
      BY <2>1, NoRecord
  <1>7. CASE RunSuites
    BY <1>7 DEF RunSuites
  <1>8. ASSUME NEW a \in Answers, pc = "evaluator", ~Unfit(a), Judge(a)
        PROVE  PassIsEarned' /\ OneIterationRecorded'
    BY <1>8 DEF Judge, Answers
  <1>9. CASE pc = "evaluator" /\ Abort
    BY <1>9, NoRecord DEF Abort
  <1>10. CASE AppendSprintMetric
    <2>1. manifest' = NoManifest /\ exit' # 0
      BY <1>10 DEF AppendSprintMetric, Abort
    <2>q. QED
      BY <2>1, NoRecord
  <1>11. CASE WriteIterationFeedback
    <2>1. manifest' = NoManifest /\ exit' # 0
      BY <1>11 DEF WriteIterationFeedback, Abort
    <2>q. QED
      BY <2>1, NoRecord
  <1>12. CASE WriteCanonicalManifest
    <2>1. CASE exit' # 0
      BY <1>12, <2>1, NoRecord DEF WriteCanonicalManifest, Abort
    <2>2. CASE exit' = 0
      <3>1. /\ pc = "telemetry" /\ exit' = 0
            /\ validity' = IF suites = NoSuites THEN "harness_error" ELSE validity
            /\ manifest' = [verdict |-> verdict, validity |-> validity',
                            scores |-> scores, suites |-> suites,
                            sprints |-> sprints]
            /\ UNCHANGED <<mode, evalFile, evaluated>>
        BY <1>12, <2>2 DEF WriteCanonicalManifest, Abort
      <3>2. /\ manifest'.verdict = verdict /\ manifest'.validity = validity'
            /\ manifest'.scores = scores /\ manifest'.suites = suites
            /\ manifest'.sprints = sprints
        BY <3>1
      <3>3. verdict # "none" /\ manifest' # NoManifest
        BY <3>1, <3>2 DEF NoManifest
      <3>4. /\ suites = LastSuites /\ scores.by = suites.by
            /\ evaluated # <<>> /\ Failing(suites) => scores.max <= 5
            /\ evaluated # <<>> /\ validity # "clean" => scores.max = 1
            /\ evalFile = scores.by
        BY <3>1 DEF GlobalsInv
      <3>5. evaluated # <<>> => suites # NoSuites
        <4>1. ASSUME evaluated # <<>>
              PROVE  LastSuites \in SuiteRun
          <5>1. Last(evaluated) \in [suites : SuiteRun, claims : BOOLEAN]
            BY <4>1, LastInSet DEF DataOK
          <5>q. QED
            BY ONLY <4>1, <5>1 DEF LastSuites
        <4>2. NoSuites \notin SuiteRun
          BY DEF NoSuites, SuiteRun
        <4>q. QED
          BY <3>4, <4>1, <4>2
      <3>6. evaluated # <<>> => validity' = validity
        BY <3>1, <3>5
      <3>7. evaluated = <<>> => validity' = "harness_error"
        BY <3>1, <3>4 DEF LastSuites
      <3>8. PassIsEarned'
        <4>1. verdict = "PASS" =>
                 evaluated # <<>> /\ validity = "clean" /\ ~Failing(suites)
          BY <3>1 DEF ValidityInv
        <4>2. validity' = "clean" =>
                 ~Untrusted(suites) /\ ~Last(evaluated).claims
          <5>1. validity' = "clean" => evaluated # <<>> /\ validity = "clean"
            BY <3>1, <3>6, <3>7
          <5>2. evaluated # <<>> => suites = Last(evaluated).suites
            BY <3>4 DEF LastSuites
          <5>q. QED
            BY <3>1, <5>1, <5>2 DEF ValidityInv
        <4>q. QED
          BY ONLY <3>1, <3>2, <3>4, <3>6, <4>1, <4>2 DEF PassIsEarned
      <3>9. OneIterationRecorded'
        <4>1. sprints = IF mode = "trio" THEN Len(evaluated) ELSE 0
          BY <3>1
        <4>2. evaluated = <<>> <=> verdict = "INCOMPLETE"
          BY <3>1
        <4>3. evaluated # <<>> => suites = Last(evaluated).suites
          BY <3>4 DEF LastSuites
        <4>q. QED
          BY ONLY <3>1, <3>2, <3>3, <3>4, <3>7, <4>1, <4>2, <4>3
             DEF OneIterationRecorded
      <3>q. QED
        BY <3>8, <3>9
    <2>q. QED
      BY <2>1, <2>2
  <1>13. CASE UNCHANGED vars
    BY <1>13 DEF vars
  <1>q. QED
    BY <1>1, <1>2, <1>3, <1>4, <1>5, <1>6, <1>7, <1>8, <1>9, <1>10, <1>11, <1>12, <1>13
       DEF Next, Evaluate

\* The inductive invariant holds in every run of the script.
LEMMA Inductive == Spec => []IInv
<1>1. Init => IInv
  <2>1. Init => TypeOK /\ DataOK
    <3> SUFFICES ASSUME Init PROVE TypeOK /\ DataOK
      OBVIOUS
    <3>1. scores \in [by : 0..MaxIterations, shape : Shapes, max : {1, 5, 10}]
      BY DEF Init, NoScores, Shapes
    <3>2. <<>> \in Seq([suites : SuiteRun, claims : BOOLEAN])
      OBVIOUS
    <3>3. DataOK
      BY <3>1, <3>2 DEF Init, DataOK
    <3>4. TypeOK
      <4>1. /\ mode \in {"solo", "trio"} /\ pc \in {"generator", "planner"}
            /\ validity = "clean" /\ verdict = "INCOMPLETE"
            /\ oddSprint \in BOOLEAN /\ exit = -1 /\ suites = NoSuites
        BY DEF Init
      <4>2. /\ iteration \in 0..MaxIterations /\ evalFile \in 0..MaxIterations
            /\ sprints \in 0..MaxIterations
        BY DEF Init
      <4>3. scores.by \in 0..MaxIterations /\ scores.shape \in Shapes
        BY <3>1
      <4>q. QED
        BY <4>1, <4>2, <4>3 DEF TypeOK
    <3>q. QED
      BY <3>3, <3>4
  <2>2. Init => CountInv
    BY DEF Init, CountInv
  <2>3. Init => GlobalsInv
    BY DEF Init, GlobalsInv, LastSuites, NoScores, NoSuites
  <2>4. Init => ValidityInv
    BY DEF Init, ValidityInv
  <2>5. Init => PassIsEarned /\ OneIterationRecorded
    BY DEF Init, PassIsEarned, OneIterationRecorded
  <2>q. QED
    BY <2>1, <2>2, <2>3, <2>4, <2>5 DEF IInv
<1>2. IInv /\ [Next]_vars => IInv'
  BY TypeStep, DataStep, CountStep, GlobalsStep, ValidityStep, RecordStep DEF IInv
<1>q. QED
  BY <1>1, <1>2, PTL DEF Spec

\* Every global of the script keeps its type.
THEOREM TypeCorrect == Spec => []TypeOK
<1>1. IInv => TypeOK
  BY DEF IInv
<1>q. QED
  BY Inductive, <1>1, PTL

\* However many iterations there are and whatever the globals carry from one to the
\* next, a run is recorded as clean only on trusted evidence, and as a PASS only on
\* passing suites (run-benchmark.sh:634-736).
THEOREM PassEarned == Spec => []PassIsEarned
<1>1. IInv => PassIsEarned
  BY DEF IInv
<1>q. QED
  BY Inductive, <1>1, PTL

\* What is recorded is of one evaluation, the last, however many generators
\* failed before and after it (run-benchmark.sh:582-588).
THEOREM OneRecorded == Spec => []OneIterationRecorded
<1>1. IInv => OneIterationRecorded
  BY DEF IInv
<1>q. QED
  BY Inductive, <1>1, PTL

-----------------------------------------------------------------------------

\* Every phase of the script brings its end nearer: no failed generator, forced
\* verdict or feedback makes it run a phase more than six for each iteration
\* and seven (run_solo, run_trio).
THEOREM ScriptIsShort ==
    Spec => Left <= 6 * MaxIterations + 7 /\ [](Left \in Nat) /\ Countdown
<1> USE DEF Left, PhasesLeft
<1>1. Init => Left <= 6 * MaxIterations + 7
  BY MaxIterationsAssumption DEF Init
<1>2. IInv => Left \in Nat
  BY MaxIterationsAssumption DEF IInv, TypeOK
<1>3. IInv /\ [Next]_vars => [Left' < Left]_vars
  <2> SUFFICES ASSUME TypeOK, CountInv, Next PROVE Left' < Left
    BY DEF IInv
  <2> USE MaxIterationsAssumption DEF TypeOK, globals, Abort
  <2>1. CASE PlannerSucceeds \/ PlannerFails
    BY <2>1 DEF PlannerSucceeds, PlannerFails
  <2>2. CASE StartIteration
    BY <2>2 DEF StartIteration
  <2>3. CASE LeaveLoop
    BY <2>3 DEF LeaveLoop
  <2>4. CASE GeneratorSucceeds \/ GeneratorFails
    BY <2>4 DEF CountInv, GeneratorSucceeds, GeneratorFails
  <2>5. CASE RunSuites \/ SuiteCommandFails
    BY <2>5 DEF RunSuites, SuiteCommandFails
  <2>6. CASE Evaluate
    <3>1. pc = "evaluator" /\ iteration' = iteration
          /\ pc' \in {"end", "sprint", "telemetry"}
      BY <2>6 DEF Evaluate, Judge
    <3> QED BY <3>1
  <2>7. CASE AppendSprintMetric
    BY <2>7 DEF AppendSprintMetric
  <2>8. CASE WriteIterationFeedback
    BY <2>8 DEF WriteIterationFeedback
  <2>9. CASE WriteCanonicalManifest
    BY <2>9 DEF WriteCanonicalManifest
  <2> QED
    BY <2>1, <2>2, <2>3, <2>4, <2>5, <2>6, <2>7, <2>8, <2>9 DEF Next
<1> QED
  BY Inductive, <1>1, <1>2, <1>3, PTL DEF Spec, Countdown
=============================================================================
