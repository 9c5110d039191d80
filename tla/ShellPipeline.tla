--------------------------- MODULE ShellPipeline ---------------------------
(***************************************************************************)
(* The other implementation of a benchmark run: scripts/run-benchmark.sh.  *)
(* Its state is in global variables that every iteration overwrites and    *)
(* none resets, and under set -e any command that fails ends the script,   *)
(* with no manifest.  Copilot is outside: as a planner or a generator it   *)
(* succeeds or fails, as an evaluator it prints something, and no call to  *)
(* it has a timeout.                                                       *)
(***************************************************************************)
EXTENDS Naturals, Sequences, SequencesExt

CONSTANT MaxIterations   \* --max-iterations
ASSUME MaxIterationsAssumption == MaxIterations \in Nat \ {0}

VARIABLES
    mode, pc,
    iteration,   \* ITERATIONS
    validity,    \* RUN_VALIDITY
    verdict,     \* VERDICT
    scores,      \* EVAL_SCORES and BUGS: whose they are, and their shape
    suites,      \* VISIBLE_TESTS and EVAL_TESTS
    evalFile,    \* the iteration that wrote evaluations/eval.json
    sprints,     \* length of SPRINTS_JSON
    oddSprint,   \* SPRINTS_JSON has an entry that is no SprintMetrics
    manifest,    \* telemetry/run-manifest.json
    exit,        \* the script's exit code, -1 while it runs
    evaluated    \* the evaluations so far: no variable of the script

globals == <<iteration, validity, verdict, scores, suites, evalFile, sprints,
             oddSprint>>
vars    == <<mode, pc, globals, manifest, exit, evaluated>>

-----------------------------------------------------------------------------
(* Data *)

\* A SuiteResult: execution_ok and nothing failed, execution_ok and something
\* failed, or not execution_ok, which always shows an error (SuiteExecution).
Suites   == {"pass", "fail", "untrusted"}
NoSuites == [by |-> 0, visible |-> "null", hidden |-> "null"]

Results(s)   == {s.visible, s.hidden}
Failing(s)   == \E r \in Results(s) : r \in {"fail", "untrusted"}
Untrusted(s) == "untrusted" \in Results(s)

\* What extract_json makes of the evaluator's output: a value the prompt asked for;
\* an object whose scores are no list ("dictScores"), or a list with an entry that is
\* no object ("plainScores"); whose bugs are strings, or neither strings nor objects
\* ("oddBugs"); whose scores no BenchmarkScore takes ("badValue"), or only after a
\* conversion ("looseValue": "8" for 8, null for a justification); {} for what does
\* not parse; no value or several, which jq reads and the script cannot quote; or no
\* object at all.
Shapes == {"asked", "dictScores", "plainScores", "stringBugs", "oddBugs",
           "badValue", "looseValue", "empty", "notOne", "noObject"}

\* The object's verdict, and whether it says that tests could not be run.
Answers ==
    {a \in [shape : Shapes, verdict : {"PASS", "FAIL", "other"}, claims : BOOLEAN] :
        a.shape \in {"empty", "notOne", "noObject"} =>
            a.verdict = "FAIL" /\ ~a.claims}

\* max stands for the highest score functionality and test_coverage can have.
NoScores   == [by |-> 0, shape |-> "empty", max |-> 10]
NoManifest == [verdict |-> "none", validity |-> "none", scores |-> NoScores,
               suites |-> NoSuites, sprints |-> 0]

Init ==
    /\ mode \in {"solo", "trio"}
    /\ pc = IF mode = "solo" THEN "generator" ELSE "planner"
    /\ iteration = 0
    /\ validity = "clean" /\ verdict = "INCOMPLETE"
    /\ scores = NoScores /\ suites = NoSuites
    /\ evalFile = 0 /\ sprints = 0 /\ oddSprint = FALSE
    /\ manifest = NoManifest /\ exit = -1
    /\ evaluated = <<>>

\* set -e.
Abort ==
    /\ exit' = 1 /\ pc' = "end"
    /\ UNCHANGED <<mode, globals, manifest, evaluated>>

-----------------------------------------------------------------------------
(* Planner and generator *)

PlannerSucceeds ==
    /\ pc = "planner"
    /\ pc' = "loop"
    /\ UNCHANGED <<mode, globals, manifest, exit, evaluated>>

PlannerFails == pc = "planner" /\ Abort

StartIteration_NoLimit ==
    /\ pc = "loop"
    /\ iteration' = iteration + 1
    /\ pc' = "generator"
    /\ UNCHANGED <<mode, validity, verdict, scores, suites, evalFile, sprints,
                   oddSprint, manifest, exit, evaluated>>

\* Definitions named X_HowItBreaks are X with a plausible bug, for the mutants.
StartIteration ==
    /\ pc = "loop" /\ iteration < MaxIterations
    /\ iteration' = iteration + 1
    /\ pc' = "generator"
    /\ UNCHANGED <<mode, validity, verdict, scores, suites, evalFile, sprints,
                   oddSprint, manifest, exit, evaluated>>

LeaveLoop ==
    /\ pc = "loop" /\ iteration = MaxIterations
    /\ pc' = "telemetry"
    /\ UNCHANGED <<mode, globals, manifest, exit, evaluated>>

\* A solo run has no iteration before.
GeneratorSucceeds ==
    /\ pc = "generator"
    /\ iteration' = (IF mode = "solo" THEN 1 ELSE iteration)
    /\ pc' = "suites"
    /\ UNCHANGED <<mode, validity, verdict, scores, suites, evalFile, sprints,
                   oddSprint, manifest, exit, evaluated>>

\* In a solo run the function returns 1; in a trio run the loop goes on and the
\* variables stay what the iteration before left in them.
GeneratorFails_ClearsSuites ==
    /\ pc = "generator"
    /\ \/ mode = "solo" /\ Abort
       \/ /\ mode = "trio" /\ pc' = "loop"
          /\ suites' = NoSuites
          /\ UNCHANGED <<mode, iteration, validity, verdict, scores, evalFile,
                         sprints, oddSprint, manifest, exit, evaluated>>

GeneratorFails ==
    /\ pc = "generator"
    /\ \/ mode = "solo" /\ Abort
       \/ /\ mode = "trio" /\ pc' = "loop"
          /\ UNCHANGED <<mode, globals, manifest, exit, evaluated>>

-----------------------------------------------------------------------------
(* Evaluator *)

RunSuites ==
    /\ pc = "suites"
    /\ \E v, h \in Suites :
          suites' = [by |-> iteration, visible |-> v, hidden |-> h]
    /\ validity' = IF Untrusted(suites') THEN "harness_error" ELSE validity
    /\ pc' = "evaluator"
    /\ UNCHANGED <<mode, iteration, verdict, scores, evalFile, sprints,
                   oddSprint, manifest, exit, evaluated>>

\* The module that runs a suite exits with another code than 0.
SuiteCommandFails == pc = "suites" /\ Abort

Clamped_IgnoresFailures(a) == a.claims \/ validity # "clean"

\* One of the three jq filters that force a verdict rewrites the scores; they
\* must then be a list of objects.
Clamped(a) == a.claims \/ Failing(suites) \/ validity # "clean"

\* The evaluator's own exit code is only logged.  Of no value jq makes a blank verdict,
\* of several as many lines.
Judge(a) ==
    /\ validity' = IF a.claims THEN "tainted" ELSE validity
    /\ verdict' = CASE a.shape = "notOne" -> "other"
                    [] Clamped(a)        -> "FAIL"
                    [] OTHER             -> a.verdict
    /\ scores' = [by |-> iteration, shape |-> a.shape,
                  max |-> IF validity' # "clean" THEN 1
                          ELSE IF Failing(suites) THEN 5 ELSE 10]
    /\ evalFile' = iteration
    /\ evaluated' = Append(evaluated, [suites |-> suites, claims |-> a.claims])
    /\ pc' = IF mode = "trio" THEN "sprint" ELSE "telemetry"
    /\ UNCHANGED <<mode, iteration, suites, sprints, oddSprint, manifest, exit>>

\* jq refuses to look for criteria in what is no object.
Unfit(a) ==
    \/ a.shape = "noObject"
    \/ a.shape \in {"dictScores", "plainScores"} /\ Clamped(a)

Evaluate ==
    /\ pc = "evaluator"
    /\ \E a \in Answers : IF Unfit(a) THEN Abort ELSE Judge(a)

\* append_sprint_metric: EVAL_SCORES must be one JSON value, whichever it is.
AppendSprintMetric ==
    /\ pc = "sprint"
    /\ IF scores.shape = "notOne" THEN Abort
       ELSE /\ sprints' = sprints + 1
            /\ oddSprint' =
                 (oddSprint \/ scores.shape \in {"dictScores", "plainScores",
                                                "badValue", "looseValue"})
            /\ pc' = IF verdict = "PASS" THEN "telemetry" ELSE "feedback"
            /\ UNCHANGED <<mode, iteration, validity, verdict, scores, suites,
                           evalFile, manifest, exit, evaluated>>

\* write_iteration_feedback reads every score and every bug as an object.
WriteIterationFeedback ==
    /\ pc = "feedback"
    /\ IF scores.shape \in {"dictScores", "plainScores", "stringBugs", "oddBugs"}
       THEN Abort
       ELSE /\ pc' = "loop"
            /\ UNCHANGED <<mode, globals, manifest, exit, evaluated>>

-----------------------------------------------------------------------------
(* Telemetry *)

\* Suites that never ran make the run a harness error.  The manifest converts scores
\* and bugs, or gives up; it takes every sprint as it is, or gives up.
WriteCanonicalManifest ==
    /\ pc = "telemetry"
    /\ IF oddSprint \/ scores.shape \in {"notOne", "plainScores", "oddBugs", "badValue"}
       THEN Abort
       ELSE /\ validity' = IF suites = NoSuites THEN "harness_error"
                           ELSE validity
            /\ manifest' = [verdict |-> verdict, validity |-> validity',
                            scores |-> scores, suites |-> suites,
                            sprints |-> sprints]
            /\ exit' = 0 /\ pc' = "end"
            /\ UNCHANGED <<mode, iteration, verdict, scores, suites, evalFile,
                           sprints, oddSprint, evaluated>>

Next ==
    \/ PlannerSucceeds \/ PlannerFails \/ StartIteration \/ LeaveLoop
    \/ GeneratorSucceeds \/ GeneratorFails \/ RunSuites \/ SuiteCommandFails
    \/ Evaluate \/ AppendSprintMetric \/ WriteIterationFeedback
    \/ WriteCanonicalManifest

Spec == Init /\ [][Next]_vars

-----------------------------------------------------------------------------
(* Properties *)

\* Type invariant.
TypeOK ==
    /\ mode \in {"solo", "trio"} /\ iteration \in 0..MaxIterations
    /\ pc \in {"planner", "loop", "generator", "suites", "evaluator", "sprint",
               "feedback", "telemetry", "end"}
    /\ validity \in {"clean", "harness_error", "tainted"}
    /\ verdict \in {"INCOMPLETE", "PASS", "FAIL", "other"}
    /\ scores.by \in 0..MaxIterations /\ scores.shape \in Shapes
    /\ suites \in [by : 1..MaxIterations, visible : Suites, hidden : Suites]
                    \cup {NoSuites}
    /\ evalFile \in 0..MaxIterations /\ sprints \in 0..MaxIterations
    /\ oddSprint \in BOOLEAN /\ exit \in {-1, 0, 1}

\* Whatever the evaluator answers and whatever earlier iterations left in the globals:
\* a run recorded as clean had trusted suites in its last evaluation and an evaluator
\* that did not say tests could not be run, a PASS is of a clean run whose suites also
\* passed, a failing suite leaves the scores at 5 or less, and a run that is not clean
\* at 1 (run-benchmark.sh:634-736).
PassIsEarned ==
    manifest # NoManifest =>
        /\ manifest.validity = "clean" =>
              ~Untrusted(manifest.suites) /\ ~Last(evaluated).claims
        /\ manifest.verdict = "PASS" =>
              manifest.validity = "clean" /\ ~Failing(manifest.suites)
        /\ evaluated # <<>> /\ Failing(manifest.suites) =>
              manifest.scores.max <= 5
        /\ evaluated # <<>> /\ manifest.validity # "clean" =>
              manifest.scores.max = 1

\* However many generators failed in between, the recorded verdict, scores and
\* suites and the evaluation file are those of one evaluation, the last one; a
\* trio run has a sprint for each; a run without any is INCOMPLETE and no clean
\* run; and the exit code says whether there is a record
\* (run-benchmark.sh:582-588, 739-741, 772-787).
OneIterationRecorded ==
    /\ manifest # NoManifest =>
          /\ manifest.scores.by = manifest.suites.by
          /\ evalFile = manifest.suites.by
          /\ evaluated # <<>> => manifest.suites = Last(evaluated).suites
          /\ manifest.sprints = (IF mode = "trio" THEN Len(evaluated) ELSE 0)
          /\ evaluated = <<>> <=> manifest.verdict = "INCOMPLETE"
          /\ evaluated = <<>> => manifest.validity = "harness_error"
    /\ exit = 0 <=> manifest # NoManifest

-----------------------------------------------------------------------------
(* The inductive invariant behind the two of them                          *)

\* What one run of both suites leaves in the globals.
SuiteRun == [by : 1..MaxIterations, visible : Suites, hidden : Suites]

LastSuites == IF evaluated = <<>> THEN NoSuites ELSE Last(evaluated).suites

DataOK ==
    /\ evaluated \in Seq([suites : SuiteRun, claims : BOOLEAN])
    /\ scores \in [by : 0..MaxIterations, shape : Shapes, max : {1, 5, 10}]

\* How many evaluations there were, and what counts them.
CountInv ==
    pc # "end" =>
        /\ manifest = NoManifest /\ exit = -1
        /\ Len(evaluated) <= iteration
        /\ pc \in {"generator", "suites", "evaluator"} =>
              Len(evaluated) < (IF mode = "solo" THEN 1 ELSE iteration)
        /\ mode = "solo" => iteration = (IF pc = "generator" THEN 0 ELSE 1)
        /\ evaluated = <<>> <=> verdict = "INCOMPLETE"
        /\ pc \in {"planner", "loop", "sprint", "feedback"} => mode = "trio"
        /\ pc = "sprint" => evaluated # <<>>
        /\ sprints = (IF mode = "solo" THEN 0
                      ELSE IF pc = "sprint" THEN Len(evaluated) - 1
                      ELSE Len(evaluated))

\* Whose values the globals hold: of the last evaluation, except between the
\* suites of a new one and its verdict.
GlobalsInv ==
    /\ pc # "end" => evalFile = scores.by
    /\ pc \notin {"evaluator", "end"} =>
          /\ suites = LastSuites /\ scores.by = suites.by
          /\ evaluated # <<>> /\ Failing(suites) => scores.max <= 5
          /\ evaluated # <<>> /\ validity # "clean" => scores.max = 1
    /\ pc = "evaluator" =>
          /\ suites \in SuiteRun /\ suites.by = iteration
          /\ Untrusted(suites) => validity # "clean"

\* What a clean run is, and what its verdict can be.
ValidityInv ==
    pc # "end" =>
        /\ validity = "clean" /\ evaluated # <<>> =>
              ~Untrusted(Last(evaluated).suites) /\ ~Last(evaluated).claims
        /\ verdict = "PASS" =>
              /\ pc \in {"sprint", "telemetry"}
              /\ validity = "clean" /\ ~Failing(suites)

IInv ==
    /\ TypeOK /\ DataOK /\ CountInv /\ GlobalsInv /\ ValidityInv
    /\ PassIsEarned /\ OneIterationRecorded

-----------------------------------------------------------------------------
(* The measure behind its end, should copilot always answer                *)

PhasesLeft ==
    [generator |-> 7, suites |-> 6, evaluator |-> 5, sprint |-> 4,
     feedback |-> 3, planner |-> 3, loop |-> 2, telemetry |-> 1, end |-> 0]

\* At most so many phases are still to run.
Left == 6 * (MaxIterations - iteration) + PhasesLeft[pc]

Countdown == [][Left' < Left]_vars
=============================================================================
