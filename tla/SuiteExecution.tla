--------------------------- MODULE SuiteExecution ---------------------------
(***************************************************************************)
(* The suite runs of one benchmark run (test_execution.run_test_suite and  *)
(* its callers in agents/evaluator.py): every grade runs the hidden suite  *)
(* and then the visible one inside the generator's tree, grades follow     *)
(* each other, and the generator works in that tree between iterations.    *)
(*                                                                         *)
(* Three things outlive a call: the copy of the hidden suite it puts into  *)
(* the generator's tree, the report file, whose name depends on the suite  *)
(* alone, and below an npm killed by the timeout the runner itself.  The   *)
(* test runner is outside src/: it exits or not, and writes what it likes. *)
(***************************************************************************)
EXTENDS Naturals

CONSTANT Grades    \* bound: grade calls in the run
ASSUME GradesAssumption == Grades \in Nat \ {0}

VARIABLES
    runtime,   \* of the generator's tree, by _detect_runtime
    hasEval,   \* the benchmark has an _eval directory
    pc,        \* the statement about to run
    grade,     \* the grade call under way
    suite,     \* the suite under way
    injected,  \* this call's copy of the hidden suite is in the tree
    leftover,  \* so is a copy that an earlier call failed to remove
    reports,   \* suite -> its report file in report_dir
    orphans,   \* the calls that timed out and whose runner may live on
    proc,      \* the runner's exit code, and what it wrote
    result     \* the last SuiteResult

given == <<runtime, hasEval>>
call  == <<grade, suite>>
tree  == <<injected, leftover>>
vars  == <<given, pc, call, tree, reports, orphans, proc, result>>

-----------------------------------------------------------------------------
(* Data *)

Runtimes == {"node", "go", "python"}
Suites   == {"eval", "visible"}

\* What a run writes: nothing, what does not parse, or a report of some failed
\* tests, of passed tests only, or of no tests.
Contents == {"nothing", "garbled", "fail", "pass", "empty"}

Processes == {p \in [returncode : {0, 1}, wrote : Contents] :
                  p.wrote = "fail" => p.returncode = 1}
NoProcess == [returncode |-> 0, wrote |-> "nothing"]

\* A report file, with the call whose runner wrote it, and whether that call
\* had timed out by then.
Report   == [grade : 0..Grades, suite : Suites, content : Contents,
             late : BOOLEAN]
NoReport == [grade |-> 0, suite |-> "eval", content |-> "nothing",
             late |-> FALSE]

\* failing stands for failed > 0 or errors > 0; report is the file the counts
\* were read from, NoReport when they were not read from one.
SuiteResult == [execution_ok : BOOLEAN, failing : BOOLEAN, report : Report]

InvalidResult ==
    [execution_ok |-> FALSE, failing |-> TRUE, report |-> NoReport]

Written(content) ==
    [grade |-> grade, suite |-> suite, content |-> content, late |-> FALSE]

-----------------------------------------------------------------------------

Init ==
    /\ runtime \in Runtimes
    /\ hasEval \in BOOLEAN
    /\ pc = "generate" /\ grade = 1 /\ suite = "eval"
    /\ injected = FALSE /\ leftover = FALSE
    /\ reports = [s \in Suites |-> NoReport]
    /\ orphans = {}
    /\ proc = NoProcess
    /\ result = InvalidResult

\* The generator works in its tree.
Generate ==
    /\ pc = "generate"
    /\ pc' = "materialize"
    /\ UNCHANGED <<given, call, tree, reports, orphans, proc, result>>

\* The visible suite lies inside the tree and runs where it is; the hidden one
\* is copied into it, for Node in the place of whatever is called _eval there,
\* otherwise under a new name.
MaterializeTestDir ==
    /\ pc = "materialize"
    /\ suite = "eval" => hasEval
    /\ injected' = (suite = "eval")
    /\ leftover' = (leftover /\ ~(suite = "eval" /\ runtime = "node"))
    /\ pc' = "command"
    /\ UNCHANGED <<given, call, reports, orphans, proc, result>>

\* The copy fails half way, package.json does not parse once it is made, the
\* runner's output is no text, a report has another shape: the exception
\* leaves run_test_suite, grade and the pipeline.
SuiteRaises ==
    /\ \/ pc = "materialize" /\ suite = "eval" /\ hasEval
       \/ pc = "command" /\ runtime = "node"
       \/ pc \in {"run", "parse"}
    /\ injected' = (suite = "eval")
    /\ pc' = "raised"
    /\ UNCHANGED <<given, call, leftover, reports, orphans, proc, result>>

MissingSuiteResult ==
    /\ pc = "materialize" /\ suite = "eval" /\ ~hasEval
    /\ result' = InvalidResult
    /\ pc' = "return"
    /\ UNCHANGED <<given, call, tree, reports, orphans, proc>>

BuildCommand ==
    /\ pc = "command"
    /\ pc' = "run"
    /\ UNCHANGED <<given, call, tree, reports, orphans, proc, result>>

\* rmtree(cleanup_dir, ignore_errors=True): what cannot be removed stays.
RemoveCopy ==
    /\ injected' = FALSE
    /\ leftover' \in IF injected THEN BOOLEAN ELSE {leftover}

GiveUp ==
    /\ RemoveCopy
    /\ result' = InvalidResult
    /\ pc' = "return"
    /\ UNCHANGED <<given, call, proc>>

\* The test script of package.json names neither Jest nor Vitest.
UnknownFramework ==
    /\ pc = "command" /\ runtime = "node"
    /\ GiveUp
    /\ UNCHANGED <<reports, orphans>>

RunnerNotFound == pc = "run" /\ GiveUp /\ UNCHANGED <<reports, orphans>>

\* Jest, Vitest and pytest write the report file themselves, over an older
\* one; the output of go test is saved later, by _parse_go_json.  (Definitions
\* named X_HowItBreaks are X with a plausible bug, for the mutants.)
RunnerWrites_OneFile(content) ==
    reports' = IF runtime = "go" \/ content = "nothing" THEN reports
               ELSE [s \in Suites |-> Written(content)]

RunnerWrites(content) ==
    reports' = IF runtime = "go" \/ content = "nothing" THEN reports
               ELSE [reports EXCEPT ![suite] = Written(content)]

TimeoutExpired_KeepsCopy ==
    /\ pc = "run"
    /\ \E c \in Contents : RunnerWrites(c)
    /\ result' = InvalidResult
    /\ pc' = "return"
    /\ UNCHANGED <<given, call, tree, orphans, proc>>

\* The command is killed after 120 s; its report may be out already.  The
\* signal ends npm, not the runner npm has started.
TimeoutExpired ==
    /\ pc = "run"
    /\ GiveUp
    /\ \E c \in Contents : RunnerWrites(c)
    /\ orphans' = IF runtime = "node"
                  THEN orphans \cup {[grade |-> grade, suite |-> suite]}
                  ELSE orphans

\* Such a runner finishes after all, whatever the program is doing by then.
OrphanWrites(orphan, content) ==
    /\ pc \notin {"raised", "end"}
    /\ orphan \in orphans /\ content # "nothing"
    /\ reports' = [reports EXCEPT ![orphan.suite] =
                      [grade |-> orphan.grade, suite |-> orphan.suite,
                       content |-> content, late |-> TRUE]]
    /\ orphans' = orphans \ {orphan}
    /\ UNCHANGED <<given, pc, call, tree, proc, result>>

RunnerExits(p) ==
    /\ pc = "run"
    /\ proc' = p
    /\ RunnerWrites(p.wrote)
    /\ pc' = "parse"
    /\ UNCHANGED <<given, call, tree, orphans, result>>

Parsed(ok, failing, report) ==
    /\ result' = [execution_ok |-> ok, failing |-> failing, report |-> report]
    /\ pc' = "clean"
    /\ UNCHANGED <<given, call, tree, orphans, proc>>

\* _parse_jest_like_report and _parse_pytest_junit_xml: the counts come from
\* the report file; without one, from what stdout seems to say.
ParseReport_GarbledUncounted ==
    /\ pc = "parse" /\ runtime # "go"
    /\ LET report == reports[suite]
       IN  IF report.content \in {"nothing", "garbled"}
           THEN \E seen \in BOOLEAN : Parsed(FALSE, seen, NoReport)
           ELSE Parsed(TRUE, report.content = "fail", report)
    /\ UNCHANGED reports

ParseReport ==
    /\ pc = "parse" /\ runtime # "go"
    /\ LET report == reports[suite]
       IN  CASE report.content = "nothing" ->
                    \E seen \in BOOLEAN : Parsed(FALSE, seen, NoReport)
             [] report.content = "garbled" -> Parsed(FALSE, TRUE, NoReport)
             [] OTHER -> Parsed(TRUE, report.content = "fail", report)
    /\ UNCHANGED reports

ParseGoJson_BuildFailureUnseen ==
    /\ pc = "parse" /\ runtime = "go"
    /\ reports' = [reports EXCEPT ![suite] = Written(proc.wrote)]
    /\ IF proc.wrote = "garbled"
       THEN Parsed(FALSE, TRUE, NoReport)
       ELSE Parsed(TRUE, proc.wrote = "fail", reports'[suite])

\* _parse_go_json: the exit code counts only when no test ran.
ParseGoJson ==
    /\ pc = "parse" /\ runtime = "go"
    /\ reports' = [reports EXCEPT ![suite] = Written(proc.wrote)]
    /\ IF \/ proc.wrote = "garbled"
          \/ proc.wrote = "nothing" /\ proc.returncode # 0
       THEN Parsed(FALSE, TRUE, NoReport)
       ELSE Parsed(TRUE,
                   \/ proc.wrote = "fail"
                   \/ proc.wrote = "empty" /\ proc.returncode # 0,
                   reports'[suite])

CleanUp ==
    /\ pc = "clean"
    /\ RemoveCopy
    /\ pc' = "return"
    /\ UNCHANGED <<given, call, reports, orphans, proc, result>>

\* grade goes on with the visible suite, if the tree has a tests directory.
RunRegressionTests ==
    /\ pc = "return" /\ suite = "eval"
    /\ suite' = "visible"
    /\ pc' = "materialize"
    /\ UNCHANGED <<given, grade, tree, reports, orphans, proc, result>>

NextGrade_CountsPastTheEnd ==
    /\ pc = "return"
    /\ grade' = grade + 1 /\ suite' = "eval"
    /\ IF grade < Grades THEN pc' \in {"materialize", "generate"} ELSE pc' = "end"
    /\ UNCHANGED <<given, tree, reports, orphans, proc, result>>

\* The next evaluator grades the same code, or the next iteration begins.
NextGrade ==
    /\ pc = "return"
    /\ IF grade < Grades
       THEN grade' = grade + 1 /\ suite' = "eval"
            /\ pc' \in {"materialize", "generate"}
       ELSE pc' = "end" /\ UNCHANGED call
    /\ UNCHANGED <<given, tree, reports, orphans, proc, result>>

Over == pc \in {"raised", "end"} /\ UNCHANGED vars

Next ==
    \/ Generate
    \/ MaterializeTestDir \/ MissingSuiteResult \/ SuiteRaises
    \/ BuildCommand \/ UnknownFramework
    \/ RunnerNotFound \/ TimeoutExpired
    \/ \E p \in Processes : RunnerExits(p)
    \/ \E o \in orphans, c \in Contents : OrphanWrites(o, c)
    \/ ParseReport \/ ParseGoJson \/ CleanUp
    \/ RunRegressionTests \/ NextGrade
    \/ Over

Spec == Init /\ [][Next]_vars

-----------------------------------------------------------------------------
(* Properties *)

\* Type correctness.
TypeOK ==
    /\ runtime \in Runtimes
    /\ hasEval \in BOOLEAN
    /\ pc \in {"generate", "materialize", "command", "run", "parse", "clean",
               "return", "raised", "end"}
    /\ grade \in 1..Grades
    /\ suite \in Suites
    /\ injected \in BOOLEAN
    /\ leftover \in BOOLEAN
    /\ reports \in [Suites -> Report]
    /\ orphans \subseteq [grade : 1..Grades, suite : Suites]
    /\ proc \in Processes
    /\ result \in SuiteResult

\* The hidden suite is in the generator's tree only while it is being run (or
\* after an exception that ends the run): neither the generator nor the
\* visible suite meets the copy, unless it could not be removed.
InjectedToRunOnly ==
    injected => suite = "eval" /\ pc \in {"command", "run", "parse", "clean",
                                          "raised"}

\* A trusted result was read from a report of its own suite, and of its own
\* run unless the runner exited without writing one or an earlier run that had
\* timed out wrote over it.
TrustedIsOfItsRun ==
    result.execution_ok /\ pc \in {"clean", "return"} =>
        /\ result.report.suite = suite
        /\ \/ result.report.grade = grade
           \/ /\ result.report.grade \in 1..(grade - 1)
              /\ \/ runtime # "go" /\ proc.wrote = "nothing"
                 \/ runtime = "node" /\ result.report.late

\* No failed test is lost in a trusted result of its own run, and a Go run
\* that exits nonzero looks clean only if some test passed.
FailuresAreCounted ==
    /\ pc \in {"clean", "return"}
    /\ result.execution_ok /\ ~result.failing /\ result.report.grade = grade
    => /\ proc.wrote # "fail"
       /\ runtime = "go" /\ proc.returncode # 0 => proc.wrote = "pass"

\* An untrusted result shows an error, so that no grade takes it for passing
\* tests, except where the counts were guessed from stdout.
UntrustedShowsErrors ==
    pc \in {"clean", "return"} /\ ~result.execution_ok /\ ~result.failing =>
        runtime # "go" /\ proc.wrote = "nothing"

-----------------------------------------------------------------------------
(* What the project's documents say and the code does not do               *)

\* telemetry/models.py:169: execution_ok is False when the suite result cannot
\* be trusted, so counts of another run never come with True.
TrustedIsFresh ==
    pc \in {"clean", "return"} /\ result.execution_ok =>
        result.report.grade = grade

-----------------------------------------------------------------------------
(* The inductive invariant behind the safety properties                    *)

\* Whose a report file may be.
ReportInv ==
    /\ \A s \in Suites :
          /\ IF reports[s].grade = 0 THEN reports[s].content = "nothing"
             ELSE reports[s].suite = s
          /\ reports[s].grade <= grade
          /\ reports[s].late => runtime = "node" /\ reports[s].content # "nothing"
    /\ \A o \in orphans : o.grade <= grade /\ runtime = "node"

\* The suites of this grade that have no outcome yet.
Ahead(s) ==
    \/ suite = "eval" /\ s = "visible"
    \/ s = suite /\ pc \in {"generate", "materialize", "command", "run"}

\* Nothing on disk, and nothing still to come, claims to be theirs; the run
\* that is being parsed did not time out.
FreshInv ==
    \A s \in Suites :
        /\ Ahead(s) => reports[s].grade < grade
        /\ Ahead(s) \/ (s = suite /\ pc = "parse") =>
              [grade |-> grade, suite |-> s] \notin orphans

\* What the parser finds is what its runner wrote, or an older report.
ParseInv ==
    pc = "parse" /\ runtime # "go" =>
        IF reports[suite].grade = grade
        THEN reports[suite].content = proc.wrote
        ELSE proc.wrote = "nothing" \/ reports[suite].late

IInv ==
    /\ TypeOK /\ ReportInv /\ FreshInv /\ ParseInv
    /\ InjectedToRunOnly /\ TrustedIsOfItsRun
    /\ FailuresAreCounted /\ UntrustedShowsErrors
=============================================================================
