# Harnessa, modelled in TLA+

Harnessa runs a benchmark with adversarial agents: a *generator* changes a
program, an *evaluator* grades it with hidden tests and a model, and in *trio*
mode a planner, a contract negotiation and a retry loop surround the two.  This
directory holds TLA+ modules of its core (`src/src/harnessa`), the TLC
configurations that check them and the proofs TLAPS checks.

## The system

| Part | State it keeps | Operations | How it meets the others |
| --- | --- | --- | --- |
| `orchestrator.py` | `runs/<id>/`: `.status`, `.done`, `generator/`, `evaluator/`, `artifacts/`, `telemetry/run-manifest.json`; loop variables | `start_run`, two modes, SIGINT handler | calls every agent in sequence, single threaded |
| `agents/isolation.py` | the two working trees | prepare, clean up | called by setup, by `finally` and by the handler |
| `agents/evaluator.py` | `evaluations/eval_iter{n}.json`, `evaluator.status` | `grade` | runs the suites, asks a model, twice if it refuses to be negative |
| `reconciler.py` | none | `reconcile` | joins the first two evaluators' results |
| `test_execution.py` | report files, a copy of the hidden suite in the generator's tree | `run_test_suite` | called twice per grade; starts Jest, Vitest, pytest or go test |
| `agents/contract.py` | `contracts/sprint-N-*.md` | `negotiate` | asks the generator and the evaluator in turn |
| planner, generator, executors, `base.py` | spec, files, index and commits of the generator's tree, `*.status` | `run`, `execute` | a provider's text, or a `copilot` subprocess that edits files, with timeouts and no retries |
| `replay.py`, `reporting/`, `cli.py` | `runs/<id>/`: `report.md`, manifests of replays | replay, report | read the record of a run |
| `criteria/`, `config.py`, `response_adapter.py` | none | loading, conversion | before a run, inside an agent |
| `scripts/run-benchmark.sh` | globals that outlive an iteration, `evaluations/eval.json`, a manifest | solo and trio run in bash | runs `test_execution` as a program, `copilot` without a timeout |
| `showcase/server` | SQLite in memory, web sockets | reviews | concurrent requests and analyses |

What is hard in it: a Ctrl-C between any two statements, nested ones included;
exceptions at every agent call, and which of the marks, trees and files they
leave behind; values of one iteration or one evaluator that outlive it; report
files and copied suites that outlive the call that made them; a chain of
mitigations that rewrite one result; external runners that die silently; children
of a killed copilot that go on writing to a tree others read; a verdict, scores and
reports that are reconciled apart and must agree; shell globals that no iteration
resets.  The
correctness of each part is what its properties below state.

## Modules

| Module | Models | Status |
| --- | --- | --- |
| `RunProtocol` | what a run promises to a watcher of its directory | abstract specification |
| `Orchestrator` | a run in either mode, with its marks, trees, snapshot and manifest | modelled, checked, safety, bounded length and the refinement of `RunProtocol` proved |
| `Agents` | what planner, negotiation, generator and evaluator do to the spec and the generator's tree | modelled, checked, safety proved |
| `Evaluator` | one call of `grade` | modelled, checked, safety proved |
| `SuiteExecution` | all suite runs of a run | modelled, checked, safety proved |
| `ContractNegotiation` | one call of `negotiate` | modelled, checked, safety and bounded length proved |
| `Reconciler` | `reconcile` on two results, as operators | used by `RunRecord`, its outcome proved |
| `RunRecord` | the results of the last iteration, their record, report and replay | modelled, checked, safety proved |
| `ShellPipeline` | `run-benchmark.sh` | modelled, checked, safety and bounded length proved |

`MC*` modules instantiate them for TLC; `*Proofs` modules hold the theorems.
Definitions called `X_HowItBreaks` are `X` with a plausible bug in it; they show
that a property can fail and are used nowhere else.

**Orchestrator.** Each value of `pc` is a statement of `start_run` or of a
pipeline about to run.  `Setup`, `Pipeline` and `Finish` group the actions of
the program, `CtrlC` and the `Sig*` actions the handler, which saves where it
interrupted in `resume`; `raising` is the exception on its way through
`finally`.  `code` numbers the generator runs, so that the model can say *whose*
code was archived, graded or fed back.  Agents return or raise.  Solo and trio
mode share the actions and differ in their order (`mode`).  Any write of `.status`,
`.done` or the manifest may fail (`WriteFails`, remembered in `unwritten`): what that
means depends on the statement, and in the signal handler on the statement it
interrupted and on `shields`, the handlers on the stack whose `except Exception`
swallows it.

**Evaluator.** `pc` walks through the phases of `grade`.  The model's answers are
arbitrary sheets: sequences of scores, in tenths, on names on or off the rubric;
an answer that is no sheet takes the fallback.  `call_llm` is a stub at this
commit, so only the copilot executor gives a first sheet today and the second
answer never parses; both are modelled as what their callers are written for.

**SuiteExecution.** The grades of a run in sequence, each with its hidden and its
visible suite.  A report carries the grade and suite whose runner wrote it, so
that stale counts can be told from fresh ones.  The runtime is chosen once; the
runner is external and ends in every way the code distinguishes; the timeout
kills `npm` but not what it started, so a Node runner may write its report during
a later grade (`OrphanWrites`).

**ContractNegotiation.** Rounds of proposal and review with the saved files.  A
proposal carries its round and the review it answers.

**RunProtocol.** Four variables: the status, the marker, the recorded verdict and
how the run ended.  The status settles, only towards error; the marker follows it;
a run of any outcome may be recorded, once, before the marker or after it, but a run
that announced an error never as a PASS; and whoever is returned to finds a run that
is done, marked and recorded.  Runs may raise, be interrupted or be killed at any
point.  `Orchestrator!Protocol` instantiates it with `status`, `done`,
`manifest.verdict` and `exit`; every one of the orchestrator's statements is one of
its steps or a stutter.  Where the documents ask for more than the code does (the
telemetry of failed and interrupted runs), the protocol leaves it open and
`EveryRunHasTelemetry` shows that the code does not do it.

**Agents.** A trio run seen from the generator's tree.  A path's content is the number
of the call that last wrote it (`tree`), and git's `index` and `head` are such trees
too, so that "was this iteration's work committed, graded, shown in the diff,
archived?" is a comparison of three functions.  `host` says what is installed and
configured (git, an identity for commits, the provider or `copilot`); `repo` says
whether the tree is a worktree, a plain copy or a repository the generator
initialised.  The evaluators of an iteration grade one after another, and `graded`
holds the tree that each of them saw.  `RunCopilot` is one call with its three
outcomes; `OrphanWrites` lets the children of a call that timed out write at any later
moment.  Verdicts are left to the other modules: any iteration may be the last.

**Reconciler and RunRecord.** The operators of `Reconciler` follow `reconcile` and
return sets where binary fractions decide: the mean of an odd sum of tenths, and
whether scores exactly a point apart agree.  `RunRecord` has one to three
evaluators write the same evaluation file, reconciles the first two, and lets
reports and replays come in any order afterwards.

**ShellPipeline.** One action per phase of the script; `globals` are its variables.
Under `set -e` a filter that does not fit the evaluator's answer ends the script:
`Shapes` are the answers the filters and the models of the manifest tell apart,
`Unfit` those the filters refuse; what only the manifest refuses passes through the
iterations (`oddSprint` remembers a sprint it will refuse) and ends the script there.
`evaluated` is a history variable.

## Runs

| Run | Shows |
| --- | --- |
| `MCOrchestrator` | `.done` never precedes a final status; the archive is what was graded; PASS is earned by both evaluators on the archived code; a trio FAIL spent its iterations; retries get the last feedback; ERROR is final; cleanup fires; every run ends, and a pipeline's end is announced unless the announcement cannot be written |
| `MCEvaluator` | the three ways a PASS can stand beside failing tests, the one way it can miss a threshold, the suites that make a FAIL without missing one; the regression veto on every path; evidence, flags and degradation are kept |
| `MCSuiteExecution` | the hidden suite is in the tree only while it runs; trusted counts are of the right suite, and stale only after a silent runner or a late one; failures are counted |
| `MCContractNegotiation` | what is returned was reviewed and saved, round by round; rejection is overridden only when the rounds are spent; it ends |
| `MCAgents` | what reaches the evaluator is all of an answer, by agents that said done; work that succeeded is committed wherever git can commit; the archive is the graded code but for files a killed call went on writing; the run ends |
| `MCRunRecord` | recorded verdict, scores, evaluation file and report contradict one another only for the reasons listed in `VerdictMatchesScores` and `RowsExplainVerdict`; no place a reconciled evaluator complained about is lost |
| `MCShellPipeline` | a run recorded as clean had trusted suites and an evaluator that did not protest in its last evaluation, and a PASS is of a clean run whose suites passed; the manifest is of one evaluation however many generators failed; the exit code says whether there is one |

`MCOrchestrator` also checks `ImplementsProtocol`, the refinement.

*Bounds.*  `MCOrchestrator`: two evaluators (as many as reconciliation looks at), two
iterations (a first and a last), two Ctrl-C (the second interrupts the handler of the
first or the unprotected cleanup after it).  `MCEvaluator`: two criteria with
thresholds on either side of the refusal limit of 7, a name off the rubric, a score in
each band the code separates, sheets of at most two entries, five suite outcomes.
`MCSuiteExecution`: three grades, so that a report can be stale by two.
`MCContractNegotiation`: three rounds, one above the default, two criteria.
`MCAgents`: two iterations (a retry on a tree with history), two evaluators (one may
grade what the other did not see), three paths: one git and the change detection see,
one in a directory the change detection skips, and the catch-all output file.
`MCRunRecord`: two criteria with thresholds on either side of the report's 7.0 (6.0
and 8.0), a name off the rubric, scores less than, exactly and more than a point apart
on both sides of the thresholds, repeated criteria, vetoes, bugs with and without a
place, up to three evaluators (one more than are reconciled). `MCShellPipeline`: three
iterations, so that one can fail between two that were evaluated.

*Fairness.*  `Orchestrator!FairSpec` and `ContractNegotiation!FairSpec` assume weak
fairness of the program's own steps: every call it waits for has a timeout (600 s
copilot, 120 or 180 s provider, 120 s suite).  Nothing is assumed of Ctrl-C or of
the process being killed.  `Agents!Spec` assumes it of the agents' steps for the
same reason (600 s copilot, 120 and 180 s provider, 10 s git diff); an exception is
only assumed to follow where copilot is missing and nothing else can, and nothing is
assumed of a killed call's children.  `ShellPipeline` has no liveness: the script
waits for `copilot` without a timeout.  `Evaluator`, `SuiteExecution` and
`RunRecord` are sequential calls or passive files, with safety properties only.

Violations, each run checking one sentence of the documents or comments:

* `FailureIsReported` - an exception in setup leaves the status at running.
* `EveryRunHasTelemetry` - a run whose pipeline raised announces its error and leaves no
  manifest.  The documents want the telemetry of every run, `complete | failed |
  interrupted` (PROJECT_SPEC.md:266-278), partial where it was interrupted or where both
  evaluators failed (docs/TEST_PLAN.md:20, 27); `start_run` makes the manifest only when
  nothing was raised.
* `PassNeedsTests` - a sheet without scores, or a low score off the rubric, passes
  over failing hidden tests.
* `TrustedIsFresh` - a silent runner has the previous report counted as its own, and
  a runner that outlived its timeout writes over the report of another.
* `DiffShowsTheCode` - the evaluator's `git diff` is taken after the commit, and is
  empty for the work that was committed.

## Proofs

All proofs are for every value of the constants.  The assumptions on them are in the
modules: at least one evaluator, iteration, round or grade, as a run that gets
anywhere has; any set of criteria and files.  The properties are not inductive as they
stand, and each component has an `IInv` that is: TLC finds it invariant on the
instance of its run, and a lemma with one step per action proves each of its parts.

`OrchestratorProofs`: `TypeOK`, `MarkedAfterStatus`, `ArchivedIsGraded`,
`PassIsEarned`, `FailSpendsIterations`, `CleanupFires`, the action properties
`ErrorIsFinal` and `RetriesAreInformed`, and the refinement `ImplementsProtocol`.
What holds of a manifest says nothing of the states before it is written; `IInv` adds
`ControlInv` (what the marks and the exception in flight are at each statement),
`DataInv` (what the pipeline has established: results are of the current code, the
verdict is theirs, the archive is the graded code once the run is `Concluding`),
`FeedbackInv` and `CleanInv` (how far the cleanup has come, how many Ctrl-C it takes
to stop it).  `ProtocolStep` maps each action to one of the protocol's or to a
stutter.

`EvaluatorProofs`: `TypeOK`, `PassOverFailures`, `VerdictHasReason` (both ways: what a
PASS meets and what a FAIL has behind it), `RegressionIsFail`, `EvidenceKept`,
`RubberStampFlagged` and the action property `MitigationsHarden`.
What is published says nothing of how it was made, so `IInv` states what is known
of `result` in each phase: `GradedInv` after a sheet was judged, `MitigatedInv`
after the refusal check replaced it, `VetoedInv` after the regression veto,
`StampInv` throughout (a re-prompt may drop the flag, as its sheet is no refusal), and
that `published` is `result` once written and no PASS before.  Its type part rests
on arithmetic: `PassRateIsScore` bounds the rounded pass rate of any suite by 10
points, through the bounds of a division (`PercentBounds`).

`SuiteExecutionProofs`: `TypeOK`, `InjectedToRunOnly`, `TrustedIsOfItsRun`,
`FailuresAreCounted`, `UntrustedShowsErrors`.  What a trusted result is of depends on
the files and runners other calls left behind: `ReportInv` says whose a report can
be, `FreshInv` that no file or surviving runner is of a suite still to be run in this
grade, `ParseInv` that the parser finds its own report or an older one.

`ContractNegotiationProofs`: `TypeOK`, `ReturnedIsReviewed`, `FilesTellTheStory`, from
`RoundInv`, what the round in progress has done at each statement.

`ShellPipelineProofs`: `TypeOK`, `PassIsEarned`, `OneIterationRecorded`.  The script
resets nothing, so `IInv` says whose values its globals hold: `CountInv`,
`GlobalsInv` (of the last evaluation, except between new suites and their verdict)
and `ValidityInv` (what makes a run clean and a verdict PASS).

`AgentsProofs`: `TypeOK`, `HandoffIsWhole`, `SuccessIsCommitted`, `GradedIsArchived`,
from `HandoffInv`, `CommitInv` (work missing from HEAD is the current run's, or of one
that did not succeed) and `GradedInv`.

`ReconcilerProofs`: for any two results, with sheets of any length, `reconcile` has an
outcome (`ReconcileReturns`), does not depend on who comes first
(`ReconcileIsSymmetric`) and keeps one bug per place (`BugsAreMerged`).  A dictionary by
criterion keeps the largest index that names it and the merged bugs the smallest of
each place, so these rest on largest and smallest indices of a sequence.  The library's
induction theorems cannot be used (they take a predicate); `LeastNatural` gets a least
element from the well-foundedness of `<` on the naturals instead, and everything else
about maxima and first occurrences follows from it (`LargestIndex`, `FirstComplaint`).

`RunRecordProofs`: `TypeOK`, `VerdictMatchesScores`, `BugsSurvive`, `RowsExplainVerdict`,
for any criteria, any thresholds the criteria file may have (1 to 10 points) and any
results.  `IInv` adds `FilesInv`: whose words each file holds.  What the
recorded scores say of the recorded verdict then depends on what an evaluator's own
scores say of its own verdict: `ResultsAssumption`.  That assumption is discharged by
`PublishedIsReasoned` of `EvaluatorProofs`: whatever path `grade` takes, what it
publishes, with `reprompted` and `veto` read off the recovery and the suites, is a result
that `HasReason` (`AsRead` is the mapping).  `LiftedScore` is the
argument's centre: of two scores of which one misses the threshold, only those that
agree can end above it.

*How long things take.*  `RunIsShort`, `NegotiationIsShort` and `ScriptIsShort` give a
measure, `Left`, that starts at a number the configuration bounds, stays a natural
number and falls with every step (`Countdown`), the agents' failures, Ctrl-C and kills
included.  So a run cannot go on forever by executing statements; what is left to
fairness in `Terminates` is only that each statement ends.  A Ctrl-C costs ten statements
at most, because the handler, `finally` and nothing else follow it; `MaxSignals`
bounds their number, as nothing in the program does.

Only model-checked: liveness (`Terminates`, `PipelineIsMarked`, `RunEnds`; fairness is
out of the prover's reach).  `RunProtocol` has no theorem of its own: it is what
`ImplementsProtocol` is proved against.

## Not modelled

Prompt texts, layout, costs and durations; fixtures, which decide nothing; port
allocation, tool restrictions and `BaseAgent.launch_subprocess`, which no run uses;
`generate_comparison`, the difficulty zones and `list_replayable_runs`, which
nothing calls; the scripts that run the benchmark script in a loop and tabulate its
manifests.  In `Evaluator` a file system that refuses a write: the orchestrator's
`PipelineRaises` is what a grade that raises means to a run (its own writes do fail,
`WriteFails`).  An empty list of
evaluator models (the run then raises before the first agent).  `Agents` has the
trio order only: a solo run calls the same generator once, without planner or
negotiation.  The showcase, the website and the slides are demonstrations, and the
programs under `benchmarks/` are what the agents work on; neither is part of the
harness.

Observations of the models that have no run of their own:

* `.done` is touched before the manifest is written (orchestrator.py:110, against
  docs/TEST_PLAN.md:16): a kill, a Ctrl-C or a failed write in between leaves a run that
  says done, or raised, and has no manifest.
* `replay` reads `runs/<id>/manifest.json` (replay.py:47), which no part of the harness
  writes: a recorded run is refused (`RunRecord!ReplayRefused`) until somebody copies its
  manifest there (`PutManifest`), against docs/TEST_PLAN.md:10.
* The run's validity is that of the first evaluator's suites alone
  (orchestrator.py:408).
* The contract used is the proposal without the reviewer's additions (contract.py:180,
  against contract.py:124).
* The evaluator computes `suspicious_approval`, and nothing puts it into the manifest
  (docs/TEST_PLAN.md:25 speaks of telemetry).
* The script's `RUN_VALIDITY` is of all its iterations, the orchestrator's validity of
  the final evidence (run-benchmark.sh:723, orchestrator.py:403-414).  Neither is
  documented; `ShellPipeline!PassIsEarned` holds of both.
* The script, too, leaves no manifest when it fails (PROJECT_SPEC.md:266-278), and one
  sprint with a value `SprintMetrics` refuses, such as a null justification, makes it fail
  at its end even after a PASS (run-benchmark.sh:150).

## Plan

The model covers what the harness does in a run; every safety property and action
property a run checks is a theorem, and what `RunRecord` assumes of grades is one of
`Evaluator`.  What could still be proved is how more of the parts meet (the outcomes
`SuiteExecution` trusts are those `Evaluator` takes, the contract `Agents` hands over is
the one `ContractNegotiation` returns), and a measure for `Agents` like those of the
other sequential parts.
