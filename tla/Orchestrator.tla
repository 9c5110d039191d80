---------------------------- MODULE Orchestrator ----------------------------
(***************************************************************************)
(* The lifecycle of one benchmark run: Orchestrator.start_run and the two  *)
(* pipelines it drives (src/src/harnessa/orchestrator.py).                 *)
(*                                                                         *)
(* The process is single threaded; what interleaves with it is Ctrl-C,     *)
(* whose handler runs between any two statements, and being killed.  Each  *)
(* value of pc names the statement about to run, so an interruption falls  *)
(* between any two of them.  The agents are seen from outside: each call   *)
(* returns or raises, and a grade returns any EvaluationResult             *)
(* (Evaluator.tla shows which results a grade can return).                 *)
(***************************************************************************)
EXTENDS Naturals, Sequences

CONSTANTS
    EvaluatorCount,   \* len(config.evaluator_models)
    MaxIterations,    \* config.max_iterations
    MaxSignals        \* bound: Ctrl-C keystrokes during the run

ASSUME EvaluatorCountAssumption == EvaluatorCount \in Nat \ {0}
ASSUME MaxIterationsAssumption  == MaxIterations \in Nat \ {0}
ASSUME MaxSignalsAssumption     == MaxSignals \in Nat

VARIABLES
    mode,         \* config.mode
    pc,           \* the statement about to run
    resume,       \* where the signal handler interrupted, or "none"
    raising,      \* the exception in flight through finally, or "none"
    exit,         \* how the process left start_run, or "none"
    signals,      \* Ctrl-C keystrokes so far
    handler,      \* who handles SIGINT: Python's default or the orchestrator
    shields,      \* handlers on the stack that were interrupted in their cleanup
    unwritten,    \* history: some write to the run's directory has failed
    status,       \* contents of run_dir/.status
    done,         \* run_dir/.done exists
    genTree,      \* run_dir/generator
    evalTree,     \* run_dir/evaluator
    snapshot,     \* the code in run_dir/artifacts, 0 when there is none
    manifest,     \* telemetry/run-manifest.json
    code,         \* the generator run whose code is in the generator's tree
    prompted,     \* iteration whose feedback the last generator run was given
    feedback,     \* iteration that wrote feedback_path, 0 for None
    iteration,    \* the loop variable of the trio loop, 1 in solo mode
    results,      \* eval_results of the current iteration
    lastEval,     \* self._last_eval_result
    verdict,      \* current_verdict
    sprints       \* len(sprints)

faults    == <<shields, unwritten>>
process   == <<resume, raising, exit, signals, handler, faults>>
marks     == <<status, done>>
trees     == <<genTree, evalTree>>
artifacts == <<snapshot, manifest>>
loop      == <<code, prompted, feedback, iteration, results, lastEval,
               verdict, sprints>>
vars      == <<mode, pc, process, marks, trees, artifacts, loop>>

-----------------------------------------------------------------------------
(* Data *)

Verdicts == {"PASS", "FAIL"}

\* An EvaluationResult: trusted when no suite result it holds has
\* execution_ok = False; code is the generator run that was graded.
EvaluationResult ==
    [verdict : Verdicts, trusted : BOOLEAN, code : 1..MaxIterations]

NoResult == [verdict |-> "FAIL", trusted |-> FALSE, code |-> 0]

Validities == {"clean", "harness_error", "tainted"}

Manifest ==
    [verdict : Verdicts, validity : Validities, code : 0..MaxIterations,
     sprints : 0..MaxIterations]

NoManifest ==
    [verdict |-> "none", validity |-> "none", code |-> 0, sprints |-> 0]

SetupPcs    == {"createDirs", "installHandler", "writeRunning", "loadCriteria",
                "prepareGenerator", "prepareEvaluator"}
PipelinePcs == {"planner", "negotiate", "generator", "saveSnapshot",
                "evaluator", "reconcile", "writeFeedback"}
DonePcs     == {"writeDone", "touchDone"}
TryPcs      == PipelinePcs \cup DonePcs
ExceptPcs   == {"writeError", "touchError"}
FinallyPcs  == {"restoreHandler", "cleanGenerator", "cleanEvaluator"}
HandlerPcs  == {"sigWrite", "sigTouch", "sigCleanGenerator",
                "sigCleanEvaluator", "sigRaise"}
Pcs         == SetupPcs \cup TryPcs \cup ExceptPcs \cup FinallyPcs
                 \cup HandlerPcs \cup {"writeManifest", "return", "end"}

(***************************************************************************)
(* The run's validity comes from the suites of one evaluation result.      *)
(***************************************************************************)
DeriveRunValidity(r) ==
    IF r = NoResult THEN "tainted"
    ELSE IF r.trusted THEN "clean" ELSE "harness_error"

(***************************************************************************)
(* A definition named X_HowItBreaks is X with a plausible bug; the mutants *)
(* of PROJECT.json put it in the place of X.                               *)
(***************************************************************************)

(***************************************************************************)
(* ScoreReconciler.reconcile on verdicts: only the first two results are   *)
(* handed to it, and FAIL wins.                                            *)
(***************************************************************************)
ReconciledVerdict_BothMustFail(rs) ==
    IF \A i \in 1..Len(rs) : i <= 2 => rs[i].verdict = "FAIL"
    THEN "FAIL" ELSE "PASS"

ReconciledVerdict(rs) ==
    IF \E i \in 1..Len(rs) : i <= 2 /\ rs[i].verdict = "FAIL"
    THEN "FAIL" ELSE "PASS"

-----------------------------------------------------------------------------

Init ==
    /\ mode \in {"solo", "trio"}
    /\ pc = "createDirs"
    /\ resume = "none" /\ raising = "none" /\ exit = "none" /\ signals = 0
    /\ handler = "default" /\ shields = 0 /\ unwritten = FALSE
    /\ status = "none" /\ done = FALSE
    /\ genTree = "absent" /\ evalTree = "absent"
    /\ snapshot = 0 /\ manifest = NoManifest
    /\ code = 0 /\ prompted = 0 /\ feedback = 0 /\ iteration = 1
    /\ results = <<>> /\ lastEval = NoResult /\ verdict = "FAIL" /\ sprints = 0

\* The process leaves start_run.
Leave(how) == exit' = how /\ pc' = "end"

(***************************************************************************)
(* Setup, before the try statement: an exception here leaves start_run     *)
(* at once.                                                                *)
(***************************************************************************)
CreateRunDirs ==
    /\ pc = "createDirs"
    /\ genTree' = "partial"
    /\ pc' = "installHandler"
    /\ UNCHANGED <<mode, process, marks, evalTree, artifacts, loop>>

InstallSignalHandler ==
    /\ pc = "installHandler"
    /\ handler' = "harness"
    /\ pc' = "writeRunning"
    /\ UNCHANGED <<mode, resume, raising, exit, signals, faults, marks,
                   trees, artifacts, loop>>

WriteRunning ==
    /\ pc = "writeRunning"
    /\ status' = "running"
    /\ pc' = "loadCriteria"
    /\ UNCHANGED <<mode, process, done, trees, artifacts, loop>>

LoadCriteria ==
    /\ pc = "loadCriteria"
    /\ pc' = "prepareGenerator"
    /\ UNCHANGED <<mode, process, marks, trees, artifacts, loop>>

PrepareGeneratorWorktree ==
    /\ pc = "prepareGenerator"
    /\ genTree' = "ready"
    /\ pc' = "prepareEvaluator"
    /\ UNCHANGED <<mode, process, marks, evalTree, artifacts, loop>>

PrepareEvaluatorWorktree ==
    /\ pc = "prepareEvaluator"
    /\ evalTree' = "ready"
    /\ pc' = IF mode = "trio" THEN "planner" ELSE "generator"
    /\ UNCHANGED <<mode, process, marks, genTree, artifacts, loop>>

\* A directory that cannot be made, bad criteria, or a copy or git worktree
\* that fails half way.
SetupFails ==
    /\ \/ pc = "loadCriteria" /\ UNCHANGED trees
       \/ /\ pc \in {"createDirs", "prepareGenerator"}
          /\ genTree' \in {"absent", "partial"} /\ UNCHANGED evalTree
       \/ /\ pc = "prepareEvaluator"
          /\ evalTree' \in {"absent", "partial"} /\ UNCHANGED genTree
    /\ Leave("exception")
    /\ UNCHANGED <<mode, resume, raising, signals, handler, faults, marks,
                   artifacts, loop>>

(***************************************************************************)
(* The pipeline, inside the try statement.                                 *)
(***************************************************************************)
RunPlanner ==
    /\ pc = "planner"
    /\ pc' = "negotiate"
    /\ UNCHANGED <<mode, process, marks, trees, artifacts, loop>>

\* Any agreement lets the run go on, approved or not (ContractNegotiation).
NegotiateContract ==
    /\ pc = "negotiate"
    /\ pc' = "generator"
    /\ UNCHANGED <<mode, process, marks, trees, artifacts, loop>>

RunGenerator ==
    /\ pc = "generator"
    /\ code' = iteration
    /\ prompted' = feedback
    /\ results' = <<>>
    /\ pc' = IF mode = "trio" THEN "evaluator" ELSE "saveSnapshot"
    /\ UNCHANGED <<mode, process, marks, trees, artifacts, feedback,
                   iteration, lastEval, verdict, sprints>>

\* Solo mode archives the code before grading it, trio mode after.
SaveArtifactSnapshot ==
    /\ pc = "saveSnapshot"
    /\ snapshot' = code
    /\ pc' = IF mode = "trio" THEN "writeDone" ELSE "evaluator"
    /\ UNCHANGED <<mode, process, marks, trees, manifest, loop>>

\* One evaluator model grades the code in the generator's tree.
GradeWith(r) ==
    /\ pc = "evaluator"
    /\ r.code = code
    /\ results' = Append(results, r)
    /\ pc' = IF Len(results') = EvaluatorCount THEN "reconcile" ELSE "evaluator"
    /\ UNCHANGED <<mode, process, marks, trees, artifacts, code, prompted,
                   feedback, iteration, lastEval, verdict, sprints>>

Reconcile_PassUnarchived ==
    /\ pc = "reconcile"
    /\ verdict' = ReconciledVerdict(results)
    /\ lastEval' = results[1]
    /\ sprints' = IF mode = "trio" THEN iteration ELSE 0
    /\ pc' = IF mode = "solo" \/ verdict' = "PASS" THEN "writeDone"
             ELSE "writeFeedback"
    /\ UNCHANGED <<mode, process, marks, trees, artifacts, code, prompted,
                   feedback, iteration, results>>

Reconcile ==
    /\ pc = "reconcile"
    /\ verdict' = ReconciledVerdict(results)
    /\ lastEval' = results[1]
    /\ sprints' = IF mode = "trio" THEN iteration ELSE 0
    /\ pc' = IF mode = "solo" THEN "writeDone"
             ELSE IF verdict' = "PASS" THEN "saveSnapshot"
             ELSE "writeFeedback"
    /\ UNCHANGED <<mode, process, marks, trees, artifacts, code, prompted,
                   feedback, iteration, results>>

WriteFeedback_OneShort ==
    /\ pc = "writeFeedback"
    /\ feedback' = iteration
    /\ IF iteration + 1 < MaxIterations
       THEN iteration' = iteration + 1 /\ pc' = "generator"
       ELSE UNCHANGED iteration /\ pc' = "saveSnapshot"
    /\ UNCHANGED <<mode, process, marks, trees, artifacts, code, prompted,
                   results, lastEval, verdict, sprints>>

WriteFeedback_PathNotKept ==
    /\ pc = "writeFeedback"
    /\ IF iteration < MaxIterations
       THEN iteration' = iteration + 1 /\ pc' = "generator"
       ELSE UNCHANGED iteration /\ pc' = "saveSnapshot"
    /\ UNCHANGED <<mode, process, marks, trees, artifacts, code, prompted,
                   feedback, results, lastEval, verdict, sprints>>

WriteFeedback_NeverAdvances ==
    /\ pc = "writeFeedback"
    /\ feedback' = iteration
    /\ pc' = IF iteration < MaxIterations THEN "generator" ELSE "saveSnapshot"
    /\ UNCHANGED <<mode, process, marks, trees, artifacts, code, prompted,
                   iteration, results, lastEval, verdict, sprints>>

WriteFeedback_CountsPastTheEnd ==
    /\ pc = "writeFeedback"
    /\ feedback' = iteration
    /\ iteration' = iteration + 1
    /\ pc' = IF iteration < MaxIterations THEN "generator" ELSE "saveSnapshot"
    /\ UNCHANGED <<mode, process, marks, trees, artifacts, code, prompted,
                   results, lastEval, verdict, sprints>>

\* The loop ends with a snapshot when the iterations are spent.
WriteFeedback ==
    /\ pc = "writeFeedback"
    /\ feedback' = iteration
    /\ IF iteration < MaxIterations
       THEN iteration' = iteration + 1 /\ pc' = "generator"
       ELSE UNCHANGED iteration /\ pc' = "saveSnapshot"
    /\ UNCHANGED <<mode, process, marks, trees, artifacts, code, prompted,
                   results, lastEval, verdict, sprints>>

\* An agent, the reconciliation, the feedback file or the snapshot copy raises:
\* TASK.md missing, a provider error, an unparseable contract, a suite directory
\* that cannot be copied, a full disk, ...
PipelineRaises ==
    /\ pc \in PipelinePcs
    /\ raising' = "exception"
    /\ pc' = "writeError"
    /\ UNCHANGED <<mode, resume, exit, signals, handler, faults, marks, trees,
                   artifacts, loop>>

(***************************************************************************)
(* _write_status: the .status file is replaced, then .done is touched.     *)
(***************************************************************************)
WriteStatus(s) ==
    /\ status' = s
    /\ UNCHANGED <<mode, process, done, trees, artifacts, loop>>

TouchDone ==
    /\ done' = TRUE
    /\ UNCHANGED <<mode, process, status, trees, artifacts, loop>>

WriteDone_TouchFirst ==
    pc = "writeDone" /\ TouchDone /\ pc' = "touchDone"
WriteError_Unmarked ==
    pc = "writeError" /\ WriteStatus("error") /\ pc' = "restoreHandler"

WriteDone  == pc = "writeDone"  /\ WriteStatus("done")  /\ pc' = "touchDone"
WriteError == pc = "writeError" /\ WriteStatus("error") /\ pc' = "touchError"
TouchAfter == pc \in {"touchDone", "touchError"} /\ TouchDone
                /\ pc' = "restoreHandler"

(***************************************************************************)
(* A write of .status, .done or the manifest raises OSError: before the    *)
(* try statement or after it start_run is left, DONE takes the except      *)
(* branch and ERROR finally.  In the handler it is raised by the statement *)
(* that was interrupted, unless a handler interrupted in its cleanup is in *)
(* between: that one swallows it and raises KeyboardInterrupt.             *)
(***************************************************************************)
WriteFails ==
    /\ unwritten' = TRUE
    /\ \/ /\ pc \in {"writeRunning", "writeManifest"}
          /\ Leave("exception") /\ UNCHANGED <<resume, raising, shields>>
       \/ /\ pc \in DonePcs \cup ExceptPcs
          /\ raising' = "exception"
          /\ pc' = IF pc \in DonePcs THEN "writeError" ELSE "restoreHandler"
          /\ UNCHANGED <<resume, exit, shields>>
       \/ /\ pc \in {"sigWrite", "sigTouch"} /\ shields > 0
          /\ shields' = shields - 1 /\ pc' = "sigRaise"
          /\ UNCHANGED <<resume, raising, exit>>
       \/ /\ pc \in {"sigWrite", "sigTouch"} /\ shields = 0
          /\ resume' = "none" /\ UNCHANGED shields
          /\ IF resume \in TryPcs \cup ExceptPcs
             THEN /\ raising' = "exception"
                  /\ pc' = IF resume \in TryPcs THEN "writeError" ELSE "restoreHandler"
                  /\ UNCHANGED exit
             ELSE Leave("exception") /\ UNCHANGED raising
    /\ UNCHANGED <<mode, signals, handler, marks, trees, artifacts, loop>>

(***************************************************************************)
(* finally: restore the handler, then IsolationManager.cleanup_worktrees,  *)
(* which removes the generator's tree and then the evaluator's.  A tree    *)
(* that cannot be removed abandons the rest; both callers swallow it.      *)
(***************************************************************************)
RestoreSignalHandler ==
    /\ pc = "restoreHandler"
    /\ handler' = "default"
    /\ pc' = "cleanGenerator"
    /\ UNCHANGED <<mode, resume, raising, exit, signals, faults, marks,
                   trees, artifacts, loop>>

AfterFinally_Resumes == pc' = "writeManifest" /\ UNCHANGED exit

\* What follows cleanup in start_run.
AfterFinally ==
    IF raising = "none" THEN pc' = "writeManifest" /\ UNCHANGED exit
    ELSE Leave(raising)

CleanGenerator_StopsThere ==
    /\ pc \in {"cleanGenerator", "sigCleanGenerator"}
    /\ genTree' = "absent"
    /\ IF pc = "cleanGenerator" THEN AfterFinally
       ELSE pc' = "sigRaise" /\ UNCHANGED exit
    /\ UNCHANGED <<mode, resume, raising, signals, handler, faults, marks,
                   evalTree, artifacts, loop>>

CleanGenerator ==
    /\ pc \in {"cleanGenerator", "sigCleanGenerator"}
    /\ genTree' = "absent"
    /\ pc' = IF pc = "cleanGenerator" THEN "cleanEvaluator" ELSE "sigCleanEvaluator"
    /\ UNCHANGED <<mode, process, marks, evalTree, artifacts, loop>>

CleanEvaluator ==
    /\ pc \in {"cleanEvaluator", "sigCleanEvaluator"}
    /\ evalTree' = "absent"
    /\ IF pc = "cleanEvaluator" THEN AfterFinally
       ELSE pc' = "sigRaise" /\ UNCHANGED exit
    /\ UNCHANGED <<mode, resume, raising, signals, handler, faults, marks,
                   genTree, artifacts, loop>>

CleanupFails ==
    /\ \/ /\ pc \in {"cleanGenerator", "sigCleanGenerator"}
          /\ genTree # "absent" /\ genTree' = "partial" /\ UNCHANGED evalTree
       \/ /\ pc \in {"cleanEvaluator", "sigCleanEvaluator"}
          /\ evalTree # "absent" /\ evalTree' = "partial" /\ UNCHANGED genTree
    /\ IF pc \in FinallyPcs THEN AfterFinally
       ELSE pc' = "sigRaise" /\ UNCHANGED exit
    /\ UNCHANGED <<mode, resume, raising, signals, handler, faults, marks,
                   artifacts, loop>>

WriteManifest ==
    /\ pc = "writeManifest"
    /\ manifest' = [verdict  |-> verdict,
                    validity |-> DeriveRunValidity(lastEval),
                    code     |-> lastEval.code,
                    sprints  |-> sprints]
    /\ pc' = "return"
    /\ UNCHANGED <<mode, process, marks, trees, snapshot, loop>>

Return ==
    /\ pc = "return"
    /\ Leave("returned")
    /\ UNCHANGED <<mode, resume, raising, signals, handler, faults, marks,
                   trees, artifacts, loop>>

(***************************************************************************)
(* Ctrl-C.  While the orchestrator's handler is installed it writes ERROR, *)
(* cleans the trees up and raises KeyboardInterrupt from the interrupted   *)
(* statement; a second Ctrl-C re-enters it.  Under Python's own handler    *)
(* KeyboardInterrupt is raised at once, and nothing here catches it.       *)
(***************************************************************************)
CtrlC ==
    /\ pc # "end" /\ signals < MaxSignals
    /\ signals' = signals + 1
    /\ IF handler = "harness"
       THEN /\ resume' = IF pc \in HandlerPcs THEN resume ELSE pc
            /\ shields' = IF pc \in {"sigCleanGenerator", "sigCleanEvaluator"}
                          THEN shields + 1 ELSE shields
            /\ pc' = "sigWrite"
            /\ UNCHANGED exit
       ELSE Leave("interrupt") /\ UNCHANGED <<resume, shields>>
    /\ UNCHANGED <<mode, raising, handler, unwritten, marks, trees, artifacts,
                   loop>>

SigWrite == pc = "sigWrite" /\ WriteStatus("error") /\ pc' = "sigTouch"
SigTouch == pc = "sigTouch" /\ TouchDone /\ pc' = "sigCleanGenerator"

SigRaise_Returns ==
    /\ pc = "sigRaise"
    /\ resume' = "none"
    /\ pc' = resume
    /\ UNCHANGED <<mode, raising, exit, signals, handler, faults, marks, trees,
                   artifacts, loop>>

\* KeyboardInterrupt is no Exception: inside the try statement it skips the
\* except clause and runs finally, elsewhere it leaves start_run.
SigRaise ==
    /\ pc = "sigRaise"
    /\ resume' = "none" /\ shields' = 0
    /\ IF resume \in TryPcs \cup ExceptPcs
       THEN raising' = "interrupt" /\ pc' = "restoreHandler" /\ UNCHANGED exit
       ELSE Leave("interrupt") /\ UNCHANGED raising
    /\ UNCHANGED <<mode, signals, handler, unwritten, marks, trees, artifacts,
                   loop>>

\* The process is killed, or the machine stops.
Killed ==
    /\ pc # "end"
    /\ Leave("killed")
    /\ UNCHANGED <<mode, resume, raising, signals, handler, faults, marks,
                   trees, artifacts, loop>>

-----------------------------------------------------------------------------

Setup == \/ CreateRunDirs \/ InstallSignalHandler \/ WriteRunning
         \/ LoadCriteria \/ PrepareGeneratorWorktree
         \/ PrepareEvaluatorWorktree \/ SetupFails

Pipeline == \/ RunPlanner \/ NegotiateContract \/ RunGenerator
            \/ SaveArtifactSnapshot
            \/ \E r \in EvaluationResult : GradeWith(r)
            \/ Reconcile \/ WriteFeedback \/ PipelineRaises

Finish == \/ WriteDone \/ WriteError \/ TouchAfter
          \/ RestoreSignalHandler \/ CleanGenerator \/ CleanEvaluator
          \/ CleanupFails \/ WriteManifest \/ Return

Handler == SigWrite \/ SigTouch \/ SigRaise

\* The process makes a step of its own.
Step == Setup \/ Pipeline \/ Finish \/ Handler \/ WriteFails

\* Nothing runs any more.
Gone == pc = "end" /\ UNCHANGED vars

Next == Step \/ CtrlC \/ Killed \/ Gone

Spec == Init /\ [][Next]_vars

\* The process runs as long as it is alive: every agent call is bounded by
\* a timeout (600 s for copilot, 180 s and 120 s for the provider, 120 s for
\* a suite).  Nobody owes the run a Ctrl-C or a crash.
FairSpec == Spec /\ WF_vars(Step)

-----------------------------------------------------------------------------
(* Properties *)

\* Type correctness.
TypeOK ==
    /\ mode \in {"solo", "trio"}
    /\ pc \in Pcs
    /\ resume \in Pcs \cup {"none"}
    /\ raising \in {"none", "exception", "interrupt"}
    /\ exit \in {"none", "returned", "exception", "interrupt", "killed"}
    /\ signals \in 0..MaxSignals
    /\ handler \in {"default", "harness"}
    /\ shields \in 0..signals /\ unwritten \in BOOLEAN
    /\ status \in {"none", "running", "done", "error"}
    /\ done \in BOOLEAN
    /\ genTree \in {"absent", "partial", "ready"}
    /\ evalTree \in {"absent", "partial", "ready"}
    /\ snapshot \in 0..MaxIterations
    /\ manifest \in Manifest \cup {NoManifest}
    /\ code \in 0..MaxIterations
    /\ prompted \in 0..MaxIterations
    /\ feedback \in 0..MaxIterations
    /\ iteration \in 1..MaxIterations
    /\ results \in Seq(EvaluationResult)
    /\ lastEval \in EvaluationResult \cup {NoResult}
    /\ verdict \in Verdicts
    /\ sprints \in 0..MaxIterations

\* A reader that waits for .done never finds the status still "running": the
\* marker is touched after the status is replaced, on the normal path, on the
\* error path and in the signal handler, however these interleave.
MarkedAfterStatus == done => status \in {"done", "error"}

\* The code in artifacts/ is the code the manifest's evaluation graded and
\* the last the generator wrote, although solo mode archives before grading
\* and trio mode after, on two different paths.
ArchivedIsGraded ==
    manifest # NoManifest => snapshot = manifest.code /\ code = snapshot

\* A PASS manifest means both reconciled evaluators passed the archived code;
\* no verdict of an earlier iteration is left in it.
PassIsEarned ==
    manifest.verdict = "PASS" =>
        /\ Len(results) = EvaluatorCount
        /\ \A i \in 1..Len(results) :
               i <= 2 => results[i].verdict = "PASS" /\ results[i].code = snapshot

\* A trio run ends FAIL only after every iteration was spent and recorded.
FailSpendsIterations ==
    mode = "trio" /\ manifest.verdict = "FAIL" => manifest.sprints = MaxIterations

\* Cleanup fires: a run that returned, failed in its pipeline or was stopped
\* by one Ctrl-C there leaves a tree intact only because removing one failed.
\* (A second Ctrl-C may stop the cleanup itself, and so may one whose ERROR
\* cannot be written.)
CleanupFires ==
    /\ \/ exit = "returned"
       \/ raising # "none" /\ exit = raising /\ (exit = "interrupt" => signals = 1)
    /\ unwritten => signals = 0
    => genTree # "ready" /\ (genTree = "absent" => evalTree # "ready")

\* A retry is a reaction: the generator runs again only after a FAIL, and is
\* given the feedback of the iteration before it.
RetriesAreInformed ==
    [][code' # code /\ iteration > 1 =>
          verdict = "FAIL" /\ prompted' = iteration - 1]_vars

\* No run that was once marked ERROR is marked anything else later: Ctrl-C
\* between any two statements, DONE's included, is never overwritten.
ErrorIsFinal == [][status = "error" => status' = "error"]_vars

\* Every run comes to an end, whatever fails and however often Ctrl-C is hit.
Terminates == <>(pc = "end")

\* Once the pipeline has started, its end is announced by .done unless the
\* process is killed or a write of the marks fails.
PipelineIsMarked == pc \in TryPcs ~> (done \/ unwritten \/ exit = "killed")

\* Seen from its directory a run is the protocol of RunProtocol: the status
\* settles once and only towards error, .done follows it, the manifest is
\* written once, whoever is returned to finds a run that is done, marked and
\* recorded, and nothing moves afterwards, whatever raises, whichever write
\* fails, however Ctrl-C interleaves and whenever the kill comes.
Protocol == INSTANCE RunProtocol WITH
                announced <- status,
                marked    <- done,
                recorded  <- manifest.verdict,
                outcome   <- exit

ImplementsProtocol == Protocol!Spec

-----------------------------------------------------------------------------
(* What the project's documents say and the code does not do               *)

\* docs/TEST_PLAN.md:17, the .status protocol: a run that started and failed
\* says so.
FailureIsReported == exit = "exception" /\ status # "none" => status = "error"

\* PROJECT_SPEC.md:266, docs/TEST_PLAN.md:20 and 27: failed and interrupted runs
\* have their telemetry too.  The run announced its error and ended by itself.
EveryRunHasTelemetry ==
    status = "error" /\ exit \in {"exception", "interrupt"} => manifest # NoManifest

-----------------------------------------------------------------------------
(* The inductive invariant behind the safety properties                    *)

\* Every result of the iteration grades the code in the generator's tree.
CodeGraded == \A i \in 1..Len(results) : results[i].code = code

\* All evaluators have answered and the verdict is theirs.
Judged ==
    /\ Len(results) = EvaluatorCount
    /\ CodeGraded
    /\ verdict = ReconciledVerdict(results)
    /\ lastEval = results[1]
    /\ mode = "trio" => sprints = iteration

\* The trio loop is over.
LoopOver == mode = "trio" /\ verdict = "FAIL" => iteration = MaxIterations

\* The run is on its way to a manifest.
Concluding ==
    \/ pc \in DonePcs
    \/ raising = "none" /\ pc \in FinallyPcs \cup {"writeManifest", "return"}

\* What the marks and the exception in flight are at each statement.
ControlInv ==
    /\ pc \in SetupPcs => ~done
    /\ pc \in {"createDirs", "installHandler", "writeRunning"} => status = "none"
    /\ pc \in PipelinePcs \cup {"loadCriteria", "prepareGenerator",
                              "prepareEvaluator", "writeDone"} =>
          status = "running"
    /\ pc = "touchDone" => status = "done"
    /\ pc \in {"touchError", "sigTouch"} => status = "error"
    /\ pc \in ExceptPcs => raising = "exception"
    /\ pc \in {"writeManifest", "return"} => raising = "none"
    /\ raising = "none" /\ pc \in FinallyPcs \cup {"writeManifest", "return"} =>
          status = "done" /\ done
    /\ pc \notin HandlerPcs \cup {"end"} => resume = "none"
    /\ pc = "return" => manifest # NoManifest
    /\ manifest # NoManifest =>
          /\ pc \in HandlerPcs \cup {"return", "end"}
          /\ resume \notin TryPcs \cup ExceptPcs

\* What the pipeline has established at each statement.
DataInv ==
    /\ pc = "evaluator" => Len(results) < EvaluatorCount
    /\ pc = "reconcile" => Len(results) = EvaluatorCount
    /\ pc \in {"evaluator", "reconcile"} =>
          CodeGraded /\ (mode = "solo" => snapshot = code)
    /\ pc = "writeFeedback" => mode = "trio" /\ Judged /\ verdict = "FAIL"
    /\ pc = "saveSnapshot" =>
          IF mode = "trio" THEN Judged /\ LoopOver ELSE results = <<>>
    /\ Concluding => Judged /\ LoopOver /\ snapshot = code

\* What is prompted for at the start of an iteration.
FeedbackInv ==
    /\ pc \in SetupPcs \cup {"planner", "negotiate"} => iteration = 1
    /\ pc = "generator" /\ iteration > 1 =>
          verdict = "FAIL" /\ feedback = iteration - 1

\* How far the cleanup has come, and how many Ctrl-C it takes to stop it.
CleanInv ==
    /\ pc = "cleanEvaluator" => genTree # "ready"
    /\ pc \in {"writeManifest", "return"} =>
          genTree # "ready" /\ (genTree = "absent" => evalTree # "ready")
    /\ pc \in SetupPcs \cup TryPcs => raising = "none"
    /\ raising = "interrupt" \/ pc \in HandlerPcs => signals > 0
    /\ raising = "interrupt" /\ pc \in HandlerPcs => signals > 1
    /\ pc # "end" => exit = "none"

Safety ==
    /\ MarkedAfterStatus
    /\ ArchivedIsGraded
    /\ PassIsEarned
    /\ FailSpendsIterations

IInv ==
    /\ TypeOK /\ ControlInv /\ DataInv /\ FeedbackInv /\ CleanInv
    /\ Safety /\ CleanupFires

-----------------------------------------------------------------------------
(* The measure behind Terminates                                           *)

\* An iteration is the generator, the evaluators, reconciliation and feedback.
IterationLength == EvaluatorCount + 4

\* Statements from here to the end, if no iteration and no Ctrl-C follows.
StatementsLeft ==
    [createDirs       |-> EvaluatorCount + 22, installHandler   |-> EvaluatorCount + 21,
     writeRunning     |-> EvaluatorCount + 20, loadCriteria     |-> EvaluatorCount + 19,
     prepareGenerator |-> EvaluatorCount + 18, prepareEvaluator |-> EvaluatorCount + 17,
     planner          |-> EvaluatorCount + 16, negotiate        |-> EvaluatorCount + 15,
     generator        |-> EvaluatorCount + 14,
     saveSnapshot     |-> IF mode = "solo" THEN EvaluatorCount + 13 ELSE 10,
     evaluator        |-> EvaluatorCount + 12 - Len(results),
     reconcile |-> 12, writeFeedback |-> 11,
     writeDone |-> 9, touchDone |-> 8, writeError |-> 7, touchError |-> 6,
     restoreHandler |-> 5, cleanGenerator |-> 4, cleanEvaluator |-> 3,
     writeManifest |-> 2, return |-> 1, end |-> 0,
     sigWrite |-> 10, sigTouch |-> 9, sigCleanGenerator |-> 8,
     sigCleanEvaluator |-> 7, sigRaise |-> 6]

\* At most so many steps are still to come; a Ctrl-C costs ten.
Left == 10 * (MaxSignals - signals)
          + IterationLength * (MaxIterations - iteration) + StatementsLeft[pc]

Countdown == [][Left' < Left]_vars
=============================================================================
