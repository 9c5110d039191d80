------------------------- MODULE OrchestratorProofs -------------------------
(***************************************************************************)
(* Type correctness and the safety of Orchestrator, for every number of    *)
(* evaluators, iterations and Ctrl-C keystrokes.  IInv is inductive; each  *)
(* of its parts has a lemma below with one step per action.                *)
(***************************************************************************)
EXTENDS Orchestrator, TLAPS

USE EvaluatorCountAssumption, MaxIterationsAssumption, MaxSignalsAssumption

\* Every step keeps the types, given what DataInv knows of the iteration.
LEMMA TypeStep == TypeOK /\ DataInv /\ [Next]_vars => TypeOK'
  <1> SUFFICES ASSUME TypeOK, DataInv, [Next]_vars
               PROVE  TypeOK'
    OBVIOUS
  <1> USE DEF TypeOK, Pcs, SetupPcs, TryPcs, PipelinePcs, DonePcs, ExceptPcs,
              FinallyPcs, HandlerPcs, process, faults, marks, trees, artifacts, loop
  <1>1. CASE CreateRunDirs
    BY <1>1 DEF CreateRunDirs
  <1>2. CASE InstallSignalHandler
    BY <1>2 DEF InstallSignalHandler
  <1>3. CASE WriteRunning
    BY <1>3 DEF WriteRunning
  <1>4. CASE LoadCriteria
    BY <1>4 DEF LoadCriteria
  <1>5. CASE PrepareGeneratorWorktree
    BY <1>5 DEF PrepareGeneratorWorktree
  <1>6. CASE PrepareEvaluatorWorktree
    BY <1>6 DEF PrepareEvaluatorWorktree
  <1>7. CASE SetupFails
    BY <1>7 DEF SetupFails, Leave
  <1>8. CASE RunPlanner
    BY <1>8 DEF RunPlanner
  <1>9. CASE NegotiateContract
    BY <1>9 DEF NegotiateContract
  <1>10. CASE RunGenerator
    BY <1>10 DEF RunGenerator
  <1>11. CASE SaveArtifactSnapshot
    BY <1>11 DEF SaveArtifactSnapshot
  <1>12. ASSUME NEW r \in EvaluationResult, GradeWith(r)
         PROVE  TypeOK'
    BY <1>12 DEF GradeWith
  <1>13. CASE Reconcile
    <2>1. results[1] \in EvaluationResult
      BY <1>13 DEF Reconcile, DataInv
    <2>2. ReconciledVerdict(results) \in Verdicts
      BY DEF ReconciledVerdict, Verdicts
    <2>q. QED
      BY <1>13, <2>1, <2>2 DEF Reconcile
  <1>14. CASE WriteFeedback
    BY <1>14 DEF WriteFeedback
  <1>15. CASE PipelineRaises
    BY <1>15 DEF PipelineRaises
  <1>16. CASE WriteDone
    BY <1>16 DEF WriteDone, WriteStatus
  <1>17. CASE WriteError
    BY <1>17 DEF WriteError, WriteStatus
  <1>18. CASE TouchAfter
    BY <1>18 DEF TouchAfter, TouchDone
  <1>19. CASE RestoreSignalHandler
    BY <1>19 DEF RestoreSignalHandler
  <1>20. CASE CleanGenerator
    BY <1>20 DEF CleanGenerator
  <1>21. CASE CleanEvaluator
    BY <1>21 DEF CleanEvaluator, AfterFinally, Leave
  <1>22. CASE CleanupFails
    BY <1>22 DEF CleanupFails, AfterFinally, Leave
  <1>23. CASE WriteManifest
    <2>1. lastEval.code \in 0..MaxIterations
      BY DEF EvaluationResult, NoResult
    <2>2. DeriveRunValidity(lastEval) \in Validities
      BY DEF DeriveRunValidity, Validities
    <2>3. manifest' \in Manifest
      BY <1>23, <2>1, <2>2 DEF WriteManifest, Manifest
    <2>q. QED
      BY <1>23, <2>3 DEF WriteManifest, Leave
  <1>24. CASE SigWrite
    BY <1>24 DEF SigWrite, WriteStatus
  <1>25. CASE SigTouch
    BY <1>25 DEF SigTouch, TouchDone
  <1>26. CASE SigRaise
    BY <1>26 DEF SigRaise, Leave
  <1>27. CASE CtrlC
    BY <1>27 DEF CtrlC, Leave
  <1>28. CASE Killed
    BY <1>28 DEF Killed, Leave
  <1>29. CASE UNCHANGED vars
    BY <1>29 DEF vars
  <1>30. CASE WriteFails
    BY <1>30 DEF WriteFails, Leave
  <1>31. CASE Return
    BY <1>31 DEF Return, Leave
  <1>q. QED
    BY <1>1, <1>2, <1>3, <1>4, <1>5, <1>6, <1>7, <1>8, <1>9, <1>10, <1>11, <1>12, <1>13, <1>14, <1>15, <1>16, <1>17, <1>18, <1>19, <1>20, <1>21, <1>22, <1>23, <1>24, <1>25, <1>26, <1>27, <1>28, <1>29,
       <1>30, <1>31
       DEF Next, Step, Setup, Pipeline, Finish, Handler, Gone

\* Every step keeps what the marks and the exception in flight are at each pc.
LEMMA ControlStep == TypeOK /\ ControlInv /\ [Next]_vars => ControlInv'
  <1> SUFFICES ASSUME TypeOK, ControlInv, [Next]_vars
               PROVE  ControlInv'
    OBVIOUS
  <1> USE DEF TypeOK, ControlInv, Pcs, SetupPcs, TryPcs, PipelinePcs, DonePcs, ExceptPcs,
              FinallyPcs, HandlerPcs, process, faults, marks, trees, artifacts, loop
  <1>1. CASE CreateRunDirs
    BY <1>1 DEF CreateRunDirs
  <1>2. CASE InstallSignalHandler
    BY <1>2 DEF InstallSignalHandler
  <1>3. CASE WriteRunning
    BY <1>3 DEF WriteRunning
  <1>4. CASE LoadCriteria
    BY <1>4 DEF LoadCriteria
  <1>5. CASE PrepareGeneratorWorktree
    BY <1>5 DEF PrepareGeneratorWorktree
  <1>6. CASE PrepareEvaluatorWorktree
    BY <1>6 DEF PrepareEvaluatorWorktree
  <1>7. CASE SetupFails
    BY <1>7 DEF SetupFails, Leave
  <1>8. CASE RunPlanner
    BY <1>8 DEF RunPlanner
  <1>9. CASE NegotiateContract
    BY <1>9 DEF NegotiateContract
  <1>10. CASE RunGenerator
    BY <1>10 DEF RunGenerator
  <1>11. CASE SaveArtifactSnapshot
    BY <1>11 DEF SaveArtifactSnapshot
  <1>12. ASSUME NEW r \in EvaluationResult, GradeWith(r)
         PROVE  ControlInv'
    BY <1>12 DEF GradeWith
  <1>13. CASE Reconcile
    BY <1>13 DEF Reconcile
  <1>14. CASE WriteFeedback
    BY <1>14 DEF WriteFeedback
  <1>15. CASE PipelineRaises
    BY <1>15 DEF PipelineRaises
  <1>16. CASE WriteDone
    BY <1>16 DEF WriteDone, WriteStatus
  <1>17. CASE WriteError
    BY <1>17 DEF WriteError, WriteStatus
  <1>18. CASE TouchAfter
    BY <1>18 DEF TouchAfter, TouchDone
  <1>19. CASE RestoreSignalHandler
    BY <1>19 DEF RestoreSignalHandler
  <1>20. CASE CleanGenerator
    BY <1>20 DEF CleanGenerator
  <1>21. CASE CleanEvaluator
    BY <1>21 DEF CleanEvaluator, AfterFinally, Leave
  <1>22. CASE CleanupFails
    BY <1>22 DEF CleanupFails, AfterFinally, Leave
  <1>23. CASE WriteManifest
    <2>1. manifest'.verdict \in Verdicts
      BY <1>23 DEF WriteManifest
    <2>2. manifest' # NoManifest
      BY ONLY <2>1 DEF NoManifest, Verdicts
    <2>3. pc = "writeManifest" /\ pc' = "return" /\ UNCHANGED <<process, status, done>>
      BY <1>23 DEF WriteManifest
    <2>q. QED
      BY <2>2, <2>3
  <1>24. CASE SigWrite
    BY <1>24 DEF SigWrite, WriteStatus
  <1>25. CASE SigTouch
    BY <1>25 DEF SigTouch, TouchDone
  <1>26. CASE SigRaise
    BY <1>26 DEF SigRaise, Leave
  <1>27. CASE CtrlC
    BY <1>27 DEF CtrlC, Leave
  <1>28. CASE Killed
    BY <1>28 DEF Killed, Leave
  <1>29. CASE UNCHANGED vars
    BY <1>29 DEF vars
  <1>30. CASE WriteFails
    BY <1>30 DEF WriteFails, Leave
  <1>31. CASE Return
    BY <1>31 DEF Return, Leave
  <1>q. QED
    BY <1>1, <1>2, <1>3, <1>4, <1>5, <1>6, <1>7, <1>8, <1>9, <1>10, <1>11, <1>12, <1>13, <1>14, <1>15, <1>16, <1>17, <1>18, <1>19, <1>20, <1>21, <1>22, <1>23, <1>24, <1>25, <1>26, <1>27, <1>28, <1>29,
       <1>30, <1>31
       DEF Next, Step, Setup, Pipeline, Finish, Handler, Gone

\* Every step keeps what the pipeline has established at each pc.
LEMMA DataStep == TypeOK /\ ControlInv /\ DataInv /\ [Next]_vars => DataInv'
  <1> SUFFICES ASSUME TypeOK, ControlInv, DataInv, [Next]_vars
               PROVE  DataInv'
    OBVIOUS
  <1> USE DEF TypeOK, ControlInv, DataInv, Concluding, Judged, LoopOver, CodeGraded, ReconciledVerdict, Pcs, SetupPcs, TryPcs, PipelinePcs, DonePcs, ExceptPcs,
              FinallyPcs, HandlerPcs, process, faults, marks, trees, artifacts, loop
  <1>1. CASE CreateRunDirs
    BY <1>1 DEF CreateRunDirs
  <1>2. CASE InstallSignalHandler
    BY <1>2 DEF InstallSignalHandler
  <1>3. CASE WriteRunning
    BY <1>3 DEF WriteRunning
  <1>4. CASE LoadCriteria
    BY <1>4 DEF LoadCriteria
  <1>5. CASE PrepareGeneratorWorktree
    BY <1>5 DEF PrepareGeneratorWorktree
  <1>6. CASE PrepareEvaluatorWorktree
    BY <1>6 DEF PrepareEvaluatorWorktree
  <1>7. CASE SetupFails
    BY <1>7 DEF SetupFails, Leave
  <1>8. CASE RunPlanner
    BY <1>8 DEF RunPlanner
  <1>9. CASE NegotiateContract
    BY <1>9 DEF NegotiateContract
  <1>10. CASE RunGenerator
    BY <1>10 DEF RunGenerator
  <1>11. CASE SaveArtifactSnapshot
    BY <1>11 DEF SaveArtifactSnapshot
  <1>12. ASSUME NEW r \in EvaluationResult, GradeWith(r)
         PROVE  DataInv'
    BY <1>12 DEF GradeWith
  <1>13. CASE Reconcile
    BY <1>13 DEF Reconcile
  <1>14. CASE WriteFeedback
    BY <1>14 DEF WriteFeedback
  <1>15. CASE PipelineRaises
    BY <1>15 DEF PipelineRaises
  <1>16. CASE WriteDone
    BY <1>16 DEF WriteDone, WriteStatus
  <1>17. CASE WriteError
    BY <1>17 DEF WriteError, WriteStatus
  <1>18. CASE TouchAfter
    BY <1>18 DEF TouchAfter, TouchDone
  <1>19. CASE RestoreSignalHandler
    BY <1>19 DEF RestoreSignalHandler
  <1>20. CASE CleanGenerator
    BY <1>20 DEF CleanGenerator
  <1>21. CASE CleanEvaluator
    BY <1>21 DEF CleanEvaluator, AfterFinally, Leave
  <1>22. CASE CleanupFails
    BY <1>22 DEF CleanupFails, AfterFinally, Leave
  <1>23. CASE WriteManifest
    BY <1>23 DEF WriteManifest, Leave
  <1>24. CASE SigWrite
    BY <1>24 DEF SigWrite, WriteStatus
  <1>25. CASE SigTouch
    BY <1>25 DEF SigTouch, TouchDone
  <1>26. CASE SigRaise
    BY <1>26 DEF SigRaise, Leave
  <1>27. CASE CtrlC
    BY <1>27 DEF CtrlC, Leave
  <1>28. CASE Killed
    BY <1>28 DEF Killed, Leave
  <1>29. CASE UNCHANGED vars
    BY <1>29 DEF vars
  <1>30. CASE WriteFails
    BY <1>30 DEF WriteFails, Leave
  <1>31. CASE Return
    BY <1>31 DEF Return, Leave
  <1>q. QED
    BY <1>1, <1>2, <1>3, <1>4, <1>5, <1>6, <1>7, <1>8, <1>9, <1>10, <1>11, <1>12, <1>13, <1>14, <1>15, <1>16, <1>17, <1>18, <1>19, <1>20, <1>21, <1>22, <1>23, <1>24, <1>25, <1>26, <1>27, <1>28, <1>29,
       <1>30, <1>31
       DEF Next, Step, Setup, Pipeline, Finish, Handler, Gone

\* Every step keeps what the next iteration is prompted with.
LEMMA FeedbackStep == TypeOK /\ DataInv /\ FeedbackInv /\ [Next]_vars => FeedbackInv'
  <1> SUFFICES ASSUME TypeOK, DataInv, FeedbackInv, [Next]_vars
               PROVE  FeedbackInv'
    OBVIOUS
  <1>0. iteration \in Nat
    BY DEF TypeOK
  <1> USE DEF FeedbackInv, SetupPcs, TryPcs, PipelinePcs, DonePcs, ExceptPcs,
              FinallyPcs, HandlerPcs, process, faults, marks, trees, artifacts, loop
  <1>1. CASE CreateRunDirs
    BY <1>0, <1>1 DEF CreateRunDirs
  <1>2. CASE InstallSignalHandler
    BY <1>0, <1>2 DEF InstallSignalHandler
  <1>3. CASE WriteRunning
    BY <1>0, <1>3 DEF WriteRunning
  <1>4. CASE LoadCriteria
    BY <1>0, <1>4 DEF LoadCriteria
  <1>5. CASE PrepareGeneratorWorktree
    BY <1>0, <1>5 DEF PrepareGeneratorWorktree
  <1>6. CASE PrepareEvaluatorWorktree
    BY <1>0, <1>6 DEF PrepareEvaluatorWorktree
  <1>7. CASE SetupFails
    BY <1>0, <1>7 DEF SetupFails, Leave
  <1>8. CASE RunPlanner
    BY <1>0, <1>8 DEF RunPlanner
  <1>9. CASE NegotiateContract
    BY <1>0, <1>9 DEF NegotiateContract
  <1>10. CASE RunGenerator
    BY <1>0, <1>10 DEF RunGenerator
  <1>11. CASE SaveArtifactSnapshot
    BY <1>0, <1>11 DEF SaveArtifactSnapshot
  <1>12. ASSUME NEW r \in EvaluationResult, GradeWith(r)
         PROVE  FeedbackInv'
    BY <1>0, <1>12 DEF GradeWith
  <1>13. CASE Reconcile
    BY <1>0, <1>13 DEF Reconcile
  <1>14. CASE WriteFeedback
    BY <1>0, <1>14 DEF WriteFeedback, DataInv, Judged
  <1>15. CASE PipelineRaises
    BY <1>0, <1>15 DEF PipelineRaises
  <1>16. CASE WriteDone
    BY <1>0, <1>16 DEF WriteDone, WriteStatus
  <1>17. CASE WriteError
    BY <1>0, <1>17 DEF WriteError, WriteStatus
  <1>18. CASE TouchAfter
    BY <1>0, <1>18 DEF TouchAfter, TouchDone
  <1>19. CASE RestoreSignalHandler
    BY <1>0, <1>19 DEF RestoreSignalHandler
  <1>20. CASE CleanGenerator
    BY <1>0, <1>20 DEF CleanGenerator
  <1>21. CASE CleanEvaluator
    BY <1>0, <1>21 DEF CleanEvaluator, AfterFinally, Leave
  <1>22. CASE CleanupFails
    BY <1>0, <1>22 DEF CleanupFails, AfterFinally, Leave
  <1>23. CASE WriteManifest
    BY <1>0, <1>23 DEF WriteManifest, Leave
  <1>24. CASE SigWrite
    BY <1>0, <1>24 DEF SigWrite, WriteStatus
  <1>25. CASE SigTouch
    BY <1>0, <1>25 DEF SigTouch, TouchDone
  <1>26. CASE SigRaise
    BY <1>0, <1>26 DEF SigRaise, Leave
  <1>27. CASE CtrlC
    BY <1>0, <1>27 DEF CtrlC, Leave
  <1>28. CASE Killed
    BY <1>0, <1>28 DEF Killed, Leave
  <1>29. CASE UNCHANGED vars
    BY <1>0, <1>29 DEF vars
  <1>30. CASE WriteFails
    BY <1>0, <1>30 DEF WriteFails, Leave
  <1>31. CASE Return
    BY <1>0, <1>31 DEF Return, Leave
  <1>q. QED
    BY <1>1, <1>2, <1>3, <1>4, <1>5, <1>6, <1>7, <1>8, <1>9, <1>10, <1>11, <1>12, <1>13, <1>14, <1>15, <1>16, <1>17, <1>18, <1>19, <1>20, <1>21, <1>22, <1>23, <1>24, <1>25, <1>26, <1>27, <1>28, <1>29,
       <1>30, <1>31
       DEF Next, Step, Setup, Pipeline, Finish, Handler, Gone

\* Every step keeps how far the cleanup has come.
LEMMA CleanStep == TypeOK /\ CleanInv /\ [Next]_vars => CleanInv'
  <1> SUFFICES ASSUME TypeOK, CleanInv, [Next]_vars
               PROVE  CleanInv'
    OBVIOUS
  <1>0. signals \in Nat
    BY DEF TypeOK
  <1> USE DEF CleanInv, SetupPcs, TryPcs, PipelinePcs, DonePcs, ExceptPcs,
              FinallyPcs, HandlerPcs, process, faults, marks, trees, artifacts, loop
  <1>1. CASE CreateRunDirs
    BY <1>0, <1>1 DEF CreateRunDirs
  <1>2. CASE InstallSignalHandler
    BY <1>0, <1>2 DEF InstallSignalHandler
  <1>3. CASE WriteRunning
    BY <1>0, <1>3 DEF WriteRunning
  <1>4. CASE LoadCriteria
    BY <1>0, <1>4 DEF LoadCriteria
  <1>5. CASE PrepareGeneratorWorktree
    BY <1>0, <1>5 DEF PrepareGeneratorWorktree
  <1>6. CASE PrepareEvaluatorWorktree
    BY <1>0, <1>6 DEF PrepareEvaluatorWorktree
  <1>7. CASE SetupFails
    BY <1>0, <1>7 DEF SetupFails, Leave
  <1>8. CASE RunPlanner
    BY <1>0, <1>8 DEF RunPlanner
  <1>9. CASE NegotiateContract
    BY <1>0, <1>9 DEF NegotiateContract
  <1>10. CASE RunGenerator
    BY <1>0, <1>10 DEF RunGenerator
  <1>11. CASE SaveArtifactSnapshot
    BY <1>0, <1>11 DEF SaveArtifactSnapshot
  <1>12. ASSUME NEW r \in EvaluationResult, GradeWith(r)
         PROVE  CleanInv'
    BY <1>0, <1>12 DEF GradeWith
  <1>13. CASE Reconcile
    BY <1>0, <1>13 DEF Reconcile
  <1>14. CASE WriteFeedback
    BY <1>0, <1>14 DEF WriteFeedback
  <1>15. CASE PipelineRaises
    BY <1>0, <1>15 DEF PipelineRaises
  <1>16. CASE WriteDone
    BY <1>0, <1>16 DEF WriteDone, WriteStatus
  <1>17. CASE WriteError
    BY <1>0, <1>17 DEF WriteError, WriteStatus
  <1>18. CASE TouchAfter
    BY <1>0, <1>18 DEF TouchAfter, TouchDone
  <1>19. CASE RestoreSignalHandler
    BY <1>0, <1>19 DEF RestoreSignalHandler
  <1>20. CASE CleanGenerator
    BY <1>0, <1>20 DEF CleanGenerator
  <1>21. CASE CleanEvaluator
    BY <1>0, <1>21 DEF CleanEvaluator, AfterFinally, Leave
  <1>22. CASE CleanupFails
    BY <1>0, <1>22 DEF CleanupFails, AfterFinally, Leave
  <1>23. CASE WriteManifest
    BY <1>0, <1>23 DEF WriteManifest, Leave
  <1>24. CASE SigWrite
    BY <1>0, <1>24 DEF SigWrite, WriteStatus
  <1>25. CASE SigTouch
    BY <1>0, <1>25 DEF SigTouch, TouchDone
  <1>26. CASE SigRaise
    BY <1>0, <1>26 DEF SigRaise, Leave
  <1>27. CASE CtrlC
    BY <1>0, <1>27 DEF CtrlC, Leave
  <1>28. CASE Killed
    BY <1>0, <1>28 DEF Killed, Leave
  <1>29. CASE UNCHANGED vars
    BY <1>0, <1>29 DEF vars
  <1>30. CASE WriteFails
    BY <1>0, <1>30 DEF WriteFails, Leave
  <1>31. CASE Return
    BY <1>0, <1>31 DEF Return, Leave
  <1>q. QED
    BY <1>1, <1>2, <1>3, <1>4, <1>5, <1>6, <1>7, <1>8, <1>9, <1>10, <1>11, <1>12, <1>13, <1>14, <1>15, <1>16, <1>17, <1>18, <1>19, <1>20, <1>21, <1>22, <1>23, <1>24, <1>25, <1>26, <1>27, <1>28, <1>29,
       <1>30, <1>31
       DEF Next, Step, Setup, Pipeline, Finish, Handler, Gone

\* No way of leaving start_run skips the cleanup.
LEMMA CleanupStep == TypeOK /\ CleanInv /\ CleanupFires /\ [Next]_vars => CleanupFires'
  <1> SUFFICES ASSUME TypeOK, CleanInv, CleanupFires, [Next]_vars
               PROVE  CleanupFires'
    OBVIOUS
  <1> USE DEF TypeOK, CleanInv, CleanupFires, Pcs, SetupPcs, TryPcs, PipelinePcs, DonePcs, ExceptPcs,
              FinallyPcs, HandlerPcs, process, faults, marks, trees, artifacts, loop
  <1>1. CASE CreateRunDirs
    BY <1>1 DEF CreateRunDirs
  <1>2. CASE InstallSignalHandler
    BY <1>2 DEF InstallSignalHandler
  <1>3. CASE WriteRunning
    BY <1>3 DEF WriteRunning
  <1>4. CASE LoadCriteria
    BY <1>4 DEF LoadCriteria
  <1>5. CASE PrepareGeneratorWorktree
    BY <1>5 DEF PrepareGeneratorWorktree
  <1>6. CASE PrepareEvaluatorWorktree
    BY <1>6 DEF PrepareEvaluatorWorktree
  <1>7. CASE SetupFails
    BY <1>7 DEF SetupFails, Leave
  <1>8. CASE RunPlanner
    BY <1>8 DEF RunPlanner
  <1>9. CASE NegotiateContract
    BY <1>9 DEF NegotiateContract
  <1>10. CASE RunGenerator
    BY <1>10 DEF RunGenerator
  <1>11. CASE SaveArtifactSnapshot
    BY <1>11 DEF SaveArtifactSnapshot
  <1>12. ASSUME NEW r \in EvaluationResult, GradeWith(r)
         PROVE  CleanupFires'
    BY <1>12 DEF GradeWith
  <1>13. CASE Reconcile
    BY <1>13 DEF Reconcile
  <1>14. CASE WriteFeedback
    BY <1>14 DEF WriteFeedback
  <1>15. CASE PipelineRaises
    BY <1>15 DEF PipelineRaises
  <1>16. CASE WriteDone
    BY <1>16 DEF WriteDone, WriteStatus
  <1>17. CASE WriteError
    BY <1>17 DEF WriteError, WriteStatus
  <1>18. CASE TouchAfter
    BY <1>18 DEF TouchAfter, TouchDone
  <1>19. CASE RestoreSignalHandler
    BY <1>19 DEF RestoreSignalHandler
  <1>20. CASE CleanGenerator
    BY <1>20 DEF CleanGenerator
  <1>21. CASE CleanEvaluator
    BY <1>21 DEF CleanEvaluator, AfterFinally, Leave
  <1>22. CASE CleanupFails
    BY <1>22 DEF CleanupFails, AfterFinally, Leave
  <1>23. CASE WriteManifest
    BY <1>23 DEF WriteManifest, Leave
  <1>24. CASE SigWrite
    BY <1>24 DEF SigWrite, WriteStatus
  <1>25. CASE SigTouch
    BY <1>25 DEF SigTouch, TouchDone
  <1>26. CASE SigRaise
    BY <1>26 DEF SigRaise, Leave
  <1>27. CASE CtrlC
    BY <1>27 DEF CtrlC, Leave
  <1>28. CASE Killed
    BY <1>28 DEF Killed, Leave
  <1>29. CASE UNCHANGED vars
    BY <1>29 DEF vars
  <1>30. CASE WriteFails
    BY <1>30 DEF WriteFails, Leave
  <1>31. CASE Return
    BY <1>31 DEF Return, Leave
  <1>q. QED
    BY <1>1, <1>2, <1>3, <1>4, <1>5, <1>6, <1>7, <1>8, <1>9, <1>10, <1>11, <1>12, <1>13, <1>14, <1>15, <1>16, <1>17, <1>18, <1>19, <1>20, <1>21, <1>22, <1>23, <1>24, <1>25, <1>26, <1>27, <1>28, <1>29,
       <1>30, <1>31
       DEF Next, Step, Setup, Pipeline, Finish, Handler, Gone

\* Every step from a state of the inductive invariant keeps the safety
\* invariants the runs check.
LEMMA SafetyStep == IInv /\ [Next]_vars => Safety'
  <1> SUFFICES ASSUME IInv, [Next]_vars
               PROVE  Safety'
    OBVIOUS
  <1> USE DEF IInv, TypeOK, ControlInv, Safety, MarkedAfterStatus, ArchivedIsGraded, PassIsEarned, FailSpendsIterations, Pcs, SetupPcs, TryPcs, PipelinePcs, DonePcs, ExceptPcs,
              FinallyPcs, HandlerPcs, process, faults, marks, trees, artifacts, loop
  <1>1. CASE CreateRunDirs
    BY <1>1 DEF CreateRunDirs
  <1>2. CASE InstallSignalHandler
    BY <1>2 DEF InstallSignalHandler
  <1>3. CASE WriteRunning
    BY <1>3 DEF WriteRunning
  <1>4. CASE LoadCriteria
    BY <1>4 DEF LoadCriteria
  <1>5. CASE PrepareGeneratorWorktree
    BY <1>5 DEF PrepareGeneratorWorktree
  <1>6. CASE PrepareEvaluatorWorktree
    BY <1>6 DEF PrepareEvaluatorWorktree
  <1>7. CASE SetupFails
    BY <1>7 DEF SetupFails, Leave
  <1>8. CASE RunPlanner
    BY <1>8 DEF RunPlanner
  <1>9. CASE NegotiateContract
    BY <1>9 DEF NegotiateContract
  <1>10. CASE RunGenerator
    BY <1>10 DEF RunGenerator, NoManifest
  <1>11. CASE SaveArtifactSnapshot
    BY <1>11 DEF SaveArtifactSnapshot, NoManifest
  <1>12. ASSUME NEW r \in EvaluationResult, GradeWith(r)
         PROVE  Safety'
    BY <1>12 DEF GradeWith, NoManifest
  <1>13. CASE Reconcile
    BY <1>13 DEF Reconcile
  <1>14. CASE WriteFeedback
    BY <1>14 DEF WriteFeedback
  <1>15. CASE PipelineRaises
    BY <1>15 DEF PipelineRaises
  <1>16. CASE WriteDone
    BY <1>16 DEF WriteDone, WriteStatus
  <1>17. CASE WriteError
    BY <1>17 DEF WriteError, WriteStatus
  <1>18. CASE TouchAfter
    BY <1>18 DEF TouchAfter, TouchDone
  <1>19. CASE RestoreSignalHandler
    BY <1>19 DEF RestoreSignalHandler
  <1>20. CASE CleanGenerator
    BY <1>20 DEF CleanGenerator
  <1>21. CASE CleanEvaluator
    BY <1>21 DEF CleanEvaluator, AfterFinally, Leave
  <1>22. CASE CleanupFails
    BY <1>22 DEF CleanupFails, AfterFinally, Leave
  <1>23. CASE WriteManifest
    <2>1. status = "done" /\ done /\ Concluding
      BY <1>23 DEF WriteManifest, Concluding
    <2>2. Judged /\ LoopOver /\ snapshot = code
      BY <2>1 DEF DataInv
    <2>3. lastEval.code = code /\ Len(results) = EvaluatorCount
      BY <2>2 DEF Judged, CodeGraded
    <2>4. /\ manifest'.verdict = verdict
          /\ manifest'.code = lastEval.code
          /\ manifest'.sprints = sprints
          /\ UNCHANGED <<status, done, snapshot, loop, mode>>
      BY <1>23 DEF WriteManifest
    <2>5. MarkedAfterStatus' /\ ArchivedIsGraded'
      BY <2>1, <2>2, <2>3, <2>4
    <2>6. PassIsEarned'
      <3>1. /\ results' = results /\ snapshot' = snapshot
            /\ manifest'.verdict = verdict
        BY <2>4
      <3>2. ASSUME NEW i \in 1..Len(results), i <= 2, verdict = "PASS"
            PROVE  results[i].verdict = "PASS" /\ results[i].code = snapshot
        <4>0. results[i] \in EvaluationResult
          OBVIOUS
        <4>1. results[i].verdict \in Verdicts
          BY ONLY <4>0 DEF EvaluationResult
        <4>2. results[i].verdict # "FAIL"
          BY <2>2, <3>2 DEF Judged, ReconciledVerdict
        <4>q. QED
          BY <2>2, <4>1, <4>2 DEF Judged, CodeGraded, Verdicts
      <3>3. Len(results) = EvaluatorCount
        BY <2>3
      <3>q. QED
        BY ONLY <3>1, <3>2, <3>3 DEF PassIsEarned
    <2>7. FailSpendsIterations'
      BY <2>2, <2>4 DEF Judged, LoopOver
    <2>q. QED
      BY <2>5, <2>6, <2>7
  <1>24. CASE SigWrite
    BY <1>24 DEF SigWrite, WriteStatus
  <1>25. CASE SigTouch
    BY <1>25 DEF SigTouch, TouchDone
  <1>26. CASE SigRaise
    BY <1>26 DEF SigRaise, Leave
  <1>27. CASE CtrlC
    BY <1>27 DEF CtrlC, Leave
  <1>28. CASE Killed
    BY <1>28 DEF Killed, Leave
  <1>29. CASE UNCHANGED vars
    BY <1>29 DEF vars
  <1>30. CASE WriteFails
    BY <1>30 DEF WriteFails, Leave
  <1>31. CASE Return
    BY <1>31 DEF Return, Leave
  <1>q. QED
    BY <1>1, <1>2, <1>3, <1>4, <1>5, <1>6, <1>7, <1>8, <1>9, <1>10, <1>11, <1>12, <1>13, <1>14, <1>15, <1>16, <1>17, <1>18, <1>19, <1>20, <1>21, <1>22, <1>23, <1>24, <1>25, <1>26, <1>27, <1>28, <1>29,
       <1>30, <1>31
       DEF Next, Step, Setup, Pipeline, Finish, Handler, Gone

\* The inductive invariant holds in every run.
LEMMA Inductive == Spec => []IInv
<1>1. Init => IInv
  <2> SUFFICES ASSUME Init
               PROVE  IInv
    OBVIOUS
  <2> USE DEF Init, Pcs, SetupPcs, TryPcs, PipelinePcs, DonePcs, ExceptPcs,
              FinallyPcs, HandlerPcs
  <2>1. TypeOK
    <3>1. results \in Seq(EvaluationResult)
      OBVIOUS
    <3>2. iteration \in 1..MaxIterations /\ signals \in 0..MaxSignals
      OBVIOUS
    <3>3. /\ mode \in {"solo", "trio"} /\ pc \in Pcs /\ resume \in Pcs \cup {"none"}
          /\ raising \in {"none", "exception", "interrupt"}
          /\ exit \in {"none", "returned", "exception", "interrupt", "killed"}
          /\ handler \in {"default", "harness"}
          /\ unwritten \in BOOLEAN
      OBVIOUS
    <3>6. shields \in 0..signals
      <4>1. shields = 0 /\ signals = 0
        OBVIOUS
      <4>q. QED
        BY ONLY <4>1
    <3>4. /\ status \in {"none", "running", "done", "error"} /\ done \in BOOLEAN
          /\ genTree \in {"absent", "partial", "ready"}
          /\ evalTree \in {"absent", "partial", "ready"}
          /\ manifest \in Manifest \cup {NoManifest}
          /\ lastEval \in EvaluationResult \cup {NoResult}
          /\ verdict \in Verdicts
      BY DEF Verdicts
    <3>5. /\ snapshot \in 0..MaxIterations /\ code \in 0..MaxIterations
          /\ prompted \in 0..MaxIterations /\ feedback \in 0..MaxIterations
          /\ sprints \in 0..MaxIterations
      OBVIOUS
    <3>q. QED
      BY <3>1, <3>2, <3>3, <3>4, <3>5, <3>6 DEF TypeOK
  <2>2. ControlInv
    BY DEF ControlInv
  <2>3. DataInv
    BY DEF DataInv, Concluding
  <2>4. Safety
    BY DEF Safety, MarkedAfterStatus, ArchivedIsGraded,
           PassIsEarned, FailSpendsIterations, NoManifest
  <2>5. FeedbackInv /\ CleanInv /\ CleanupFires
    BY DEF FeedbackInv, CleanInv, CleanupFires
  <2>q. QED
    BY <2>1, <2>2, <2>3, <2>4, <2>5 DEF IInv
<1>2. IInv /\ [Next]_vars => IInv'
  BY TypeStep, ControlStep, DataStep, FeedbackStep, CleanStep, CleanupStep,
     SafetyStep DEF IInv
<1>q. QED
  BY <1>1, <1>2, PTL DEF Spec

\* Every variable keeps its type: the run's control, its marks and trees on
\* disk, and the loop's data (orchestrator.py start_run and both modes).
THEOREM TypeCorrect == Spec => []TypeOK
<1>1. IInv => TypeOK
  BY DEF IInv
<1>q. QED
  BY Inductive, <1>1, PTL

\* Whoever waits for .done reads a final status (_write_status, however the
\* signal handler interleaves with it).
THEOREM MarkIsHonest == Spec => []MarkedAfterStatus
<1>1. IInv => MarkedAfterStatus
  BY DEF IInv, Safety
<1>q. QED
  BY Inductive, <1>1, PTL

\* What is archived for replay is what the evaluators graded
\* (_save_artifact_snapshot in both modes).
THEOREM ArchiveIsGraded == Spec => []ArchivedIsGraded
<1>1. IInv => ArchivedIsGraded
  BY DEF IInv, Safety
<1>q. QED
  BY Inductive, <1>1, PTL

\* A PASS is the verdict of both reconciled evaluators on the archived code
\* (_run_solo_mode, _run_trio_mode).
THEOREM VerdictIsEarned == Spec => []PassIsEarned
<1>1. IInv => PassIsEarned
  BY DEF IInv, Safety
<1>q. QED
  BY Inductive, <1>1, PTL

\* A trio FAIL comes only when the iterations are spent (_run_trio_mode).
THEOREM FailureIsSpent == Spec => []FailSpendsIterations
<1>1. IInv => FailSpendsIterations
  BY DEF IInv, Safety
<1>q. QED
  BY Inductive, <1>1, PTL

\* A run that returned, failed in its pipeline or was stopped there by one
\* Ctrl-C has tried to remove both trees (cleanup_worktrees in finally).
THEOREM CleanupComes == Spec => []CleanupFires
<1>1. IInv => CleanupFires
  BY DEF IInv
<1>q. QED
  BY Inductive, <1>1, PTL

\* The generator runs again only after a FAIL, with the feedback of the
\* iteration before (_run_trio_mode).
THEOREM RetryIsInformed == Spec => RetriesAreInformed
<1>1. IInv /\ [Next]_vars =>
        [code' # code /\ iteration > 1 =>
            verdict = "FAIL" /\ prompted' = iteration - 1]_vars
  <2> SUFFICES ASSUME IInv, [Next]_vars, code' # code, iteration > 1
               PROVE  verdict = "FAIL" /\ prompted' = iteration - 1
    OBVIOUS
  <2>1. CASE RunGenerator
    BY <2>1 DEF RunGenerator, IInv, FeedbackInv
  <2>2. CASE Setup \/ Finish \/ Handler \/ WriteFails \/ CtrlC \/ Killed
             \/ UNCHANGED vars
    BY <2>2 DEF Setup, CreateRunDirs, InstallSignalHandler, WriteRunning,
       LoadCriteria, PrepareGeneratorWorktree, PrepareEvaluatorWorktree,
       SetupFails, Finish, WriteDone, WriteError, TouchAfter, WriteStatus,
       TouchDone, RestoreSignalHandler, CleanGenerator, CleanEvaluator,
       CleanupFails, WriteManifest, Return, Handler, SigWrite, SigTouch, SigRaise,
       WriteFails, CtrlC, Killed, loop, vars
  <2>3. CASE Pipeline /\ ~RunGenerator
    BY <2>3 DEF Pipeline, RunPlanner, NegotiateContract, SaveArtifactSnapshot,
       GradeWith, Reconcile, WriteFeedback, PipelineRaises, loop
  <2>q. QED
    BY <2>1, <2>2, <2>3 DEF Next, Step, Gone
<1>q. QED
  BY Inductive, <1>1, PTL DEF Spec, RetriesAreInformed

\* ERROR is never overwritten: no statement that writes another status can
\* run once a Ctrl-C or an exception has written it.
THEOREM ErrorStays == Spec => ErrorIsFinal
<1>1. IInv /\ [Next]_vars => [status = "error" => status' = "error"]_vars
  <2> SUFFICES ASSUME IInv, [Next]_vars, status = "error"
               PROVE  status' = "error"
    OBVIOUS
  <2> USE DEF IInv, ControlInv, SetupPcs, PipelinePcs
  <2>1. CASE Setup
    BY <2>1 DEF Setup, CreateRunDirs, InstallSignalHandler, WriteRunning,
       LoadCriteria, PrepareGeneratorWorktree, PrepareEvaluatorWorktree,
       SetupFails, marks
  <2>2. CASE Pipeline
    BY <2>2 DEF Pipeline, RunPlanner, NegotiateContract, RunGenerator,
       SaveArtifactSnapshot, GradeWith, Reconcile, WriteFeedback,
       PipelineRaises, marks
  <2>3. CASE Finish
    BY <2>3 DEF Finish, WriteDone, WriteError, TouchAfter, WriteStatus,
       TouchDone, RestoreSignalHandler, CleanGenerator, CleanEvaluator,
       CleanupFails, WriteManifest, Return, marks
  <2>4. CASE Handler \/ WriteFails \/ CtrlC \/ Killed
    BY <2>4 DEF Handler, SigWrite, SigTouch, SigRaise, WriteStatus, TouchDone,
       WriteFails, CtrlC, Killed, marks
  <2>5. CASE UNCHANGED vars
    BY <2>5 DEF vars, marks
  <2>q. QED
    BY <2>1, <2>2, <2>3, <2>4, <2>5 DEF Next, Step, Gone
<1>q. QED
  BY Inductive, <1>1, PTL DEF Spec, ErrorIsFinal

\* A step of the run is a step of the protocol or changes nothing that a
\* reader of the run's directory sees.
LEMMA ProtocolStep == IInv /\ [Next]_vars => [Protocol!Next]_Protocol!vars
  <1> SUFFICES ASSUME IInv, [Next]_vars
               PROVE  [Protocol!Next]_Protocol!vars
    OBVIOUS
  <1> DEFINE shown == <<status, done, manifest>>
             aborted == exit = "none"
                          /\ exit' \in {"none", "exception", "interrupt", "killed"}
  <1>1. CASE UNCHANGED <<shown, exit>>
    BY <1>1 DEF Protocol!vars
  \* The process leaves, or a statement is done that touches no file shown.
  <1>2. CASE aborted /\ UNCHANGED shown
    BY <1>2 DEF Protocol!Next, Protocol!Abort, Protocol!vars
  <1>3. pc # "end" => exit = "none" /\ raising \in {"none", "exception", "interrupt"}
    BY DEF IInv, CleanInv, TypeOK
  <1>4. CASE Setup
    <2>1. CASE WriteRunning
      BY <2>1, <1>3 DEF WriteRunning, IInv, ControlInv, process, artifacts,
         Protocol!Next, Protocol!Start
    <2>2. CASE Setup /\ ~WriteRunning
      <3>1. pc # "end" /\ UNCHANGED shown /\ exit' \in {exit, "exception"}
        BY <2>2 DEF Setup, CreateRunDirs, InstallSignalHandler, LoadCriteria,
           PrepareGeneratorWorktree, PrepareEvaluatorWorktree, SetupFails,
           Leave, process, marks, artifacts
      <3>q. QED
        BY <3>1, <1>2, <1>3
    <2>q. QED
      BY <1>4, <2>1, <2>2
  <1>5. CASE Pipeline
    <2>1. UNCHANGED <<shown, exit>>
      BY <1>5 DEF Pipeline, RunPlanner, NegotiateContract, RunGenerator,
         SaveArtifactSnapshot, GradeWith, Reconcile, WriteFeedback,
         PipelineRaises, process, marks, artifacts
    <2>q. QED
      BY <2>1, <1>1
  <1>6. CASE Finish
    <2>1. CASE WriteDone
      <3>1. status = "running" /\ ~done /\ pc = "writeDone"
        BY <2>1 DEF WriteDone, IInv, TypeOK, ControlInv, Safety, MarkedAfterStatus
      <3>q. QED
        BY <2>1, <3>1, <1>3 DEF WriteDone, WriteStatus, process, artifacts,
           Protocol!Next, Protocol!Succeed
    <2>2. CASE WriteError
      BY <2>2, <1>3 DEF WriteError, WriteStatus, process, artifacts,
         Protocol!Next, Protocol!Fail
    <2>3. CASE TouchAfter
      BY <2>3, <1>3 DEF TouchAfter, TouchDone, process, artifacts, IInv,
         ControlInv, Protocol!Next, Protocol!Mark
    <2>4. CASE WriteManifest
      <3>1. /\ pc = "writeManifest" /\ manifest'.verdict = verdict
            /\ UNCHANGED <<status, done, exit>>
        BY <2>4 DEF WriteManifest, process, marks
      <3>2. /\ status = "done" /\ manifest = NoManifest
            /\ verdict \in {"PASS", "FAIL"}
        BY <3>1 DEF IInv, TypeOK, ControlInv, Verdicts, HandlerPcs
      <3>q. QED
        BY <1>3, <3>1, <3>2 DEF Protocol!Next, Protocol!Record, NoManifest
    <2>5. CASE Return
      <3>1. /\ pc = "return" /\ exit' = "returned" /\ UNCHANGED shown
        BY <2>5 DEF Return, Leave, marks, artifacts
      <3>2. status = "done" /\ done /\ manifest \in Manifest
        BY <3>1 DEF IInv, TypeOK, ControlInv
      <3>3. manifest.verdict # "none"
        BY <3>2 DEF Manifest, Verdicts
      <3>q. QED
        BY <1>3, <3>1, <3>2, <3>3 DEF Protocol!Next, Protocol!Return
    <2>6. CASE RestoreSignalHandler \/ CleanGenerator \/ CleanEvaluator \/ CleanupFails
      <3>1. pc # "end" /\ UNCHANGED shown /\ exit' \in {exit, raising}
        BY <2>6 DEF RestoreSignalHandler, CleanGenerator, CleanEvaluator,
           CleanupFails, AfterFinally, Leave, process, marks, artifacts
      <3>q. QED
        BY <3>1, <1>2, <1>3
    <2>q. QED
      BY <1>6, <2>1, <2>2, <2>3, <2>4, <2>5, <2>6 DEF Finish
  <1>7. CASE Handler
    <2>1. CASE SigWrite
      BY <2>1, <1>3 DEF SigWrite, WriteStatus, process, artifacts,
         Protocol!Next, Protocol!Fail
    <2>2. CASE SigTouch
      BY <2>2, <1>3 DEF SigTouch, TouchDone, process, artifacts, IInv,
         ControlInv, Protocol!Next, Protocol!Mark
    <2>3. CASE SigRaise
      <3>1. pc # "end" /\ UNCHANGED shown /\ exit' \in {exit, "interrupt"}
        BY <2>3 DEF SigRaise, Leave, marks, artifacts
      <3>q. QED
        BY <3>1, <1>2, <1>3
    <2>q. QED
      BY <1>7, <2>1, <2>2, <2>3 DEF Handler
  <1>8. CASE WriteFails \/ CtrlC \/ Killed
    <2>1. /\ pc # "end" /\ UNCHANGED shown
          /\ exit' \in {exit, "exception", "interrupt", "killed"}
      BY <1>8 DEF WriteFails, CtrlC, Killed, Leave, DonePcs, ExceptPcs, marks,
         artifacts
    <2>q. QED
      BY <2>1, <1>2, <1>3
  <1>9. CASE Gone \/ UNCHANGED vars
    <2>1. UNCHANGED <<shown, exit>>
      BY <1>9 DEF Gone, vars, process, marks, artifacts
    <2>q. QED
      BY <2>1, <1>1
  <1>q. QED
    BY <1>4, <1>5, <1>6, <1>7, <1>8, <1>9 DEF Next, Step

\* start_run implements RunProtocol for every number of evaluators,
\* iterations and Ctrl-C keystrokes: what a reader of the directory sees
\* moves only as the protocol allows.
THEOREM Refines == Spec => ImplementsProtocol
<1>1. Init => Protocol!Init
  BY DEF Init, Protocol!Init, NoManifest
<1>q. QED
  BY Inductive, ProtocolStep, <1>1, PTL DEF Spec, ImplementsProtocol, Protocol!Spec

-----------------------------------------------------------------------------
(* How long a run may take                                                 *)

\* What is left at a statement is a number, except with more results than
\* evaluators, which are never there.
LEMMA StatementsLeftIs ==
    ASSUME IInv
    PROVE  /\ StatementsLeft[pc] \in Nat
           /\ pc # "end" => StatementsLeft[pc] > 0
<1>1. Len(results) \in Nat /\ (pc = "evaluator" => Len(results) < EvaluatorCount)
  BY DEF IInv, TypeOK, DataInv
<1>2. CASE pc = "evaluator"
  BY <1>1, <1>2, EvaluatorCountAssumption, SMTT(60) DEF StatementsLeft
<1>3. CASE pc # "evaluator"
  BY <1>3, EvaluatorCountAssumption, SMTT(60)
  DEF IInv, TypeOK, StatementsLeft, Pcs, SetupPcs, TryPcs, PipelinePcs, DonePcs,
      ExceptPcs, FinallyPcs, HandlerPcs
<1>q. QED
  BY <1>2, <1>3

\* An iteration more is an iteration's length less.
LEMMA OneMore ==
    ASSUME NEW w \in Nat, NEW i \in Nat, NEW n \in Nat, i < n
    PROVE  w * (n - i) = w * (n - (i + 1)) + w
BY SMT

\* All of it is a number, one less with every statement that starts neither an
\* iteration nor the handler.
LEMMA LeftIs ==
    ASSUME IInv
    PROVE  /\ Left \in Nat
           /\ /\ StatementsLeft'[pc'] < StatementsLeft[pc]
              /\ StatementsLeft'[pc'] \in Nat
              /\ UNCHANGED <<signals, iteration>>
              => Left' < Left
<1>1. IterationLength \in Nat /\ IterationLength' = IterationLength
  BY EvaluatorCountAssumption DEF IterationLength
<1>2. MaxSignals - signals \in Nat /\ MaxIterations - iteration \in Nat
  BY MaxSignalsAssumption, MaxIterationsAssumption DEF IInv, TypeOK
<1>3. IterationLength * (MaxIterations - iteration) \in Nat
  BY <1>1, <1>2
<1> DEFINE iterations == IterationLength * (MaxIterations - iteration)
           statements == StatementsLeft[pc]
<1>4. Left = 10 * (MaxSignals - signals) + iterations + statements
      /\ statements \in Nat /\ iterations \in Nat
  BY <1>3, StatementsLeftIs DEF Left
<1>5. ASSUME UNCHANGED <<signals, iteration>>
      PROVE  Left' = 10 * (MaxSignals - signals) + iterations + statements'
  BY <1>1, <1>5 DEF Left
<1> HIDE DEF iterations, statements
<1>6. Left \in Nat
  BY <1>2, <1>4
<1>7. ASSUME statements' < statements, statements' \in Nat,
             UNCHANGED <<signals, iteration>>
      PROVE  Left' < Left
  BY <1>2, <1>4, <1>5, <1>7
<1>q. QED
  BY <1>6, <1>7 DEF statements

\* Every step of a run, of its handler or of whoever interrupts or kills it
\* brings the end nearer.
LEMMA StepShortens ==
    ASSUME IInv, Step \/ CtrlC \/ Killed
    PROVE  Left' < Left
<1>0. /\ StatementsLeft[pc] \in Nat /\ (pc # "end" => StatementsLeft[pc] > 0)
      /\ Len(results) \in Nat /\ (pc = "evaluator" => Len(results) < EvaluatorCount)
      /\ EvaluatorCount \in Nat
  BY StatementsLeftIs, EvaluatorCountAssumption DEF IInv, TypeOK, DataInv
<1> DEFINE Shorter == /\ StatementsLeft'[pc'] < StatementsLeft[pc]
                      /\ StatementsLeft'[pc'] \in Nat
                      /\ UNCHANGED <<signals, iteration>>
<1>1. CASE Setup
  <2>1. UNCHANGED <<signals, iteration>>
    BY <1>1 DEF Setup, CreateRunDirs, InstallSignalHandler, WriteRunning,
       LoadCriteria, PrepareGeneratorWorktree, PrepareEvaluatorWorktree,
       SetupFails, Leave, process, loop
  <2>2. \/ pc = "createDirs" /\ pc' = "installHandler"
        \/ pc = "installHandler" /\ pc' = "writeRunning"
        \/ pc = "writeRunning" /\ pc' = "loadCriteria"
        \/ pc = "loadCriteria" /\ pc' = "prepareGenerator"
        \/ pc = "prepareGenerator" /\ pc' = "prepareEvaluator"
        \/ pc = "prepareEvaluator" /\ pc' \in {"planner", "generator"}
        \/ /\ pc \in {"createDirs", "loadCriteria", "prepareGenerator",
                     "prepareEvaluator"}
           /\ pc' = "end"
    BY <1>1 DEF Setup, CreateRunDirs, InstallSignalHandler, WriteRunning,
       LoadCriteria, PrepareGeneratorWorktree, PrepareEvaluatorWorktree,
       SetupFails, Leave
  <2>3. Shorter
    BY EvaluatorCountAssumption, <2>1, <2>2, SMTT(60) DEF StatementsLeft
  <2>q. QED
    BY <2>3, LeftIs
<1>2. CASE Pipeline /\ ~WriteFeedback
  <2>1. CASE RunPlanner \/ NegotiateContract
    <3>1. /\ UNCHANGED <<signals, iteration>>
          /\ \/ pc = "planner" /\ pc' = "negotiate"
             \/ pc = "negotiate" /\ pc' = "generator"
      BY <2>1 DEF RunPlanner, NegotiateContract, process, loop
    <3>2. Shorter
      BY <1>0, <3>1, SMTT(60) DEF StatementsLeft
    <3>q. QED
      BY <3>2, LeftIs
  <2>2. CASE RunGenerator
    <3>1. Len(results') = 0 /\ mode' = mode /\ pc = "generator"
          /\ UNCHANGED <<signals, iteration>>
          /\ pc' = IF mode = "trio" THEN "evaluator" ELSE "saveSnapshot"
      BY <2>2 DEF RunGenerator, process
    <3>2. Shorter
      BY <1>0, <3>1, SMTT(60) DEF StatementsLeft
    <3>q. QED
      BY <3>2, LeftIs
  <2>3. CASE SaveArtifactSnapshot
    <3>1. mode = "solo" => Len(results) = 0
      BY <2>3 DEF SaveArtifactSnapshot, IInv, DataInv, TypeOK
    <3>2. /\ pc = "saveSnapshot" /\ mode \in {"solo", "trio"}
          /\ UNCHANGED <<mode, results, signals, iteration>>
          /\ pc' = IF mode = "trio" THEN "writeDone" ELSE "evaluator"
      BY <2>3 DEF SaveArtifactSnapshot, process, loop, IInv, TypeOK
    <3>3. CASE mode = "solo"
      <4>1. Len(results') = 0
        BY <3>1, <3>2, <3>3
      <4>2. pc = "saveSnapshot" /\ pc' = "evaluator"
        BY <3>2, <3>3
      <4>3. /\ StatementsLeft[pc] = EvaluatorCount + 13
            /\ StatementsLeft'[pc'] = EvaluatorCount + 12 - Len(results')
        BY <3>3, <4>2 DEF StatementsLeft
      <4>q. QED
        BY <1>0, <3>2, <4>1, <4>3, LeftIs
    <3>4. CASE mode = "trio"
      <4>1. pc = "saveSnapshot" /\ pc' = "writeDone"
        BY <3>2, <3>4
      <4>2. StatementsLeft[pc] = 10 /\ StatementsLeft'[pc'] = 9
        BY <3>4, <4>1 DEF StatementsLeft
      <4>q. QED
        BY <3>2, <4>2, LeftIs
    <3>q. QED
      BY <3>2, <3>3, <3>4
  <2>4. ASSUME NEW r \in EvaluationResult, GradeWith(r) PROVE Left' < Left
    <3>1. Len(results') = Len(results) + 1
      BY <2>4 DEF GradeWith, IInv, TypeOK
    <3>2. /\ pc = "evaluator" /\ UNCHANGED <<signals, iteration>>
          /\ pc' \in {"evaluator", "reconcile"}
      BY <2>4 DEF GradeWith, process
    <3>3. /\ StatementsLeft[pc] = EvaluatorCount + 12 - Len(results)
          /\ StatementsLeft'[pc'] = IF pc' = "reconcile" THEN 12
                                    ELSE EvaluatorCount + 12 - Len(results')
      BY <3>2 DEF StatementsLeft
    <3> DEFINE n == Len(results)
               x == StatementsLeft[pc]
               y == StatementsLeft'[pc']
    <3>4. /\ n \in Nat /\ EvaluatorCount \in Nat /\ n < EvaluatorCount
          /\ x = EvaluatorCount + 12 - n
          /\ y = 12 \/ y = EvaluatorCount + 12 - (n + 1)
      BY <1>0, <3>1, <3>2, <3>3
    <3> HIDE DEF n, x, y
    <3>5. y < x /\ y \in Nat
      BY <3>4
    <3>q. QED
      BY <3>2, <3>5, LeftIs DEF x, y
  <2>5. CASE Reconcile
    <3>1. mode' = mode /\ mode \in {"solo", "trio"}
          /\ pc = "reconcile" /\ UNCHANGED <<signals, iteration>>
          /\ \/ pc' \in {"writeDone", "writeFeedback"}
             \/ pc' = "saveSnapshot" /\ mode = "trio"
      BY <2>5 DEF Reconcile, process, IInv, TypeOK
    <3>2. Shorter
      BY <1>0, <3>1, SMTT(60) DEF StatementsLeft
    <3>q. QED
      BY <3>2, LeftIs
  <2>6. CASE PipelineRaises
    <3>1. /\ UNCHANGED <<signals, iteration>> /\ pc' = "writeError"
          /\ pc \in {"planner", "negotiate", "generator", "saveSnapshot",
                     "evaluator", "reconcile", "writeFeedback"}
      BY <2>6 DEF PipelineRaises, PipelinePcs, loop
    <3>2. Shorter
      BY <1>0, <3>1, SMTT(60) DEF StatementsLeft
    <3>q. QED
      BY <3>2, LeftIs
  <2>q. QED
    BY <1>2, <2>1, <2>2, <2>3, <2>4, <2>5, <2>6 DEF Pipeline
<1>3. CASE WriteFeedback /\ ~(iteration < MaxIterations)
  <2>1. pc = "writeFeedback" /\ mode = "trio" /\ mode' = mode
        /\ pc' = "saveSnapshot" /\ UNCHANGED <<signals, iteration>>
    BY <1>3 DEF WriteFeedback, process, IInv, DataInv
  <2>2. Shorter
    BY <1>0, <2>1, SMTT(60) DEF StatementsLeft
  <2>q. QED
    BY <2>2, LeftIs
<1>4. CASE WriteFeedback /\ iteration < MaxIterations
  <2>1. pc = "writeFeedback" /\ pc' = "generator" /\ signals' = signals
        /\ iteration' = iteration + 1
    BY <1>4 DEF WriteFeedback, process
  <2>2. StatementsLeft[pc] = 11 /\ StatementsLeft'[pc'] = EvaluatorCount + 14
    BY <2>1 DEF StatementsLeft
  <2> DEFINE k == IterationLength * (MaxIterations - (iteration + 1))
  <2>3. IterationLength * (MaxIterations - iteration) = k + IterationLength
    BY <1>0, <1>4, OneMore, MaxIterationsAssumption DEF IInv, TypeOK, IterationLength
  <2>4. IterationLength \in Nat /\ MaxIterations - (iteration + 1) \in Nat
    BY <1>0, <1>4, MaxIterationsAssumption DEF IInv, TypeOK, IterationLength
  <2>5. k \in Nat /\ signals \in Nat /\ MaxSignals \in Nat
    BY <2>4, MaxSignalsAssumption DEF IInv, TypeOK
  <2>6. /\ Left = 10 * (MaxSignals - signals) + (k + IterationLength) + 11
        /\ Left' = 10 * (MaxSignals - signals) + k + (EvaluatorCount + 14)
    BY <2>1, <2>2, <2>3 DEF Left, IterationLength
  <2> HIDE DEF k
  <2>q. QED
    BY <1>0, <2>5, <2>6 DEF IterationLength
<1>5. CASE Finish
  <2>1. UNCHANGED <<signals, iteration>>
    BY <1>5 DEF Finish, WriteDone, WriteError, TouchAfter, WriteStatus, TouchDone,
       RestoreSignalHandler, CleanGenerator, CleanEvaluator, CleanupFails,
       WriteManifest, Return, Leave, process, loop
  <2>2. \/ pc = "writeDone" /\ pc' = "touchDone"
        \/ pc = "writeError" /\ pc' = "touchError"
        \/ pc \in {"touchDone", "touchError"} /\ pc' = "restoreHandler"
        \/ pc = "restoreHandler" /\ pc' = "cleanGenerator"
        \/ pc = "cleanGenerator" /\ pc' \in {"cleanEvaluator", "writeManifest", "end"}
        \/ pc = "cleanEvaluator" /\ pc' \in {"writeManifest", "end"}
        \/ pc = "sigCleanGenerator" /\ pc' \in {"sigCleanEvaluator", "sigRaise"}
        \/ pc = "sigCleanEvaluator" /\ pc' = "sigRaise"
        \/ pc = "writeManifest" /\ pc' = "return"
        \/ pc = "return" /\ pc' = "end"
    BY <1>5 DEF Finish, WriteDone, WriteError, TouchAfter, RestoreSignalHandler,
       CleanGenerator, CleanEvaluator, CleanupFails, AfterFinally, Leave,
       WriteManifest, Return, FinallyPcs
  <2>3. Shorter
    BY EvaluatorCountAssumption, <2>1, <2>2, SMTT(60) DEF StatementsLeft
  <2>q. QED
    BY <2>3, LeftIs
<1>6. CASE Handler
  <2>1. /\ UNCHANGED <<signals, iteration>>
        /\ \/ pc = "sigWrite" /\ pc' = "sigTouch"
           \/ pc = "sigTouch" /\ pc' = "sigCleanGenerator"
           \/ pc = "sigRaise" /\ pc' \in {"restoreHandler", "end"}
    BY <1>6 DEF Handler, SigWrite, SigTouch, SigRaise, WriteStatus, TouchDone,
       Leave, process, loop
  <2>2. Shorter
    BY EvaluatorCountAssumption, <2>1, SMTT(60) DEF StatementsLeft
  <2>q. QED
    BY <2>2, LeftIs
<1>7. CASE CtrlC
  <2>1. /\ pc # "end" /\ signals' = signals + 1 /\ iteration' = iteration
        /\ pc' \in {"sigWrite", "end"}
    BY <1>7 DEF CtrlC, Leave, loop
  <2>2. StatementsLeft'[pc'] \in {0, 10}
    BY <2>1 DEF StatementsLeft
  <2> DEFINE k == IterationLength * (MaxIterations - iteration)
             x == StatementsLeft[pc]
             y == StatementsLeft'[pc']
  <2>3. k \in Nat /\ signals \in Nat /\ MaxSignals \in Nat
    BY <1>0, MaxIterationsAssumption, MaxSignalsAssumption
    DEF IInv, TypeOK, IterationLength
  <2>4. /\ Left = 10 * (MaxSignals - signals) + k + x
        /\ Left' = 10 * (MaxSignals - (signals + 1)) + k + y
    BY <2>1 DEF Left, IterationLength
  <2>5. x \in Nat /\ x > 0 /\ y \in {0, 10}
    BY <1>0, <2>1, <2>2
  <2> HIDE DEF k, x, y
  <2>q. QED
    BY <2>3, <2>4, <2>5
<1>8. CASE Killed
  <2>1. pc # "end" /\ pc' = "end" /\ UNCHANGED <<signals, iteration>>
    BY <1>8 DEF Killed, Leave, loop
  <2>2. StatementsLeft'[pc'] = 0
    BY <2>1, SMTT(60) DEF StatementsLeft
  <2>q. QED
    BY <1>0, <2>1, <2>2, LeftIs
<1>9. CASE WriteFails
  <2>1. /\ UNCHANGED <<signals, iteration>>
        /\ \/ pc \in {"writeRunning", "writeManifest"} /\ pc' = "end"
           \/ pc \in {"writeDone", "touchDone"} /\ pc' = "writeError"
           \/ pc \in {"writeError", "touchError"} /\ pc' = "restoreHandler"
           \/ /\ pc \in {"sigWrite", "sigTouch"}
              /\ pc' \in {"sigRaise", "writeError", "restoreHandler", "end"}
    BY <1>9 DEF WriteFails, Leave, DonePcs, ExceptPcs, loop
  <2>2. Shorter
    BY EvaluatorCountAssumption, <2>1, SMTT(60) DEF StatementsLeft
  <2>q. QED
    BY <2>2, LeftIs
<1>q. QED
  BY <1>1, <1>2, <1>3, <1>4, <1>5, <1>6, <1>7, <1>8, <1>9 DEF Step, Pipeline

\* However the agents fail and wherever Ctrl-C interrupts, a run is over after a
\* number of statements that its configuration bounds: a statement is never run
\* again except by another iteration or another Ctrl-C (start_run).
THEOREM RunIsShort ==
    Spec => /\ Left = 10 * MaxSignals + IterationLength * (MaxIterations - 1)
                         + EvaluatorCount + 22
            /\ [](Left \in Nat)
            /\ Countdown
<1>1. Init => Left = 10 * MaxSignals + IterationLength * (MaxIterations - 1)
                         + EvaluatorCount + 22
  <2> SUFFICES ASSUME Init
               PROVE  Left = 10 * MaxSignals + IterationLength * (MaxIterations - 1)
                                 + EvaluatorCount + 22
    OBVIOUS
  <2> DEFINE k == IterationLength * (MaxIterations - 1)
  <2>1. k \in Nat
    BY EvaluatorCountAssumption, MaxIterationsAssumption DEF IterationLength
  <2>2. Left = 10 * (MaxSignals - 0) + k + (EvaluatorCount + 22)
    BY DEF Init, Left, StatementsLeft
  <2> HIDE DEF k
  <2>3. Left = 10 * MaxSignals + k + EvaluatorCount + 22
    BY <2>1, <2>2, MaxSignalsAssumption, EvaluatorCountAssumption
  <2>q. QED
    BY <2>3 DEF k
<1>2. IInv => Left \in Nat
  BY LeftIs
<1>3. IInv /\ [Next]_vars => [Left' < Left]_vars
  BY StepShortens DEF Next, Gone
<1>q. QED
  BY Inductive, <1>1, <1>2, <1>3, PTL DEF Spec, Countdown
=============================================================================
