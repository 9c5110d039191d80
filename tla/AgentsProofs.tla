---------------------------- MODULE AgentsProofs ----------------------------
(***************************************************************************)
(* What the agents hand over, commit and archive, for any set of files and *)
(* any number of iterations, on any host.                                  *)
(***************************************************************************)
EXTENDS Agents, TLAPS

USE FilesAssumption, MaxRunsAssumption, EvaluatorsAssumption

\* Every step keeps the types.
LEMMA TypeStep ==
    ASSUME TypeOK, HandoffInv, GradedInv, [Next]_vars
    PROVE  TypeOK'
  <1> USE DEF TypeOK, Tree, Paths, Nobody, Benchmark, Empty, Repos,
              given, calls, git, reading, writing
  <1>1. CASE PlanByCopilot
    BY <1>1 DEF PlanByCopilot, Killed
  <1>2. CASE PlanByModel
    BY <1>2 DEF PlanByModel
  <1>3. CASE Negotiate
    <2>1. tree' \in Tree
      BY <1>3 DEF Negotiate, Edits
    <2>2. killed' = killed \/ killed' = killed \cup {0}
      BY <1>3 DEF Negotiate, Killed
    <2>3. killed' \subseteq 0..MaxRuns
      <3>1. killed \subseteq 0..MaxRuns /\ 0 \in 0..MaxRuns
        OBVIOUS
      <3>q. QED
        BY ONLY <2>2, <3>1
    <2>q. QED
      BY <1>3, <2>1, <2>3 DEF Negotiate
  <1>4. CASE StartGenerator
    BY <1>4 DEF StartGenerator
  <1>5. CASE RunCopilot
    <2>1. PICK t \in Edits(run), o \in Outcomes :
             /\ tree' = t
             /\ killed' = Killed(run, o)
             /\ failed' = IF o = "failed" THEN failed \cup {run} ELSE failed
      BY <1>5 DEF RunCopilot
    <2>2. tree' \in Tree
      BY <2>1 DEF Edits
    <2>3. index' \in {index, tree'} /\ head' \in {head, tree'} /\ repo' \in Repos
      BY <1>5 DEF RunCopilot
    <2>4. killed' \subseteq 0..MaxRuns /\ failed' \subseteq 1..MaxRuns
      BY <2>1 DEF Killed
    <2>q. QED
      BY <1>5, <2>2, <2>3, <2>4 DEF RunCopilot
  <1>6. CASE ModelAnswers
    BY <1>6 DEF ModelAnswers, ParseFencedBlocks
  <1>7. CASE WriteBlock
    BY <1>7 DEF WriteBlock
  <1>8. CASE GitCommit
    BY <1>8 DEF GitCommit
  <1>9. CASE GeneratorReturns
    BY <1>9 DEF GeneratorReturns
  <1>10. CASE RunSuites
    <2>1. grades' \in 0..Evaluators /\ graded' \subseteq Tree
      BY <1>10 DEF RunSuites, GradedInv
    <2>q. QED
      BY <1>10, <2>1 DEF RunSuites
  <1>11. CASE GetGitDiff
    BY <1>11 DEF GetGitDiff
  <1>12. CASE NextIteration
    <2>1. run' \in 1..MaxRuns /\ graded' \subseteq Tree /\ grades' \in 0..Evaluators
      BY <1>12 DEF NextIteration
    <2>2. answer' = {} /\ blocks' = {}
      BY <1>12 DEF NextIteration, HandoffInv
    <2>q. QED
      BY <1>12, <2>1, <2>2 DEF NextIteration
  <1>13. CASE SaveArtifactSnapshot
    BY <1>13 DEF SaveArtifactSnapshot
  <1>14. CASE PlannerRaises
    BY <1>14 DEF PlannerRaises
  <1>15. CASE GeneratorRaises
    BY <1>15 DEF GeneratorRaises
  <1>16. CASE OrphanWrites
    BY <1>16 DEF OrphanWrites
  <1>17. CASE UNCHANGED vars
    BY <1>17 DEF vars
  <1>q. QED
    BY <1>1, <1>2, <1>3, <1>4, <1>5, <1>6, <1>7, <1>8, <1>9, <1>10,
       <1>11, <1>12, <1>13, <1>14, <1>15, <1>16, <1>17
       DEF Next, Step, Raise, Ended

\* Every step keeps the answer being written whole.
LEMMA HandoffStep ==
    ASSUME TypeOK, HandoffInv, [Next]_vars
    PROVE  HandoffInv'
  <1> USE DEF TypeOK, Tree, Paths, Nobody, Benchmark, Empty, HandoffInv,
              given, calls, git, reading, writing
  <1>1. CASE PlanByCopilot
    BY <1>1 DEF PlanByCopilot, Killed
  <1>2. CASE PlanByModel
    BY <1>2 DEF PlanByModel
  <1>3. CASE Negotiate
    BY <1>3 DEF Negotiate, Edits, Killed
  <1>4. CASE StartGenerator
    BY <1>4 DEF StartGenerator
  <1>5. CASE RunCopilot
    BY <1>5 DEF RunCopilot, Edits, Killed
  <1>6. CASE ModelAnswers
    BY <1>6 DEF ModelAnswers, ParseFencedBlocks
  <1>7. CASE WriteBlock
    BY <1>7 DEF WriteBlock
  <1>8. CASE GitCommit
    BY <1>8 DEF GitCommit
  <1>9. CASE GeneratorReturns
    BY <1>9 DEF GeneratorReturns
  <1>10. CASE RunSuites
    BY <1>10 DEF RunSuites
  <1>11. CASE GetGitDiff
    BY <1>11 DEF GetGitDiff
  <1>12. CASE NextIteration
    BY <1>12 DEF NextIteration
  <1>13. CASE SaveArtifactSnapshot
    BY <1>13 DEF SaveArtifactSnapshot
  <1>14. CASE PlannerRaises
    BY <1>14 DEF PlannerRaises
  <1>15. CASE GeneratorRaises
    BY <1>15 DEF GeneratorRaises
  <1>16. CASE OrphanWrites
    BY <1>16 DEF OrphanWrites
  <1>17. CASE UNCHANGED vars
    BY <1>17 DEF vars
  <1>q. QED
    BY <1>1, <1>2, <1>3, <1>4, <1>5, <1>6, <1>7, <1>8, <1>9, <1>10,
       <1>11, <1>12, <1>13, <1>14, <1>15, <1>16, <1>17
       DEF Next, Step, Raise, Ended

\* Every step keeps uncommitted work accounted for.
LEMMA CommitStep ==
    ASSUME TypeOK, HandoffInv, CommitInv, [Next]_vars
    PROVE  CommitInv'
  <1> USE DEF TypeOK, Tree, Paths, Nobody, Benchmark, Empty, HandoffInv, CommitInv, Uncommitted, CanCommit,
              given, calls, git, reading, writing
  <1>1. CASE PlanByCopilot
    BY <1>1 DEF PlanByCopilot, Killed
  <1>2. CASE PlanByModel
    BY <1>2 DEF PlanByModel
  <1>3. CASE Negotiate
    BY <1>3 DEF Negotiate, Edits, Killed
  <1>4. CASE StartGenerator
    BY <1>4 DEF StartGenerator
  <1>5. CASE RunCopilot
    <2>1. PICK t \in Edits(run), o \in Outcomes :
             /\ tree' = t
             /\ killed' = Killed(run, o)
             /\ failed' = IF o = "failed" THEN failed \cup {run} ELSE failed
             /\ \/ UNCHANGED git
                \/ /\ host.git /\ host.identity
                   /\ repo' = IF repo = "none" THEN "plain" ELSE repo
                   /\ index' = t /\ head' = t
             /\ pc' = IF o = "ok" /\ DetectChanges(t, o) THEN "commit" ELSE "return"
      BY <1>5 DEF RunCopilot
    <2>2. pc = "call" /\ UNCHANGED <<host, run>>
      BY <1>5 DEF RunCopilot
    <2>3. t[OutputFile] = tree[OutputFile] /\ \A f \in Files : t[f] \in {tree[f], run}
      BY DEF Edits
    <2>4. CASE head' = t
      BY <2>1, <2>4
    <2>5. CASE UNCHANGED git
      <3> SUFFICES ASSUME CanCommit(repo), NEW f \in Paths \ Skipped, Uncommitted(f)'
                   PROVE  \/ tree'[f] \in killed' \cup failed'
                          \/ pc' = "commit" /\ tree'[f] = run
        BY <2>2, <2>5
      <3>1. CASE tree'[f] = tree[f]
        <4>1. tree[f] \in killed \cup failed
          BY <2>2, <2>5, <3>1
        <4>q. QED
          BY <2>1, <3>1, <4>1 DEF Killed
      <3>2. CASE tree'[f] # tree[f]
        <4>1. tree'[f] = run /\ f \in Files \ Skipped
          BY <2>1, <2>3, <3>2
        <4>2. o = "ok" => pc' = "commit"
          BY <2>1, <3>2, <4>1 DEF DetectChanges
        <4>q. QED
          BY <2>1, <4>1, <4>2 DEF Killed, Outcomes
      <3>q. QED
        BY <3>1, <3>2
    <2>q. QED
      BY <2>1, <2>4, <2>5
  <1>6. CASE ModelAnswers
    BY <1>6 DEF ModelAnswers, ParseFencedBlocks
  <1>7. CASE WriteBlock
    BY <1>7 DEF WriteBlock
  <1>8. CASE GitCommit
    BY <1>8 DEF GitCommit
  <1>9. CASE GeneratorReturns
    BY <1>9 DEF GeneratorReturns
  <1>10. CASE RunSuites
    BY <1>10 DEF RunSuites
  <1>11. CASE GetGitDiff
    BY <1>11 DEF GetGitDiff
  <1>12. CASE NextIteration
    BY <1>12 DEF NextIteration
  <1>13. CASE SaveArtifactSnapshot
    BY <1>13 DEF SaveArtifactSnapshot
  <1>14. CASE PlannerRaises
    BY <1>14 DEF PlannerRaises
  <1>15. CASE GeneratorRaises
    BY <1>15 DEF GeneratorRaises
  <1>16. CASE OrphanWrites
    BY <1>16 DEF OrphanWrites
  <1>17. CASE UNCHANGED vars
    BY <1>17 DEF vars
  <1>q. QED
    BY <1>1, <1>2, <1>3, <1>4, <1>5, <1>6, <1>7, <1>8, <1>9, <1>10,
       <1>11, <1>12, <1>13, <1>14, <1>15, <1>16, <1>17
       DEF Next, Step, Raise, Ended

\* Every step keeps the graded tree in place.
LEMMA GradedStep ==
    ASSUME TypeOK, GradedInv, [Next]_vars
    PROVE  GradedInv'
  <1> USE DEF TypeOK, Tree, Paths, Nobody, Benchmark, Empty, GradedInv,
              given, calls, git, reading, writing
  <1>1. CASE PlanByCopilot
    BY <1>1 DEF PlanByCopilot, Killed
  <1>2. CASE PlanByModel
    BY <1>2 DEF PlanByModel
  <1>3. CASE Negotiate
    BY <1>3 DEF Negotiate, Edits, Killed
  <1>4. CASE StartGenerator
    BY <1>4 DEF StartGenerator
  <1>5. CASE RunCopilot
    BY <1>5 DEF RunCopilot, Edits, Killed
  <1>6. CASE ModelAnswers
    BY <1>6 DEF ModelAnswers, ParseFencedBlocks
  <1>7. CASE WriteBlock
    BY <1>7 DEF WriteBlock
  <1>8. CASE GitCommit
    BY <1>8 DEF GitCommit
  <1>9. CASE GeneratorReturns
    BY <1>9 DEF GeneratorReturns
  <1>10. CASE RunSuites
    BY <1>10 DEF RunSuites
  <1>11. CASE GetGitDiff
    BY <1>11 DEF GetGitDiff
  <1>12. CASE NextIteration
    BY <1>12 DEF NextIteration
  <1>13. CASE SaveArtifactSnapshot
    BY <1>13 DEF SaveArtifactSnapshot
  <1>14. CASE PlannerRaises
    BY <1>14 DEF PlannerRaises
  <1>15. CASE GeneratorRaises
    BY <1>15 DEF GeneratorRaises
  <1>16. CASE OrphanWrites
    BY <1>16 DEF OrphanWrites
  <1>17. CASE UNCHANGED vars
    BY <1>17 DEF vars
  <1>q. QED
    BY <1>1, <1>2, <1>3, <1>4, <1>5, <1>6, <1>7, <1>8, <1>9, <1>10,
       <1>11, <1>12, <1>13, <1>14, <1>15, <1>16, <1>17
       DEF Next, Step, Raise, Ended

\* Every step keeps the three properties.
LEMMA PropertiesStep ==
    ASSUME IInv, [Next]_vars
    PROVE  HandoffIsWhole' /\ SuccessIsCommitted' /\ GradedIsArchived'
  <1> USE DEF IInv, HandoffInv, CommitInv, GradedInv, HandoffIsWhole,
              SuccessIsCommitted, GradedIsArchived, Uncommitted, CanCommit,
              given, calls, git, reading, writing
  <1>1. CASE PlanByCopilot
    BY <1>1 DEF PlanByCopilot, Killed
  <1>2. CASE PlanByModel
    BY <1>2 DEF PlanByModel
  <1>3. CASE Negotiate
    BY <1>3 DEF Negotiate, Edits, Killed
  <1>4. CASE StartGenerator
    BY <1>4 DEF StartGenerator
  <1>5. CASE RunCopilot
    BY <1>5 DEF RunCopilot, Edits, Killed
  <1>6. CASE ModelAnswers
    BY <1>6 DEF ModelAnswers, ParseFencedBlocks
  <1>7. CASE WriteBlock
    BY <1>7 DEF WriteBlock
  <1>8. CASE GitCommit
    BY <1>8 DEF GitCommit
  <1>9. CASE GeneratorReturns
    <2>1. HandoffIsWhole'
      BY <1>9 DEF GeneratorReturns, TypeOK
    <2>2. SuccessIsCommitted'
      BY <1>9 DEF GeneratorReturns
    <2>3. GradedIsArchived'
      BY <1>9 DEF GeneratorReturns
    <2>q. QED
      BY <2>1, <2>2, <2>3
  <1>10. CASE RunSuites
    BY <1>10 DEF RunSuites
  <1>11. CASE GetGitDiff
    <2>1. HandoffIsWhole'
      BY <1>11 DEF GetGitDiff, TypeOK
    <2>2. SuccessIsCommitted'
      BY <1>11 DEF GetGitDiff
    <2>3. GradedIsArchived'
      BY <1>11 DEF GetGitDiff
    <2>q. QED
      BY <2>1, <2>2, <2>3
  <1>12. CASE NextIteration
    BY <1>12 DEF NextIteration
  <1>13. CASE SaveArtifactSnapshot
    BY <1>13 DEF SaveArtifactSnapshot
  <1>14. CASE PlannerRaises
    BY <1>14 DEF PlannerRaises
  <1>15. CASE GeneratorRaises
    BY <1>15 DEF GeneratorRaises
  <1>16. CASE OrphanWrites
    <2>1. HandoffIsWhole'
      BY <1>16 DEF OrphanWrites, TypeOK
    <2>2. SuccessIsCommitted'
      BY <1>16, CommitStep DEF OrphanWrites
    <2>3. GradedIsArchived'
      BY <1>16 DEF OrphanWrites
    <2>q. QED
      BY <2>1, <2>2, <2>3
  <1>17. CASE UNCHANGED vars
    BY <1>17 DEF vars
  <1>q. QED
    BY <1>1, <1>2, <1>3, <1>4, <1>5, <1>6, <1>7, <1>8, <1>9, <1>10,
       <1>11, <1>12, <1>13, <1>14, <1>15, <1>16, <1>17
       DEF Next, Step, Raise, Ended

\* The inductive invariant holds in every run.
LEMMA Inductive == Init /\ [][Next]_vars => []IInv
<1>1. Init => IInv
  <2> SUFFICES ASSUME Init
               PROVE  IInv
    OBVIOUS
  <2> USE DEF Init, Paths, Nobody, Benchmark
  <2>1. TypeOK
    <3>1. tree \in Tree /\ Empty \in Tree
      BY DEF Tree, Empty
    <3>2. index \in Tree /\ head \in Tree
      BY <3>1
    <3>3. /\ status \in [{"planner", "generator"} -> {"none", "running", "done", "error"}]
          /\ repo \in Repos /\ run \in 1..MaxRuns
      BY DEF Repos
    <3>4. /\ grades \in 0..Evaluators /\ graded \subseteq Tree /\ archived \in Tree
          /\ diff \subseteq Files /\ killed \subseteq 0..MaxRuns
          /\ failed \subseteq 1..MaxRuns /\ answer \subseteq Paths
          /\ blocks \subseteq answer
      BY <3>1
    <3>q. QED
      BY <3>1, <3>2, <3>3, <3>4 DEF TypeOK
  <2>2. HandoffInv /\ GradedInv /\ HandoffIsWhole /\ SuccessIsCommitted /\ GradedIsArchived
    BY DEF HandoffInv, GradedInv, HandoffIsWhole, SuccessIsCommitted, GradedIsArchived
  <2>3. CommitInv
    BY DEF CommitInv, Uncommitted
  <2>q. QED
    BY <2>1, <2>2, <2>3 DEF IInv
<1>2. IInv /\ [Next]_vars => IInv'
  BY TypeStep, HandoffStep, CommitStep, GradedStep, PropertiesStep DEF IInv
<1>q. QED
  BY <1>1, <1>2, PTL

\* Every variable keeps its type: trees, git, answers and calls.
THEOREM TypeCorrect == Spec => []TypeOK
<1>1. IInv => TypeOK
  BY DEF IInv
<1>q. QED
  BY Inductive, <1>1, PTL DEF Spec

\* No part of an answer reaches the evaluator without the rest
\* (generator.py:211-230).
THEOREM HandoffWhole == Spec => []HandoffIsWhole
<1>1. IInv => HandoffIsWhole
  BY DEF IInv
<1>q. QED
  BY Inductive, <1>1, PTL DEF Spec

\* What is graded and not in HEAD, where git can commit, is the work of a run
\* that failed or timed out (generator.py:112, executors.py:116).
THEOREM SuccessCommitted == Spec => []SuccessIsCommitted
<1>1. IInv => SuccessIsCommitted
  BY DEF IInv
<1>q. QED
  BY Inductive, <1>1, PTL DEF Spec

\* The archive is the graded code but for a killed call's files
\* (orchestrator.py:368 and 393).
THEOREM GradedArchived == Spec => []GradedIsArchived
<1>1. IInv => GradedIsArchived
  BY DEF IInv
<1>q. QED
  BY Inductive, <1>1, PTL DEF Spec
=============================================================================
