----------------------------- MODULE RunRecord -----------------------------
(***************************************************************************)
(* What a run leaves on disk about its last iteration, and who reads it    *)
(* afterwards: the evaluators' eval_iter{n}.json, the reconciled manifest  *)
(* (orchestrator.py, reconciler.py), the report of it (cli.py,             *)
(* reporting/markdown.py), and replays of the run (replay.py).             *)
(*                                                                         *)
(* Each evaluator of the iteration writes the same file, only the first    *)
(* two are reconciled, and only the first one's suites are recorded.       *)
(***************************************************************************)
EXTENDS Reconciler

CONSTANTS
    Criteria,    \* the names in the criteria file
    Threshold,   \* criterion -> tenths, its passing score
    Results,     \* EvaluationResults a grade may return (Evaluator)
    MaxReplays   \* bound: replays of the run

Entries(list) == {list[i] : i \in DOMAIN list}

Misses(e) == Missed(e, Threshold)

\* From 1 to 10 points, as the loader of the criteria file accepts.
ASSUME ThresholdAssumption == Threshold \in [Criteria -> 10..100]

\* Of what Evaluator publishes this is a theorem, PublishedIsReasoned.
ASSUME ResultsAssumption ==
    Results \subseteq {r \in EvaluationResult : HasReason(r, Threshold)}

ASSUME MaxReplaysAssumption == MaxReplays \in Nat

VARIABLES
    evaluators,  \* len(config.evaluator_models)
    pc,
    results,     \* eval_results
    evalFile,    \* the result in evaluations/eval_iter{n}.json
    artifacts,   \* run_dir/artifacts exists
    manifest,    \* telemetry/run-manifest.json
    copied,      \* run_dir/manifest.json, which replay reads, exists
    replays,     \* manifests of replays, besides the original
    refused,     \* a replay did not find the run
    report       \* what report.md says

disk == <<evalFile, artifacts, manifest, copied, replays, report>>
vars == <<evaluators, pc, results, disk, refused>>

NoResult   == [scores |-> <<>>, verdict |-> "FAIL", bugs |-> <<>>,
               veto |-> FALSE, reprompted |-> FALSE]
NoManifest == [verdict |-> "none", scores |-> {}, bugs |-> {},
               disagreements |-> {}, from |-> "none"]

NoReport   == [verdict |-> "none", rows |-> {}, bugs |-> {},
               disagreements |-> {}]

Entry(c, s) == [criterion |-> c, score |-> s]

Init ==
    /\ evaluators \in 1..3
    /\ pc = "grade"
    /\ results = <<>> /\ evalFile = NoResult
    /\ artifacts = FALSE /\ manifest = NoManifest
    /\ copied = FALSE /\ replays = {} /\ refused = FALSE
    /\ report = NoReport

-----------------------------------------------------------------------------
(* The run *)

\* Every evaluator writes its result over the one before.
Grade_NoLimit ==
    /\ pc = "grade"
    /\ \E r \in Results : results' = Append(results, r) /\ evalFile' = r
    /\ UNCHANGED <<evaluators, pc, artifacts, manifest, copied, replays,
                   refused, report>>

Grade ==
    /\ pc = "grade" /\ Len(results) < evaluators
    /\ \E r \in Results : results' = Append(results, r) /\ evalFile' = r
    /\ UNCHANGED <<evaluators, pc, artifacts, manifest, copied, replays,
                   refused, report>>

SaveArtifactSnapshot ==
    /\ pc = "grade" /\ Len(results) = evaluators
    /\ artifacts' = TRUE
    /\ pc' = "record"
    /\ UNCHANGED <<evaluators, results, evalFile, manifest, copied, replays,
                   refused, report>>

RunFails ==
    /\ pc \in {"grade", "record"}
    /\ pc' = "over"
    /\ UNCHANGED <<evaluators, results, disk, refused>>

Record(verdict, scores, bugs, disagreements) ==
    [verdict |-> verdict, scores |-> scores, bugs |-> bugs,
     disagreements |-> disagreements, from |-> "run"]

ReconciledRecord(a, b, d, f) ==
    Record(FinalVerdict(a, b), {Entry(c, f[c]) : c \in DOMAIN f},
           DeduplicateBugs(a.bugs, b.bugs), d)

\* What may be recorded of the results rs.
Records(rs) ==
    LET a == rs[1]
        b == rs[2]
    IN  IF Len(rs) = 1
        THEN {Record(a.verdict, Entries(a.scores), Entries(a.bugs), {})}
        ELSE UNION {{ReconciledRecord(a, b, d, f) : f \in FinalScores(a, b, d)} :
                       d \in Disagreements(a, b)}

WriteManifest ==
    /\ pc = "record"
    /\ manifest' \in Records(results)
    /\ pc' = "over"
    /\ UNCHANGED <<evaluators, results, evalFile, artifacts, copied, replays,
                   refused, report>>

-----------------------------------------------------------------------------
(* After the run, in any order *)

\* The summary, the table of scores, the disagreements and the bugs.  A row
\* passes at PASS_THRESHOLD whatever the criterion's own threshold is.
Row(e, pass) == [criterion |-> e.criterion,
                 status |-> IF e.score >= pass THEN "PASS" ELSE "FAIL"]

BuildReport_AtFive(m) ==
    [verdict |-> m.verdict, bugs |-> m.bugs,
     rows |-> {Row(e, 50) : e \in m.scores},
     disagreements |-> m.disagreements]

BuildReport(m) ==
    [verdict |-> m.verdict, bugs |-> m.bugs,
     rows |-> {Row(e, 70) : e \in m.scores},
     disagreements |-> m.disagreements]

\* harnessa report, and the end of harnessa run.
Report ==
    /\ pc = "over" /\ manifest # NoManifest
    /\ report' = BuildReport(manifest)
    /\ UNCHANGED <<evaluators, pc, results, evalFile, artifacts, manifest,
                   copied, replays, refused>>

\* No code of the repository but a test fixture writes runs/<id>/manifest.json;
\* somebody may copy it there by hand.
PutManifest ==
    /\ pc = "over" /\ manifest # NoManifest
    /\ copied' = TRUE
    /\ UNCHANGED <<evaluators, pc, results, evalFile, artifacts, manifest,
                   replays, refused, report>>

ReplayRefused ==
    /\ pc = "over" /\ ~(copied /\ artifacts)
    /\ refused' = TRUE
    /\ UNCHANGED <<evaluators, pc, results, disk>>

\* _evaluate_artifacts grades nothing: the new manifest has no scores and no
\* verdict.
NewManifest == [NoManifest EXCEPT !.from = "replay"]

Replay ==
    /\ pc = "over" /\ copied /\ artifacts
    /\ \E id \in 1..MaxReplays :
          /\ \A r \in replays : r.id # id
          /\ replays' = replays \cup {[id |-> id, manifest |-> NewManifest]}
    /\ UNCHANGED <<evaluators, pc, results, evalFile, artifacts, manifest,
                   copied, refused, report>>

Next ==
    \/ Grade \/ SaveArtifactSnapshot \/ RunFails \/ WriteManifest
    \/ Report \/ PutManifest \/ ReplayRefused \/ Replay

Spec == Init /\ [][Next]_vars

-----------------------------------------------------------------------------
(* Properties *)

Reconciled == {results[i] : i \in {i \in DOMAIN results : i <= 2}}

\* Type invariant.
TypeOK ==
    /\ evaluators \in 1..3 /\ pc \in {"grade", "record", "over"}
    /\ results \in Seq(Results) /\ Len(results) <= evaluators
    /\ evalFile \in Results \cup {NoResult}
    /\ artifacts \in BOOLEAN /\ copied \in BOOLEAN /\ refused \in BOOLEAN
    /\ manifest.verdict \in {"none", "PASS", "FAIL"}
    /\ \A e \in manifest.scores : e.score \in 0..100
    /\ replays \subseteq [id : 1..MaxReplays, manifest : {NewManifest}]
    /\ \A row \in report.rows : row.status \in {"PASS", "FAIL"}
    /\ report.bugs \subseteq manifest.bugs

\* The recorded verdict, the recorded scores and the evaluation file tell the
\* same story although they are made apart: a PASS has no score below its
\* threshold that no re-prompted evaluator gave, and its evaluation file, which is
\* the last evaluator's, says FAIL only if that evaluator was a third one; a FAIL
\* without a score below its threshold comes from a suite's veto, from a criterion
\* scored twice, or from a score lifted by one within a point of it, which is then
\* no disagreement (reconciler.py:90-145, evaluator.py:675).
VerdictMatchesScores ==
    manifest.from = "run" =>
        /\ manifest.verdict = "PASS" =>
              /\ \A e \in manifest.scores : Misses(e) =>
                    \E r \in Reconciled : r.reprompted /\ e.criterion \in Scored(r)
              /\ evalFile.verdict = "FAIL" => evaluators > 2
        /\ manifest.verdict = "FAIL" =>
              \/ \E e \in manifest.scores : Misses(e)
              \/ \E r \in Reconciled :
                    \/ r.veto
                    \/ Cardinality(Scored(r)) < Len(r.scores)
              \/ /\ evaluators > 1
                 /\ \E c \in Agreeable(results[1], results[2]) :
                       /\ c \notin manifest.disagreements
                       /\ \E r \in Reconciled : Misses(Entry(c, ScoreOf(r, c)))

\* Whatever place the reconciled evaluators complain about stays in the record,
\* once, with the first evaluator's words if it has any (reconciler.py:173).
BugsSurvive ==
    manifest.from = "run" /\ evaluators > 1 =>
        /\ \A r \in Reconciled : \A b \in Entries(r.bugs) :
              \E k \in manifest.bugs : k.place = b.place
        /\ \A k, l \in manifest.bugs : k.place = l.place => k = l
        /\ \A i \in DOMAIN results[1].bugs :
              LET b == results[1].bugs[i] IN
              (\A j \in 1..(i - 1) : results[1].bugs[j].place # b.place)
                 => b \in manifest.bugs

\* A report whose rows and verdict contradict one another does so for a reason, as
\* it judges its rows by 7.0 and the verdict is of the criteria's own thresholds
\* (markdown.py:101).  A FAIL over rows that all say PASS has a recorded score below a
\* threshold above 7.0 or, if no recorded score misses, a suite's veto, a criterion
\* scored twice, or a lifted score that is not among the disagreements; a PASS shows
\* FAIL for a criterion only where a lower threshold is met or an evaluator was
\* re-prompted.
RowsExplainVerdict ==
    LET missed  == {e \in manifest.scores : Misses(e)}
        failing == {row \in report.rows : row.status = "FAIL"}
    IN  /\ report.verdict = "FAIL" /\ failing = {} =>
              \/ \E e \in missed : Threshold[e.criterion] > 70
              \/ /\ missed = {}
                 /\ \E r \in Reconciled :
                       \/ r.veto
                       \/ Cardinality(Scored(r)) < Len(r.scores)
                       \/ \E e \in Entries(r.scores) :
                             Misses(e) /\ e.criterion \notin report.disagreements
        /\ report.verdict = "PASS" => \A row \in failing :
              \/ \E e \in manifest.scores \ missed : e.criterion = row.criterion
              \/ \E r \in Reconciled : r.reprompted /\ row.criterion \in Scored(r)

-----------------------------------------------------------------------------
(* The inductive invariant behind the safety properties                    *)

\* Whose words each file holds.
FilesInv ==
    /\ results # <<>> => evalFile = results[Len(results)]
    /\ pc = "record" => Len(results) = evaluators
    /\ \/ manifest = NoManifest
       \/ /\ pc = "over" /\ Len(results) = evaluators
          /\ manifest \in Records(results)
    /\ \/ report = NoReport
       \/ manifest # NoManifest /\ report = BuildReport(manifest)

IInv == TypeOK /\ FilesInv
=============================================================================
