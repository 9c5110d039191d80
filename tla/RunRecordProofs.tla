--------------------------- MODULE RunRecordProofs ---------------------------
(***************************************************************************)
(* Safety of RunRecord, for all criteria and thresholds and whatever the   *)
(* evaluators return.                                                      *)
(***************************************************************************)
EXTENDS RunRecord, ReconcilerProofs

\* A result is a result, and its verdict has a reason.
LEMMA ResultIs ==
    ASSUME NEW r \in Results
    PROVE  /\ r \in EvaluationResult
           /\ r.verdict \in {"PASS", "FAIL"} /\ r.bugs \in Seq(BugReport)
           /\ r.scores \in Seq(BenchmarkScore)
           /\ r.verdict = "PASS" /\ (\E e \in Entries(r.scores) : Misses(e))
                => r.reprompted
           /\ r.verdict = "FAIL" =>
                r.veto \/ \E e \in Entries(r.scores) : Misses(e)
<1>1. r \in EvaluationResult /\ HasReason(r, Threshold)
  BY ResultsAssumption
<1>2. (\E e \in Entries(r.scores) : Misses(e))
        <=> \E i \in DOMAIN r.scores : Missed(r.scores[i], Threshold)
  BY DEF Entries, Misses
<1> QED BY <1>1, <1>2 DEF EvaluationResult, HasReason

\* Missing a threshold, with the types that comparing numbers asks for.
LEMMA MissesIs ==
    ASSUME NEW c, NEW x \in 0..100
    PROVE  /\ Misses(Entry(c, x)) <=> c \in Criteria /\ x < Threshold[c]
           /\ c \in Criteria => Threshold[c] \in 10..100
BY ThresholdAssumption DEF Misses, Missed, Entry

\* In a sheet that scores no criterion twice every entry counts.
LEMMA NoRepeat ==
    ASSUME NEW r \in EvaluationResult, NEW i \in DOMAIN r.scores,
           ~(Cardinality(Scored(r)) < Len(r.scores))
    PROVE  ScoreOf(r, r.scores[i].criterion) = r.scores[i].score
<1> DEFINE n == Len(r.scores)
           names == [k \in 1..n |-> r.scores[k].criterion]
<1>1. n \in Nat /\ DOMAIN r.scores = 1..n
  BY ResultTypes
<1>2. names \in Surjection(1..n, Scored(r))
  BY <1>1 DEF Surjection, Scored
<1>3. IsFiniteSet(1..n) /\ Cardinality(1..n) = n
  BY <1>1, FS_Interval
<1>4. Cardinality(Scored(r)) <= n /\ IsFiniteSet(Scored(r))
      /\ (Cardinality(Scored(r)) = n <=> names \in Injection(1..n, Scored(r)))
  BY <1>2, <1>3, FS_Surjection
<1>5. Cardinality(Scored(r)) \in Nat
  BY <1>4, FS_CardinalityType
<1>6. Cardinality(Scored(r)) = n
  BY <1>1, <1>4, <1>5
<1>7. \A k, l \in 1..n : names[k] = names[l] => k = l
  BY <1>4, <1>6 DEF Injection, IsInjective
<1> DEFINE c == r.scores[i].criterion
<1>8. c \in Scored(r)
  BY DEF Scored
<1>9. PICK k \in DOMAIN r.scores : /\ r.scores[k].criterion = c
                                   /\ ScoreOf(r, c) = r.scores[k].score
  BY <1>8, LastScore
<1>10. k = i
  BY <1>1, <1>7, <1>9
<1> QED BY <1>9, <1>10

-----------------------------------------------------------------------------
(* The record *)

\* The record of a single evaluator.
LEMMA RecordOfOne ==
    ASSUME NEW rs \in Seq(Results), Len(rs) = 1, NEW m \in Records(rs)
    PROVE  /\ rs[1] \in Results
           /\ m = Record(rs[1].verdict, Entries(rs[1].scores),
                         Entries(rs[1].bugs), {})
<1>1. rs[1] \in Results
  BY ElementOfSeq
<1> QED BY <1>1, Zenon DEF Records

\* The record of two, with the disagreements and the scores it was made of.
LEMMA RecordOfTwo ==
    ASSUME NEW rs \in Seq(Results), NEW n \in Nat, n = Len(rs), n > 1,
           NEW m \in Records(rs)
    PROVE  /\ rs[1] \in Results /\ rs[2] \in Results
           /\ \E d \in Disagreements(rs[1], rs[2]) :
              \E f \in FinalScores(rs[1], rs[2], d) :
                 m = ReconciledRecord(rs[1], rs[2], d, f)
<1>1. rs[1] \in Results /\ rs[2] \in Results
  BY LenProperties, ElementOfSeq
<1>2. Len(rs) # 1
  <2>1. n # 1
    OBVIOUS
  <2> QED BY <2>1, Zenon
<1>3. \E d \in Disagreements(rs[1], rs[2]) :
        \E f \in FinalScores(rs[1], rs[2], d) :
           m = ReconciledRecord(rs[1], rs[2], d, f)
  BY <1>2, Zenon DEF Records
<1> QED BY <1>1, <1>3

\* What the scores of two are.
LEMMA ScoresOfTwo ==
    ASSUME NEW a \in EvaluationResult, NEW b \in EvaluationResult, NEW d,
           NEW f \in FinalScores(a, b, d)
    PROVE  /\ DOMAIN f = Scored(a) \cup Scored(b)
           /\ \A c \in DOMAIN f : f[c] \in FinalScore(a, b, d, c)
           /\ \A c \in DOMAIN f : f[c] \in 0..100
<1>1. /\ DOMAIN f = Scored(a) \cup Scored(b)
      /\ \A c \in DOMAIN f : f[c] \in FinalScore(a, b, d, c)
  BY DEF FinalScores
<1>2. \A c \in DOMAIN f : f[c] \in 0..100
  BY <1>1, FinalScoreIs
<1> QED BY <1>1, <1>2

\* Types of a record.
LEMMA RecordTypes ==
    ASSUME NEW rs \in Seq(Results), NEW n \in 1..3, n = Len(rs), NEW m \in Records(rs)
    PROVE  /\ m.from = "run" /\ m # NoManifest
           /\ m.verdict \in {"PASS", "FAIL"}
           /\ \A e \in m.scores : e.score \in 0..100
<1>1. CASE n = 1
  <2>1. rs[1] \in EvaluationResult
    BY <1>1, RecordOfOne, ResultIs
  <2>2. \A i \in DOMAIN rs[1].scores : rs[1].scores[i].score \in 0..100
    BY <2>1, ResultTypes DEF BenchmarkScore
  <2>3. rs[1].verdict \in {"PASS", "FAIL"}
    BY <2>1 DEF EvaluationResult
  <2>4. m = Record(rs[1].verdict, Entries(rs[1].scores), Entries(rs[1].bugs), {})
    BY <1>1, RecordOfOne
  <2> QED BY <2>2, <2>3, <2>4 DEF Record, Entries, NoManifest
<1>2. CASE n > 1
  <2>1. rs[1] \in EvaluationResult /\ rs[2] \in EvaluationResult
    BY <1>2, RecordOfTwo, ResultIs
  <2>2. PICK d \in Disagreements(rs[1], rs[2]) :
             \E f \in FinalScores(rs[1], rs[2], d) :
                m = ReconciledRecord(rs[1], rs[2], d, f)
    BY <1>2, RecordOfTwo
  <2>3. PICK f \in FinalScores(rs[1], rs[2], d) :
             m = ReconciledRecord(rs[1], rs[2], d, f)
    BY <2>2
  <2>4. FinalVerdict(rs[1], rs[2]) \in {"PASS", "FAIL"}
    BY DEF FinalVerdict
  <2>5. /\ m.from = "run" /\ m.verdict = FinalVerdict(rs[1], rs[2])
        /\ m.scores = {Entry(c, f[c]) : c \in DOMAIN f}
    BY <2>3 DEF ReconciledRecord, Record
  <2>6. \A c \in DOMAIN f : Entry(c, f[c]).score \in 0..100
    BY <2>1, ScoresOfTwo DEF Entry
  <2>7. \A e \in m.scores : e.score \in 0..100
    BY <2>5, <2>6
  <2>8. m # NoManifest
    BY <2>5 DEF NoManifest
  <2> QED BY <2>4, <2>5, <2>7, <2>8
<1>3. n = 1 \/ n > 1
  OBVIOUS
<1> QED BY <1>1, <1>2, <1>3
-----------------------------------------------------------------------------
(* What the verdict of two says of the scores of two *)

\* A final score below a threshold comes from an evaluator that missed it.
LEMMA MissHasSource ==
    ASSUME NEW a \in EvaluationResult, NEW b \in EvaluationResult, NEW d,
           NEW c \in Scored(a) \cup Scored(b), NEW x \in FinalScore(a, b, d, c),
           Misses(Entry(c, x))
    PROVE  \/ c \in Scored(a) /\ Misses(Entry(c, ScoreOf(a, c)))
           \/ c \in Scored(b) /\ Misses(Entry(c, ScoreOf(b, c)))
<1>1. /\ x \in 0..100
      /\ c \notin Scored(b) => x = ScoreOf(a, c)
      /\ c \notin Scored(a) => x = ScoreOf(b, c)
      /\ c \in Paired(a, b) => \/ (ScoreOf(a, c) <= x /\ x <= ScoreOf(b, c))
                               \/ (ScoreOf(b, c) <= x /\ x <= ScoreOf(a, c))
  BY FinalScoreIs
<1>2. c \in Criteria /\ x < Threshold[c] /\ Threshold[c] \in 10..100
  BY <1>1, MissesIs
<1>3. CASE c \in Paired(a, b)
  <2>1. ScoreOf(a, c) \in 0..100 /\ ScoreOf(b, c) \in 0..100
    BY <1>3, ApartIs
  <2>2. ScoreOf(a, c) < Threshold[c] \/ ScoreOf(b, c) < Threshold[c]
    BY <1>1, <1>2, <1>3, <2>1
  <2> QED BY <1>2, <1>3, <2>1, <2>2, MissesIs DEF Paired
<1> QED BY <1>1, <1>3 DEF Paired

\* An evaluator's score for a criterion is one of its entries.
LEMMA ScoreIsEntry ==
    ASSUME NEW r \in EvaluationResult, NEW c \in Scored(r)
    PROVE  \E e \in Entries(r.scores) :
              /\ e.criterion = c
              /\ Misses(e) <=> Misses(Entry(c, ScoreOf(r, c)))
BY LastScore DEF Entries, Misses, Missed, Entry

\* A PASS of both evaluators is over scores that only a re-prompted one misses.
LEMMA PassOfTwo ==
    ASSUME NEW a \in Results, NEW b \in Results, FinalVerdict(a, b) = "PASS",
           NEW d, NEW f \in FinalScores(a, b, d), NEW c \in DOMAIN f,
           Misses(Entry(c, f[c]))
    PROVE  \/ a.reprompted /\ c \in Scored(a)
           \/ b.reprompted /\ c \in Scored(b)
<1>1. /\ a \in EvaluationResult /\ a.verdict = "PASS"
      /\ b \in EvaluationResult /\ b.verdict = "PASS"
  BY ResultIs DEF FinalVerdict
<1>2. c \in Scored(a) \cup Scored(b) /\ f[c] \in FinalScore(a, b, d, c)
  BY <1>1, ScoresOfTwo
<1>3. \/ c \in Scored(a) /\ Misses(Entry(c, ScoreOf(a, c)))
      \/ c \in Scored(b) /\ Misses(Entry(c, ScoreOf(b, c)))
  BY <1>1, <1>2, MissHasSource
<1>4. ASSUME NEW r \in Results, r.verdict = "PASS", c \in Scored(r),
             Misses(Entry(c, ScoreOf(r, c)))
      PROVE  r.reprompted
  <2>0. r \in EvaluationResult
    BY ResultIs
  <2>1. PICK e \in Entries(r.scores) : Misses(e)
    BY <1>4, <2>0, ScoreIsEntry
  <2> QED BY <1>4, <2>1, ResultIs
<1> QED BY <1>1, <1>3, <1>4

\* A score that an evaluator missed and the record does not miss was lifted by
\* a colleague who agreed.
LEMMA LiftedScore ==
    ASSUME NEW a \in EvaluationResult, NEW b \in EvaluationResult,
           NEW d \in Disagreements(a, b), NEW f \in FinalScores(a, b, d),
           NEW r \in {a, b}, NEW c \in Scored(r),
           Misses(Entry(c, ScoreOf(r, c))), ~Misses(Entry(c, f[c]))
    PROVE  c \in Agreeable(a, b) /\ c \notin d
<1>0. c \in Scored(a) \cup Scored(b) /\ r \in EvaluationResult
  OBVIOUS
<1>1. c \in DOMAIN f /\ f[c] \in FinalScore(a, b, d, c) /\ f[c] \in 0..100
  <2>1. DOMAIN f = Scored(a) \cup Scored(b)
    BY ScoresOfTwo
  <2>2. c \in DOMAIN f
    BY <1>0, <2>1
  <2> QED BY <2>2, ScoresOfTwo
<1>2. ScoreOf(r, c) \in 0..100
  BY <1>0, LastScore
<1>3. c \in Criteria /\ ScoreOf(r, c) < Threshold[c] /\ Threshold[c] \in 10..100
  BY <1>2, MissesIs
<1>4. ~(f[c] < Threshold[c])
  BY <1>1, <1>3, MissesIs
<1>5. ~(f[c] <= ScoreOf(r, c))
  <2>1. \A x, y \in 0..100 : \A t \in 10..100 : y < t /\ ~(x < t) => ~(x <= y)
    OBVIOUS
  <2> QED BY <1>1, <1>2, <1>3, <1>4, <2>1, Zenon
<1>6. /\ c \in Scored(a) \cup Scored(b)
      /\ c \notin Scored(b) => f[c] = ScoreOf(a, c)
      /\ c \notin Scored(a) => f[c] = ScoreOf(b, c)
      /\ c \in Paired(a, b) /\ c \in d =>
            f[c] <= ScoreOf(a, c) /\ f[c] <= ScoreOf(b, c)
  BY <1>0, <1>1, FinalScoreIs
<1>7. c \in Paired(a, b)
  <2>1. f[c] # ScoreOf(r, c)
    BY <1>1, <1>2, <1>5
  <2> QED BY <1>6, <2>1 DEF Paired
<1>8. c \notin d
  BY <1>5, <1>6, <1>7
<1>9. c \in Agreeable(a, b)
  BY <1>7, <1>8 DEF Disagreements
<1> QED BY <1>8, <1>9

\* A FAIL of either is a veto, a criterion scored twice, a score the record
\* misses too, or one that was lifted.
LEMMA FailOfTwo ==
    ASSUME NEW a \in Results, NEW b \in Results, FinalVerdict(a, b) = "FAIL",
           NEW d \in Disagreements(a, b), NEW f \in FinalScores(a, b, d)
    PROVE  \/ \E c \in DOMAIN f : Misses(Entry(c, f[c]))
           \/ \E r \in {a, b} : r.veto \/ Cardinality(Scored(r)) < Len(r.scores)
           \/ \E c \in Agreeable(a, b) \ d :
                 \E r \in {a, b} : Misses(Entry(c, ScoreOf(r, c)))
<1>1. PICK r \in {a, b} : r.verdict = "FAIL"
  BY DEF FinalVerdict
<1>2. a \in EvaluationResult /\ b \in EvaluationResult /\ r \in EvaluationResult
  BY ResultIs
<1>3. r.veto \/ \E e \in Entries(r.scores) : Misses(e)
  BY <1>1, ResultIs
<1>4. SUFFICES ASSUME NEW i \in DOMAIN r.scores, Misses(r.scores[i]),
                      ~(Cardinality(Scored(r)) < Len(r.scores))
               PROVE  \/ \E c \in DOMAIN f : Misses(Entry(c, f[c]))
                      \/ \E c \in Agreeable(a, b) \ d :
                            Misses(Entry(c, ScoreOf(r, c)))
  BY <1>3 DEF Entries
<1> DEFINE c == r.scores[i].criterion
<1>5. c \in Scored(r) /\ ScoreOf(r, c) = r.scores[i].score
  BY <1>2, <1>4, NoRepeat DEF Scored
<1>6. Misses(Entry(c, ScoreOf(r, c)))
  BY <1>4, <1>5 DEF Misses, Missed, Entry
<1>7. c \in DOMAIN f
  <2>1. DOMAIN f = Scored(a) \cup Scored(b)
    BY <1>2, ScoresOfTwo
  <2>2. c \in Scored(a) \cup Scored(b)
    BY <1>5
  <2> QED BY <2>1, <2>2
<1>8. CASE ~Misses(Entry(c, f[c]))
  <2> HIDE DEF c
  <2>1. c \in Agreeable(a, b) /\ c \notin d
    BY <1>2, <1>5, <1>6, <1>8, LiftedScore
  <2> QED BY <1>6, <2>1
<1> QED BY <1>7, <1>8

-----------------------------------------------------------------------------
(* The inductive invariant *)

\* It holds before anything is graded.
LEMMA InitIInv == Init => IInv
<1> SUFFICES ASSUME Init PROVE IInv
  OBVIOUS
<1>1. results = <<>> /\ <<>> \in Seq(Results) /\ Len(results) = 0
  BY DEF Init
<1>2. TypeOK
  <2>1. results \in Seq(Results) /\ Len(results) <= evaluators
    BY <1>1 DEF Init
  <2>2. /\ manifest.verdict = "none" /\ manifest.scores = {}
        /\ report.rows = {} /\ report.bugs = {}
    BY DEF Init, NoManifest, NoReport
  <2> QED BY <2>1, <2>2 DEF Init, TypeOK
<1>3. FilesInv
  BY <1>1 DEF Init, FilesInv
<1> QED BY <1>2, <1>3 DEF IInv

\* What is recorded is a record of the results.
LEMMA WriteManifestStep == IInv /\ WriteManifest => IInv'
<1> SUFFICES ASSUME IInv, WriteManifest PROVE IInv'
  OBVIOUS
<1> USE DEF IInv, TypeOK, FilesInv, WriteManifest
<1>1. /\ results \in Seq(Results) /\ evaluators \in 1..3
      /\ evaluators = Len(results) /\ manifest' \in Records(results)
  OBVIOUS
<1>2. /\ manifest' # NoManifest
      /\ manifest'.verdict \in {"PASS", "FAIL"}
      /\ \A e \in manifest'.scores : e.score \in 0..100
  BY <1>1, RecordTypes
<1>3. report = NoReport
  OBVIOUS
<1>4. TypeOK'
  BY <1>2, <1>3 DEF NoReport
<1>5. FilesInv'
  BY <1>1, <1>2, <1>3
<1> QED BY <1>4, <1>5

\* Every step keeps it.
LEMMA StepIInv == IInv /\ [Next]_vars => IInv'
<1> SUFFICES ASSUME IInv, [Next]_vars PROVE IInv'
  OBVIOUS
<1> USE DEF IInv, TypeOK, FilesInv
<1>1. CASE Grade
  <2>1. PICK r \in Results : results' = Append(results, r) /\ evalFile' = r
    BY <1>1 DEF Grade
  <2>2. /\ results' \in Seq(Results) /\ Len(results') = Len(results) + 1
        /\ results'[Len(results) + 1] = r
    BY <2>1, AppendProperties
  <2>3. Len(results') <= evaluators /\ Len(results) \in Nat
    BY <1>1, <2>2 DEF Grade
  <2>4. manifest = NoManifest
    BY <1>1 DEF Grade
  <2>5. TypeOK'
    BY <1>1, <2>1, <2>2, <2>3 DEF Grade
  <2>6. FilesInv'
    BY <1>1, <2>1, <2>2, <2>4 DEF Grade
  <2> QED BY <2>5, <2>6
<1>2. CASE SaveArtifactSnapshot
  BY <1>2 DEF SaveArtifactSnapshot
<1>3. CASE RunFails
  BY <1>3 DEF RunFails, disk
<1>4. CASE WriteManifest
  BY <1>4, WriteManifestStep
<1>5. CASE Report
  <2>1. /\ report'.rows = {Row(e, 70) : e \in manifest.scores}
        /\ report'.bugs = manifest.bugs /\ report' = BuildReport(manifest)
    BY <1>5 DEF Report, BuildReport
  <2>2. \A row \in report'.rows : row.status \in {"PASS", "FAIL"}
    BY <2>1 DEF Row
  <2>3. TypeOK'
    BY <1>5, <2>1, <2>2 DEF Report
  <2>4. FilesInv'
    BY <1>5, <2>1 DEF Report
  <2> QED BY <2>3, <2>4
<1>6. CASE PutManifest
  BY <1>6 DEF PutManifest
<1>7. CASE ReplayRefused
  BY <1>7 DEF ReplayRefused, disk
<1>8. CASE Replay
  BY <1>8 DEF Replay
<1>9. CASE UNCHANGED vars
  BY <1>9 DEF vars, disk
<1> QED
  BY <1>1, <1>2, <1>3, <1>4, <1>5, <1>6, <1>7, <1>8, <1>9 DEF Next

\* The inductive invariant holds of every run and all its readers.
THEOREM Invariant == Spec => []IInv
BY InitIInv, StepIInv, PTL DEF Spec

\* Types: a record and its report hold what the readers expect.
THEOREM TypeCorrect == Spec => []TypeOK
<1>1. IInv => TypeOK
  BY DEF IInv
<1> QED BY Invariant, <1>1, PTL

-----------------------------------------------------------------------------
(* The record, the file and the report *)

\* What is known of a recorded run of one evaluator.
LEMMA RecordedOne ==
    ASSUME IInv, manifest.from = "run", evaluators = 1
    PROVE  /\ results[1] \in Results /\ Reconciled = {results[1]}
           /\ manifest = Record(results[1].verdict, Entries(results[1].scores),
                                Entries(results[1].bugs), {})
           /\ evalFile = results[1]
<1>1. /\ results \in Seq(Results) /\ Len(results) = 1
      /\ manifest \in Records(results)
      /\ results # <<>> => evalFile = results[Len(results)]
  BY DEF IInv, TypeOK, FilesInv, NoManifest
<1>2. DOMAIN results = {1}
  BY <1>1
<1>3. Reconciled = {results[1]}
  BY <1>2 DEF Reconciled
<1>4. results # <<>>
  BY <1>1
<1> QED BY <1>1, <1>3, <1>4, RecordOfOne

\* What is known of a recorded run of several.
LEMMA RecordedTwo ==
    ASSUME IInv, manifest.from = "run", evaluators > 1
    PROVE  /\ results[1] \in Results /\ results[2] \in Results
           /\ Reconciled = {results[1], results[2]}
           /\ \E d \in Disagreements(results[1], results[2]) :
              \E f \in FinalScores(results[1], results[2], d) :
                 manifest = ReconciledRecord(results[1], results[2], d, f)
           /\ evaluators = 2 => evalFile = results[2]
<1>1. /\ results \in Seq(Results) /\ Len(results) = evaluators
      /\ evaluators \in 1..3 /\ manifest \in Records(results)
      /\ results # <<>> => evalFile = results[Len(results)]
  BY DEF IInv, TypeOK, FilesInv, NoManifest
<1>2. DOMAIN results = 1..evaluators
  BY <1>1
<1>3. {i \in DOMAIN results : i <= 2} = {1, 2}
  BY <1>1, <1>2
<1>4. Reconciled = {results[1], results[2]}
  BY <1>3 DEF Reconciled
<1>5. results # <<>>
  BY <1>1
<1> QED BY <1>1, <1>4, <1>5, RecordOfTwo

\* A recorded PASS is over scores that only a re-prompted evaluator misses, and
\* all who graded say PASS but for a third.
LEMMA PassIsSound ==
    ASSUME IInv, manifest.from = "run", manifest.verdict = "PASS"
    PROVE  /\ \A e \in manifest.scores : Misses(e) =>
                 \E r \in Reconciled : r.reprompted /\ e.criterion \in Scored(r)
           /\ evalFile.verdict = "FAIL" => evaluators > 2
<1>0. evaluators = 1 \/ (evaluators > 1 /\ (evaluators = 2 \/ evaluators > 2))
  BY DEF IInv, TypeOK
<1>1. CASE evaluators = 1
  <2>1. /\ results[1].verdict = "PASS" /\ manifest.scores = Entries(results[1].scores)
        /\ results[1] \in Results /\ Reconciled = {results[1]}
        /\ evalFile = results[1]
    BY <1>1, RecordedOne DEF Record
  <2>2. \A e \in manifest.scores : e.criterion \in Scored(results[1])
    BY <2>1 DEF Entries, Scored
  <2> QED BY <2>1, <2>2, ResultIs
<1>2. CASE evaluators > 1
  <2>1. PICK d \in Disagreements(results[1], results[2]) :
             \E f \in FinalScores(results[1], results[2], d) :
                manifest = ReconciledRecord(results[1], results[2], d, f)
    BY <1>2, RecordedTwo
  <2>2. PICK f \in FinalScores(results[1], results[2], d) :
             manifest = ReconciledRecord(results[1], results[2], d, f)
    BY <2>1
  <2>3. /\ FinalVerdict(results[1], results[2]) = "PASS"
        /\ manifest.scores = {Entry(c, f[c]) : c \in DOMAIN f}
    BY <2>2 DEF ReconciledRecord, Record
  <2>4. /\ results[1] \in Results /\ results[2] \in Results
        /\ Reconciled = {results[1], results[2]}
        /\ evaluators = 2 => evalFile = results[2]
    BY <1>2, RecordedTwo
  <2>5. ASSUME NEW e \in manifest.scores, Misses(e)
        PROVE  \E r \in Reconciled : r.reprompted /\ e.criterion \in Scored(r)
    <3>1. PICK c \in DOMAIN f : e = Entry(c, f[c])
      BY <2>3
    <3>2. e.criterion = c
      BY <3>1 DEF Entry
    <3>3. \/ results[1].reprompted /\ c \in Scored(results[1])
          \/ results[2].reprompted /\ c \in Scored(results[2])
      BY <2>3, <2>4, <2>5, <3>1, PassOfTwo
    <3> QED BY <2>4, <3>2, <3>3
  <2>6. results[2].verdict # "FAIL"
    BY <2>3 DEF FinalVerdict
  <2> QED BY <1>0, <1>2, <2>4, <2>5, <2>6
<1> QED BY <1>0, <1>1, <1>2

\* A recorded FAIL can be explained from the record and the two results.
LEMMA FailIsExplained ==
    ASSUME IInv, manifest.from = "run", manifest.verdict = "FAIL"
    PROVE  \/ \E e \in manifest.scores : Misses(e)
           \/ \E r \in Reconciled : r.veto \/ Cardinality(Scored(r)) < Len(r.scores)
           \/ /\ evaluators > 1
              /\ \E c \in Agreeable(results[1], results[2]) :
                    /\ c \notin manifest.disagreements
                    /\ \E r \in Reconciled : Misses(Entry(c, ScoreOf(r, c)))
<1>0. evaluators = 1 \/ evaluators > 1
  BY DEF IInv, TypeOK
<1>1. CASE evaluators = 1
  <2>1. /\ results[1].verdict = "FAIL" /\ manifest.scores = Entries(results[1].scores)
        /\ results[1] \in Results /\ Reconciled = {results[1]}
    BY <1>1, RecordedOne DEF Record
  <2> QED BY <2>1, ResultIs
<1>2. CASE evaluators > 1
  <2>1. PICK d \in Disagreements(results[1], results[2]) :
             \E f \in FinalScores(results[1], results[2], d) :
                manifest = ReconciledRecord(results[1], results[2], d, f)
    BY <1>2, RecordedTwo
  <2>2. PICK f \in FinalScores(results[1], results[2], d) :
             manifest = ReconciledRecord(results[1], results[2], d, f)
    BY <2>1
  <2>3. /\ FinalVerdict(results[1], results[2]) = "FAIL"
        /\ manifest.scores = {Entry(c, f[c]) : c \in DOMAIN f}
        /\ manifest.disagreements = d
    BY <2>2 DEF ReconciledRecord, Record
  <2>4. /\ results[1] \in Results /\ results[2] \in Results
        /\ Reconciled = {results[1], results[2]}
    BY <1>2, RecordedTwo
  <2>5. \/ \E c \in DOMAIN f : Misses(Entry(c, f[c]))
        \/ \E r \in Reconciled : r.veto \/ Cardinality(Scored(r)) < Len(r.scores)
        \/ \E c \in Agreeable(results[1], results[2]) \ d :
              \E r \in Reconciled : Misses(Entry(c, ScoreOf(r, c)))
    BY <2>3, <2>4, FailOfTwo
  <2> QED BY <1>2, <2>3, <2>5
<1> QED BY <1>0, <1>1, <1>2

\* The recorded verdict, scores and evaluation file tell the same story.
THEOREM VerdictIsExplained == Spec => []VerdictMatchesScores
<1>1. IInv => VerdictMatchesScores
  BY PassIsSound, FailIsExplained DEF VerdictMatchesScores
<1> QED BY Invariant, <1>1, PTL

\* Every complaint of the two survives, once, in the first's words.
THEOREM ComplaintsSurvive == Spec => []BugsSurvive
<1>1. ASSUME IInv, manifest.from = "run", evaluators > 1 PROVE BugsSurvive
  <2>1. /\ manifest.bugs = DeduplicateBugs(results[1].bugs, results[2].bugs)
        /\ results[1].bugs \in Seq(BugReport) /\ results[2].bugs \in Seq(BugReport)
        /\ Reconciled = {results[1], results[2]}
    BY <1>1, RecordedTwo, ResultIs DEF ReconciledRecord, Record
  <2>2. ASSUME NEW first, NEW second, NEW merged,
               first = results[1].bugs, second = results[2].bugs,
               merged = manifest.bugs
        PROVE  BugsSurvive
    <3>1. /\ first \in Seq(BugReport) /\ second \in Seq(BugReport)
          /\ merged = DeduplicateBugs(first, second)
      BY <2>1, <2>2
    <3>2. \A i \in DOMAIN first : \E k \in merged : k.place = first[i].place
      BY <3>1, BugsAreMerged
    <3>3. \A i \in DOMAIN second : \E k \in merged : k.place = second[i].place
      BY <3>1, BugsAreMerged
    <3>4. \A k, l \in merged : k.place = l.place => k = l
      BY <3>1, BugsAreMerged
    <3>5. \A i \in DOMAIN first :
             (\A j \in 1..(i - 1) : first[j].place # first[i].place)
                => first[i] \in merged
      BY <3>1, BugsAreMerged
    <3>6. Entries(results[1].bugs) = {first[i] : i \in DOMAIN first}
          /\ Entries(results[2].bugs) = {second[i] : i \in DOMAIN second}
      BY <2>2 DEF Entries
    <3>7. \A r \in Reconciled : \A b \in Entries(r.bugs) :
             \E k \in merged : k.place = b.place
      BY <2>1, <3>2, <3>3, <3>6
    <3> QED BY <2>2, <3>4, <3>5, <3>7 DEF BugsSurvive
  <2> QED BY <2>2
<1>2. IInv => BugsSurvive
  BY <1>1 DEF BugsSurvive
<1> QED BY Invariant, <1>2, PTL

\* A recorded score that misses its threshold and is shown as PASS has a threshold
\* above the report's.
LEMMA ShownAsPass ==
    ASSUME IInv, report = BuildReport(manifest), NEW e \in manifest.scores, Misses(e),
           \A row \in report.rows : row.status # "FAIL"
    PROVE  Threshold[e.criterion] > 70
<1>1. e.score \in 0..100
  BY DEF IInv, TypeOK
<1>2. Row(e, 70) \in report.rows
  BY DEF BuildReport
<1>3. e.score >= 70
  BY <1>2 DEF Row
<1>4. e.criterion \in Criteria /\ e.score < Threshold[e.criterion]
  BY ThresholdAssumption DEF Misses, Missed
<1>5. Threshold[e.criterion] \in 10..100
  BY <1>4, ThresholdAssumption
<1> QED BY <1>1, <1>3, <1>4, <1>5

\* A report's rows and its verdict contradict one another only for the reasons that
\* can be told from the thresholds and the two results.
THEOREM ReportIsExplained == Spec => []RowsExplainVerdict
<1> DEFINE missed  == {e \in manifest.scores : Misses(e)}
           failing == {row \in report.rows : row.status = "FAIL"}
<1>1. ASSUME IInv, report.verdict \in {"PASS", "FAIL"}
      PROVE  /\ report = BuildReport(manifest) /\ manifest.from = "run"
             /\ report.verdict = manifest.verdict
             /\ report.disagreements = manifest.disagreements
             /\ report.rows = {Row(e, 70) : e \in manifest.scores}
  <2>1. report = BuildReport(manifest) /\ manifest # NoManifest
    BY <1>1 DEF IInv, FilesInv, NoReport
  <2>2. manifest \in Records(results) /\ results \in Seq(Results)
        /\ evaluators \in 1..3 /\ Len(results) = evaluators
    BY <1>1, <2>1 DEF IInv, FilesInv, TypeOK
  <2>3. manifest.from = "run"
    BY <2>2, RecordTypes
  <2> QED BY <2>1, <2>3 DEF BuildReport
<1>2. ASSUME IInv, report.verdict = "FAIL", failing = {}
      PROVE  \/ \E e \in missed : Threshold[e.criterion] > 70
             \/ /\ missed = {}
                /\ \E r \in Reconciled :
                      \/ r.veto
                      \/ Cardinality(Scored(r)) < Len(r.scores)
                      \/ \E e \in Entries(r.scores) :
                            Misses(e) /\ e.criterion \notin report.disagreements
  <2>1. ASSUME NEW e \in missed PROVE Threshold[e.criterion] > 70
    BY <1>1, <1>2, <2>1, ShownAsPass
  <2>2. CASE missed = {}
    <3>1. CASE \E r \in Reconciled : r.veto \/ Cardinality(Scored(r)) < Len(r.scores)
      BY <2>2, <3>1
    <3>2. ASSUME evaluators > 1, NEW c \in Agreeable(results[1], results[2]),
                 c \notin manifest.disagreements,
                 NEW r \in Reconciled, Misses(Entry(c, ScoreOf(r, c)))
          PROVE  \E e \in Entries(r.scores) :
                    Misses(e) /\ e.criterion \notin report.disagreements
      <4>1. r \in {results[1], results[2]} /\ r \in EvaluationResult
        BY <1>1, <1>2, <3>2, RecordedTwo, ResultIs
      <4>2. c \in Scored(r)
        BY <3>2, <4>1 DEF Agreeable, Paired
      <4>3. PICK e \in Entries(r.scores) :
                e.criterion = c /\ (Misses(e) <=> Misses(Entry(c, ScoreOf(r, c))))
        BY <4>1, <4>2, ScoreIsEntry
      <4> QED BY <1>1, <1>2, <3>2, <4>3
    <3>3. ~\E e \in manifest.scores : Misses(e)
      BY <2>2
    <3> QED BY <1>1, <1>2, <2>2, <3>1, <3>2, <3>3, FailIsExplained
  <2> QED BY <2>1, <2>2
<1>3. ASSUME IInv, report.verdict = "PASS", NEW row \in failing
      PROVE  \/ \E e \in manifest.scores \ missed : e.criterion = row.criterion
             \/ \E r \in Reconciled : r.reprompted /\ row.criterion \in Scored(r)
  <2>1. PICK e \in manifest.scores : row = Row(e, 70)
    BY <1>1, <1>3
  <2>2. e.criterion = row.criterion
    BY <2>1 DEF Row
  <2>3. CASE e \in missed
    BY <1>1, <1>3, <2>2, <2>3, PassIsSound
  <2> QED BY <2>2, <2>3
<1>4. IInv => RowsExplainVerdict
  BY <1>2, <1>3 DEF RowsExplainVerdict
<1> QED BY Invariant, <1>4, PTL
=============================================================================
