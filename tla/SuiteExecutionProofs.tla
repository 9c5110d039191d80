------------------------ MODULE SuiteExecutionProofs ------------------------
(***************************************************************************)
(* What a suite result may be, for any number of grades in a run.  IInv    *)
(* adds to the properties which run a report file, present or still to be  *)
(* written by a runner that has outlived its timeout, can belong to.       *)
(***************************************************************************)
EXTENDS SuiteExecution, TLAPS

USE GradesAssumption

\* Removing the copy may fail, and that is all.
LEMMA RemoveCopyType ==
    TypeOK /\ RemoveCopy => injected' \in BOOLEAN /\ leftover' \in BOOLEAN
  BY DEF TypeOK, RemoveCopy

\* A report is of the call under way and says when it was written.
LEMMA ReportsType ==
    ASSUME TypeOK, NEW content \in Contents, RunnerWrites(content)
    PROVE  reports' \in [Suites -> Report]
  BY DEF TypeOK, RunnerWrites, Written, Report, Suites

\* A result is made of what the parser found.
LEMMA ParsedType ==
    ASSUME NEW ok \in BOOLEAN, NEW failing \in BOOLEAN, NEW report \in Report,
           Parsed(ok, failing, report)
    PROVE  result' \in SuiteResult
  BY DEF Parsed, SuiteResult

\* Every step keeps the types.
LEMMA TypeStep ==
    TypeOK /\ [Next]_vars => TypeOK'
  <1> SUFFICES ASSUME TypeOK, [Next]_vars
               PROVE  TypeOK'
    OBVIOUS
  <1> USE DEF TypeOK, Contents, Processes, Report, NoReport,
              SuiteResult, InvalidResult, Runtimes, Suites, given, call, tree
  <1>1. CASE Generate
    BY <1>1 DEF Generate
  <1>2. CASE MaterializeTestDir
    BY <1>2 DEF MaterializeTestDir
  <1>3. CASE MissingSuiteResult
    BY <1>3 DEF MissingSuiteResult
  <1>4. CASE SuiteRaises
    BY <1>4 DEF SuiteRaises
  <1>5. CASE BuildCommand
    BY <1>5 DEF BuildCommand
  <1>6. CASE UnknownFramework
    BY <1>6, RemoveCopyType DEF UnknownFramework, GiveUp
  <1>7. CASE RunnerNotFound
    BY <1>7, RemoveCopyType DEF RunnerNotFound, GiveUp
  <1>8. CASE TimeoutExpired
    <2>1. reports' \in [Suites -> Report]
      BY <1>8, ReportsType DEF TimeoutExpired
    <2>2. injected' \in BOOLEAN /\ leftover' \in BOOLEAN
      BY <1>8, RemoveCopyType DEF TimeoutExpired, GiveUp
    <2>3. orphans' \subseteq [grade : 1..Grades, suite : Suites]
      BY <1>8 DEF TimeoutExpired, GiveUp
    <2>q. QED
      BY <1>8, <2>1, <2>2, <2>3 DEF TimeoutExpired, GiveUp
  <1>9. ASSUME NEW p \in Processes, RunnerExits(p)
        PROVE  TypeOK'
    BY <1>9 DEF RunnerExits, RunnerWrites, Written
  <1>10. ASSUME NEW o \in orphans, NEW c \in Contents, OrphanWrites(o, c)
        PROVE  TypeOK'
    BY <1>10 DEF OrphanWrites
  <1>11. CASE ParseReport
    <2>1. reports[suite] \in Report /\ NoReport \in Report
      OBVIOUS
    <2>2. (reports[suite].content = "fail") \in BOOLEAN
      OBVIOUS
    <2>3. result' \in SuiteResult
      BY ONLY <1>11, <2>1, <2>2, ParsedType DEF ParseReport
    <2>q. QED
      BY <1>11, <2>3 DEF ParseReport, Parsed
  <1>12. CASE ParseGoJson
    <2>1. Written(proc.wrote) \in Report
      BY DEF Written
    <2>2. reports' \in [Suites -> Report] /\ reports'[suite] \in Report
      BY <1>12, <2>1 DEF ParseGoJson
    <2>3. NoReport \in Report
      OBVIOUS
    <2>4. (\/ proc.wrote = "fail"
           \/ proc.wrote = "empty" /\ proc.returncode # 0) \in BOOLEAN
      OBVIOUS
    <2>5. result' \in SuiteResult
      BY ONLY <1>12, <2>2, <2>3, <2>4, ParsedType DEF ParseGoJson
    <2>q. QED
      BY <1>12, <2>2, <2>5 DEF ParseGoJson, Parsed
  <1>13. CASE CleanUp
    BY <1>13, RemoveCopyType DEF CleanUp
  <1>14. CASE RunRegressionTests
    BY <1>14 DEF RunRegressionTests
  <1>15. CASE NextGrade
    BY <1>15 DEF NextGrade
  <1>16. CASE UNCHANGED vars
    BY <1>16 DEF vars
  <1>q. QED
    BY <1>1, <1>2, <1>3, <1>4, <1>5, <1>6, <1>7, <1>8, <1>9, <1>10, <1>11, <1>12, <1>13, <1>14, <1>15, <1>16
       DEF Next, Over

\* Every step keeps whose the reports may be.
LEMMA ReportStep ==
    TypeOK /\ ReportInv /\ [Next]_vars => ReportInv'
  <1> SUFFICES ASSUME TypeOK, ReportInv, [Next]_vars
               PROVE  ReportInv'
    OBVIOUS
  <1> USE DEF TypeOK, ReportInv, Contents, Processes, Report, NoReport,
              SuiteResult, InvalidResult, Runtimes, Suites, given, call, tree
  <1>1. CASE Generate
    BY <1>1 DEF Generate
  <1>2. CASE MaterializeTestDir
    BY <1>2 DEF MaterializeTestDir
  <1>3. CASE MissingSuiteResult
    BY <1>3 DEF MissingSuiteResult
  <1>4. CASE SuiteRaises
    BY <1>4 DEF SuiteRaises
  <1>5. CASE BuildCommand
    BY <1>5 DEF BuildCommand
  <1>6. CASE UnknownFramework
    BY <1>6 DEF UnknownFramework, GiveUp, RemoveCopy
  <1>7. CASE RunnerNotFound
    BY <1>7 DEF RunnerNotFound, GiveUp, RemoveCopy
  <1>8. CASE TimeoutExpired
    BY <1>8 DEF TimeoutExpired, GiveUp, RemoveCopy, RunnerWrites, Written
  <1>9. ASSUME NEW p \in Processes, RunnerExits(p)
        PROVE  ReportInv'
    BY <1>9 DEF RunnerExits, RunnerWrites, Written
  <1>10. ASSUME NEW o \in orphans, NEW c \in Contents, OrphanWrites(o, c)
        PROVE  ReportInv'
    BY <1>10 DEF OrphanWrites
  <1>11. CASE ParseReport
    BY <1>11 DEF ParseReport, Parsed
  <1>12. CASE ParseGoJson
    BY <1>12 DEF ParseGoJson, Parsed, Written
  <1>13. CASE CleanUp
    BY <1>13 DEF CleanUp, RemoveCopy
  <1>14. CASE RunRegressionTests
    BY <1>14 DEF RunRegressionTests
  <1>15. CASE NextGrade
    BY <1>15 DEF NextGrade
  <1>16. CASE UNCHANGED vars
    BY <1>16 DEF vars
  <1>q. QED
    BY <1>1, <1>2, <1>3, <1>4, <1>5, <1>6, <1>7, <1>8, <1>9, <1>10, <1>11, <1>12, <1>13, <1>14, <1>15, <1>16
       DEF Next, Over

\* Every step keeps the suites ahead free of reports and of orphans.
LEMMA FreshStep ==
    TypeOK /\ ReportInv /\ FreshInv /\ [Next]_vars => FreshInv'
  <1> SUFFICES ASSUME TypeOK, ReportInv, FreshInv, [Next]_vars
               PROVE  FreshInv'
    OBVIOUS
  <1> USE DEF TypeOK, ReportInv, FreshInv, Ahead, Contents, Processes, Report, NoReport,
              SuiteResult, InvalidResult, Runtimes, Suites, given, call, tree
  <1>1. CASE Generate
    BY <1>1 DEF Generate
  <1>2. CASE MaterializeTestDir
    BY <1>2 DEF MaterializeTestDir
  <1>3. CASE MissingSuiteResult
    BY <1>3 DEF MissingSuiteResult
  <1>4. CASE SuiteRaises
    BY <1>4 DEF SuiteRaises
  <1>5. CASE BuildCommand
    BY <1>5 DEF BuildCommand
  <1>6. CASE UnknownFramework
    BY <1>6 DEF UnknownFramework, GiveUp, RemoveCopy
  <1>7. CASE RunnerNotFound
    BY <1>7 DEF RunnerNotFound, GiveUp, RemoveCopy
  <1>8. CASE TimeoutExpired
    BY <1>8 DEF TimeoutExpired, GiveUp, RemoveCopy, RunnerWrites, Written
  <1>9. ASSUME NEW p \in Processes, RunnerExits(p)
        PROVE  FreshInv'
    <2>1. /\ UNCHANGED <<grade, suite, orphans>>
          /\ \A s \in Suites : s # suite => reports'[s] = reports[s]
          /\ pc = "run" /\ pc' = "parse"
      BY <1>9 DEF RunnerExits, RunnerWrites
    <2>q. QED
      BY ONLY <2>1, FreshInv DEF FreshInv, Ahead, Suites
  <1>10. ASSUME NEW o \in orphans, NEW c \in Contents, OrphanWrites(o, c)
         PROVE  FreshInv'
    <2>1. /\ UNCHANGED <<grade, suite, pc>> /\ orphans' \subseteq orphans
          /\ \A s \in Suites : s # o.suite => reports'[s] = reports[s]
          /\ reports'[o.suite].grade = o.grade
      BY <1>10 DEF OrphanWrites
    <2>2. /\ o = [grade |-> o.grade, suite |-> o.suite]
          /\ o.grade <= grade /\ o.grade \in Nat /\ grade \in Nat
      OBVIOUS
    <2>q. QED
      BY ONLY <2>1, <2>2, FreshInv DEF FreshInv, Ahead
  <1>11. CASE ParseReport
    BY <1>11 DEF ParseReport, Parsed
  <1>12. CASE ParseGoJson
    BY <1>12 DEF ParseGoJson, Parsed, Written
  <1>13. CASE CleanUp
    BY <1>13 DEF CleanUp, RemoveCopy
  <1>14. CASE RunRegressionTests
    BY <1>14 DEF RunRegressionTests
  <1>15. CASE NextGrade
    BY <1>15 DEF NextGrade
  <1>16. CASE UNCHANGED vars
    BY <1>16 DEF vars
  <1>q. QED
    BY <1>1, <1>2, <1>3, <1>4, <1>5, <1>6, <1>7, <1>8, <1>9, <1>10, <1>11, <1>12, <1>13, <1>14, <1>15, <1>16
       DEF Next, Over

\* Every step keeps what the parser may find.
LEMMA ParseStep ==
    TypeOK /\ ReportInv /\ FreshInv /\ ParseInv /\ [Next]_vars => ParseInv'
  <1> SUFFICES ASSUME TypeOK, ReportInv, FreshInv, ParseInv, [Next]_vars
               PROVE  ParseInv'
    OBVIOUS
  <1> USE DEF TypeOK, ReportInv, FreshInv, ParseInv, Ahead, Contents, Processes, Report, NoReport,
              SuiteResult, InvalidResult, Runtimes, Suites, given, call, tree
  <1>1. CASE Generate
    BY <1>1 DEF Generate
  <1>2. CASE MaterializeTestDir
    BY <1>2 DEF MaterializeTestDir
  <1>3. CASE MissingSuiteResult
    BY <1>3 DEF MissingSuiteResult
  <1>4. CASE SuiteRaises
    BY <1>4 DEF SuiteRaises
  <1>5. CASE BuildCommand
    BY <1>5 DEF BuildCommand
  <1>6. CASE UnknownFramework
    BY <1>6 DEF UnknownFramework, GiveUp, RemoveCopy
  <1>7. CASE RunnerNotFound
    BY <1>7 DEF RunnerNotFound, GiveUp, RemoveCopy
  <1>8. CASE TimeoutExpired
    BY <1>8 DEF TimeoutExpired, GiveUp, RemoveCopy, RunnerWrites, Written
  <1>9. ASSUME NEW p \in Processes, RunnerExits(p)
        PROVE  ParseInv'
    BY <1>9 DEF RunnerExits, RunnerWrites, Written
  <1>10. ASSUME NEW o \in orphans, NEW c \in Contents, OrphanWrites(o, c)
        PROVE  ParseInv'
    BY <1>10 DEF OrphanWrites
  <1>11. CASE ParseReport
    BY <1>11 DEF ParseReport, Parsed
  <1>12. CASE ParseGoJson
    BY <1>12 DEF ParseGoJson, Parsed, Written
  <1>13. CASE CleanUp
    BY <1>13 DEF CleanUp, RemoveCopy
  <1>14. CASE RunRegressionTests
    BY <1>14 DEF RunRegressionTests
  <1>15. CASE NextGrade
    BY <1>15 DEF NextGrade
  <1>16. CASE UNCHANGED vars
    BY <1>16 DEF vars
  <1>q. QED
    BY <1>1, <1>2, <1>3, <1>4, <1>5, <1>6, <1>7, <1>8, <1>9, <1>10, <1>11, <1>12, <1>13, <1>14, <1>15, <1>16
       DEF Next, Over

\* Every step keeps the copy of the hidden suite where it may be.
LEMMA InjectedStep ==
    TypeOK /\ InjectedToRunOnly /\ [Next]_vars => InjectedToRunOnly'
  <1> SUFFICES ASSUME TypeOK, InjectedToRunOnly, [Next]_vars
               PROVE  InjectedToRunOnly'
    OBVIOUS
  <1> USE DEF TypeOK, InjectedToRunOnly, given, call, tree
  <1>1. CASE Generate
    BY <1>1 DEF Generate
  <1>2. CASE MaterializeTestDir
    BY <1>2 DEF MaterializeTestDir
  <1>3. CASE MissingSuiteResult
    BY <1>3 DEF MissingSuiteResult
  <1>4. CASE SuiteRaises
    BY <1>4 DEF SuiteRaises
  <1>5. CASE BuildCommand
    BY <1>5 DEF BuildCommand
  <1>6. CASE UnknownFramework
    BY <1>6 DEF UnknownFramework, GiveUp, RemoveCopy
  <1>7. CASE RunnerNotFound
    BY <1>7 DEF RunnerNotFound, GiveUp, RemoveCopy
  <1>8. CASE TimeoutExpired
    BY <1>8 DEF TimeoutExpired, GiveUp, RemoveCopy, RunnerWrites, Written
  <1>9. ASSUME NEW p \in Processes, RunnerExits(p)
        PROVE  InjectedToRunOnly'
    BY <1>9 DEF RunnerExits, RunnerWrites, Written
  <1>10. ASSUME NEW o \in orphans, NEW c \in Contents, OrphanWrites(o, c)
        PROVE  InjectedToRunOnly'
    BY <1>10 DEF OrphanWrites
  <1>11. CASE ParseReport
    BY <1>11 DEF ParseReport, Parsed
  <1>12. CASE ParseGoJson
    BY <1>12 DEF ParseGoJson, Parsed, Written
  <1>13. CASE CleanUp
    BY <1>13 DEF CleanUp, RemoveCopy
  <1>14. CASE RunRegressionTests
    BY <1>14 DEF RunRegressionTests
  <1>15. CASE NextGrade
    BY <1>15 DEF NextGrade
  <1>16. CASE UNCHANGED vars
    BY <1>16 DEF vars
  <1>q. QED
    BY <1>1, <1>2, <1>3, <1>4, <1>5, <1>6, <1>7, <1>8, <1>9, <1>10, <1>11, <1>12, <1>13, <1>14, <1>15, <1>16
       DEF Next, Over

\* Every step keeps trusted counts tied to a run.
LEMMA TrustedStep ==
    TypeOK /\ ReportInv /\ ParseInv /\ TrustedIsOfItsRun /\ [Next]_vars => TrustedIsOfItsRun'
  <1> SUFFICES ASSUME TypeOK, ReportInv, ParseInv, TrustedIsOfItsRun, [Next]_vars
               PROVE  TrustedIsOfItsRun'
    OBVIOUS
  <1> USE DEF TypeOK, ReportInv, ParseInv, TrustedIsOfItsRun, Contents, Processes, Report, NoReport,
              SuiteResult, InvalidResult, Runtimes, Suites, given, call, tree
  <1>1. CASE Generate
    BY <1>1 DEF Generate
  <1>2. CASE MaterializeTestDir
    BY <1>2 DEF MaterializeTestDir
  <1>3. CASE MissingSuiteResult
    BY <1>3 DEF MissingSuiteResult
  <1>4. CASE SuiteRaises
    BY <1>4 DEF SuiteRaises
  <1>5. CASE BuildCommand
    BY <1>5 DEF BuildCommand
  <1>6. CASE UnknownFramework
    BY <1>6 DEF UnknownFramework, GiveUp, RemoveCopy
  <1>7. CASE RunnerNotFound
    BY <1>7 DEF RunnerNotFound, GiveUp, RemoveCopy
  <1>8. CASE TimeoutExpired
    BY <1>8 DEF TimeoutExpired, GiveUp, RemoveCopy, RunnerWrites, Written
  <1>9. ASSUME NEW p \in Processes, RunnerExits(p)
        PROVE  TrustedIsOfItsRun'
    BY <1>9 DEF RunnerExits, RunnerWrites, Written
  <1>10. ASSUME NEW o \in orphans, NEW c \in Contents, OrphanWrites(o, c)
        PROVE  TrustedIsOfItsRun'
    BY <1>10 DEF OrphanWrites
  <1>11. CASE ParseReport
    BY <1>11 DEF ParseReport, Parsed
  <1>12. CASE ParseGoJson
    BY <1>12 DEF ParseGoJson, Parsed, Written
  <1>13. CASE CleanUp
    BY <1>13 DEF CleanUp, RemoveCopy
  <1>14. CASE RunRegressionTests
    BY <1>14 DEF RunRegressionTests
  <1>15. CASE NextGrade
    BY <1>15 DEF NextGrade
  <1>16. CASE UNCHANGED vars
    BY <1>16 DEF vars
  <1>q. QED
    BY <1>1, <1>2, <1>3, <1>4, <1>5, <1>6, <1>7, <1>8, <1>9, <1>10, <1>11, <1>12, <1>13, <1>14, <1>15, <1>16
       DEF Next, Over

\* Every step keeps failed tests counted.
LEMMA FailuresStep ==
    TypeOK /\ ReportInv /\ ParseInv /\ FailuresAreCounted /\ [Next]_vars => FailuresAreCounted'
  <1> SUFFICES ASSUME TypeOK, ReportInv, ParseInv, FailuresAreCounted, [Next]_vars
               PROVE  FailuresAreCounted'
    OBVIOUS
  <1> USE DEF TypeOK, ReportInv, ParseInv, FailuresAreCounted, Contents, Processes, Report, NoReport,
              SuiteResult, InvalidResult, Runtimes, Suites, given, call, tree
  <1>1. CASE Generate
    BY <1>1 DEF Generate
  <1>2. CASE MaterializeTestDir
    BY <1>2 DEF MaterializeTestDir
  <1>3. CASE MissingSuiteResult
    BY <1>3 DEF MissingSuiteResult
  <1>4. CASE SuiteRaises
    BY <1>4 DEF SuiteRaises
  <1>5. CASE BuildCommand
    BY <1>5 DEF BuildCommand
  <1>6. CASE UnknownFramework
    BY <1>6 DEF UnknownFramework, GiveUp, RemoveCopy
  <1>7. CASE RunnerNotFound
    BY <1>7 DEF RunnerNotFound, GiveUp, RemoveCopy
  <1>8. CASE TimeoutExpired
    BY <1>8 DEF TimeoutExpired, GiveUp, RemoveCopy, RunnerWrites, Written
  <1>9. ASSUME NEW p \in Processes, RunnerExits(p)
        PROVE  FailuresAreCounted'
    BY <1>9 DEF RunnerExits, RunnerWrites, Written
  <1>10. ASSUME NEW o \in orphans, NEW c \in Contents, OrphanWrites(o, c)
        PROVE  FailuresAreCounted'
    BY <1>10 DEF OrphanWrites
  <1>11. CASE ParseReport
    <2>1. CASE reports[suite].content = "nothing"
      <3>1. PICK seen \in BOOLEAN : Parsed(FALSE, seen, NoReport)
        BY <1>11, <2>1 DEF ParseReport
      <3>q. QED
        BY <1>11, <2>1, <3>1 DEF Parsed, ParseReport
    <2>2. CASE reports[suite].content = "garbled"
      BY <1>11, <2>2 DEF ParseReport, Parsed
    <2>3. CASE reports[suite].content \notin {"nothing", "garbled"}
      <3>1. Parsed(TRUE, reports[suite].content = "fail", reports[suite])
        BY <1>11, <2>3 DEF ParseReport
      <3>2. /\ result'.failing <=> reports[suite].content = "fail"
            /\ result'.report = reports[suite]
            /\ UNCHANGED <<grade, proc, runtime>>
        BY <3>1, <1>11 DEF Parsed
      <3>3. runtime # "go"
        BY <1>11 DEF ParseReport
      <3>4. reports[suite].grade = grade => reports[suite].content = proc.wrote
        BY <1>11 DEF ParseReport, ParseInv
      <3>q. QED
        BY ONLY <3>2, <3>3, <3>4 DEF FailuresAreCounted
    <2>q. QED
      BY <2>1, <2>2, <2>3
  <1>12. CASE ParseGoJson
    BY <1>12 DEF ParseGoJson, Parsed, Written
  <1>13. CASE CleanUp
    BY <1>13 DEF CleanUp, RemoveCopy
  <1>14. CASE RunRegressionTests
    BY <1>14 DEF RunRegressionTests
  <1>15. CASE NextGrade
    BY <1>15 DEF NextGrade
  <1>16. CASE UNCHANGED vars
    BY <1>16 DEF vars
  <1>q. QED
    BY <1>1, <1>2, <1>3, <1>4, <1>5, <1>6, <1>7, <1>8, <1>9, <1>10, <1>11, <1>12, <1>13, <1>14, <1>15, <1>16
       DEF Next, Over

\* Every step keeps untrusted results failing.
LEMMA UntrustedStep ==
    TypeOK /\ ReportInv /\ ParseInv /\ UntrustedShowsErrors /\ [Next]_vars => UntrustedShowsErrors'
  <1> SUFFICES ASSUME TypeOK, ReportInv, ParseInv, UntrustedShowsErrors, [Next]_vars
               PROVE  UntrustedShowsErrors'
    OBVIOUS
  <1> USE DEF TypeOK, ReportInv, ParseInv, UntrustedShowsErrors, Contents, Processes, Report, NoReport,
              SuiteResult, InvalidResult, Runtimes, Suites, given, call, tree
  <1>1. CASE Generate
    BY <1>1 DEF Generate
  <1>2. CASE MaterializeTestDir
    BY <1>2 DEF MaterializeTestDir
  <1>3. CASE MissingSuiteResult
    BY <1>3 DEF MissingSuiteResult
  <1>4. CASE SuiteRaises
    BY <1>4 DEF SuiteRaises
  <1>5. CASE BuildCommand
    BY <1>5 DEF BuildCommand
  <1>6. CASE UnknownFramework
    BY <1>6 DEF UnknownFramework, GiveUp, RemoveCopy
  <1>7. CASE RunnerNotFound
    BY <1>7 DEF RunnerNotFound, GiveUp, RemoveCopy
  <1>8. CASE TimeoutExpired
    BY <1>8 DEF TimeoutExpired, GiveUp, RemoveCopy, RunnerWrites, Written
  <1>9. ASSUME NEW p \in Processes, RunnerExits(p)
        PROVE  UntrustedShowsErrors'
    BY <1>9 DEF RunnerExits, RunnerWrites, Written
  <1>10. ASSUME NEW o \in orphans, NEW c \in Contents, OrphanWrites(o, c)
        PROVE  UntrustedShowsErrors'
    BY <1>10 DEF OrphanWrites
  <1>11. CASE ParseReport
    BY <1>11 DEF ParseReport, Parsed
  <1>12. CASE ParseGoJson
    BY <1>12 DEF ParseGoJson, Parsed, Written
  <1>13. CASE CleanUp
    BY <1>13 DEF CleanUp, RemoveCopy
  <1>14. CASE RunRegressionTests
    BY <1>14 DEF RunRegressionTests
  <1>15. CASE NextGrade
    BY <1>15 DEF NextGrade
  <1>16. CASE UNCHANGED vars
    BY <1>16 DEF vars
  <1>q. QED
    BY <1>1, <1>2, <1>3, <1>4, <1>5, <1>6, <1>7, <1>8, <1>9, <1>10, <1>11, <1>12, <1>13, <1>14, <1>15, <1>16
       DEF Next, Over

\* The inductive invariant holds in every run.
LEMMA Inductive == Spec => []IInv
<1>1. Init => IInv
  <2> SUFFICES ASSUME Init
               PROVE  IInv
    OBVIOUS
  <2> USE DEF Init
  <2>1. TypeOK
    <3>1. NoReport \in Report
      BY DEF NoReport, Report, Suites, Contents
    <3>2. result \in SuiteResult
      BY <3>1 DEF InvalidResult, SuiteResult
    <3>3. proc \in Processes
      BY DEF NoProcess, Processes, Contents
    <3>4. /\ reports \in [Suites -> Report]
          /\ orphans \subseteq [grade : 1..Grades, suite : Suites]
      BY <3>1
    <3>5. /\ runtime \in Runtimes /\ pc = "generate" /\ suite \in Suites
          /\ grade \in 1..Grades
      BY DEF Suites
    <3>6. hasEval \in BOOLEAN /\ injected \in BOOLEAN /\ leftover \in BOOLEAN
      BY Zenon
    <3>q. QED
      BY ONLY <3>2, <3>3, <3>4, <3>5, <3>6 DEF TypeOK
  <2>2. ReportInv /\ FreshInv
    BY DEF ReportInv, FreshInv, Ahead, NoReport
  <2>3. ParseInv /\ InjectedToRunOnly /\ TrustedIsOfItsRun
        /\ FailuresAreCounted /\ UntrustedShowsErrors
    BY DEF ParseInv, InjectedToRunOnly, TrustedIsOfItsRun, FailuresAreCounted,
           UntrustedShowsErrors
  <2>q. QED
    BY <2>1, <2>2, <2>3 DEF IInv
<1>2. IInv /\ [Next]_vars => IInv'
  BY TypeStep, ReportStep, FreshStep, ParseStep, InjectedStep, TrustedStep,
     FailuresStep, UntrustedStep DEF IInv
<1>q. QED
  BY <1>1, <1>2, PTL DEF Spec

\* Every variable keeps its type: the tree, the reports, the runners that
\* outlived their timeout and the last result.
THEOREM TypeCorrect == Spec => []TypeOK
<1>1. IInv => TypeOK
  BY DEF IInv
<1>q. QED
  BY Inductive, <1>1, PTL

\* The hidden suite is in the generator's tree only while it runs (run_test_suite's
\* finally), whichever way the run ends.
THEOREM InjectedOnlyToRun == Spec => []InjectedToRunOnly
<1>1. IInv => InjectedToRunOnly
  BY DEF IInv
<1>q. QED
  BY Inductive, <1>1, PTL

\* Trusted counts come from this run of this suite, or in the two ways named
\* from an earlier one (_run_and_parse and the parsers).
THEOREM TrustedHasItsRun == Spec => []TrustedIsOfItsRun
<1>1. IInv => TrustedIsOfItsRun
  BY DEF IInv
<1>q. QED
  BY Inductive, <1>1, PTL

\* A trusted result of its own run hides no failed test (the parsers).
THEOREM FailuresCount == Spec => []FailuresAreCounted
<1>1. IInv => FailuresAreCounted
  BY DEF IInv
<1>q. QED
  BY Inductive, <1>1, PTL

\* What could not be executed is not taken for passing, but for a guess from
\* stdout (invalid_suite_result and the parsers).
THEOREM UntrustedFails == Spec => []UntrustedShowsErrors
<1>1. IInv => UntrustedShowsErrors
  BY DEF IInv
<1>q. QED
  BY Inductive, <1>1, PTL
=============================================================================
