SPECIFICATION Spec
CONSTANTS
    Criteria <- MCCriteria
    Threshold <- MCThreshold
    Results <- MCResults
    MaxReplays = 1
INVARIANTS
    TypeOK
    VerdictMatchesScores
    BugsSurvive
    RowsExplainVerdict
CHECK_DEADLOCK FALSE
