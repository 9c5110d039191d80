\* Everything a grade can meet.
CONSTANTS
    Criteria <- MCCriteria
    OffRubric <- MCOffRubric
    Threshold <- MCThreshold
    Sheets <- MCSheets
    Outcomes <- MCOutcomes
SPECIFICATION Spec
INVARIANTS
    TypeOK
    PassOverFailures
    RegressionIsFail
    EvidenceKept
    RubberStampFlagged
    VerdictHasReason
PROPERTY MitigationsHarden
