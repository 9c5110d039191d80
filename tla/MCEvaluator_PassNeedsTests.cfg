CONSTANTS
    Criteria <- MCCriteria
    OffRubric <- MCOffRubric
    Threshold <- MCThreshold
    Sheets <- MCSheets
    Outcomes <- MCOutcomes
SPECIFICATION Spec
INVARIANT PassNeedsTests
