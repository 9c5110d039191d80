SPECIFICATION Spec
CONSTANTS
    a = a
    b = b
    out = out
    Files <- MCFiles
    Skipped <- MCSkipped
    OutputFile = out
    MaxRuns = 2
    Evaluators = 2
INVARIANTS
    TypeOK
    HandoffIsWhole
    SuccessIsCommitted
    GradedIsArchived
PROPERTIES
    RunEnds
