\* Two evaluators, as many as reconciliation looks at, a retry, and a Ctrl-C
\* that can interrupt the handler of the one before it.
CONSTANTS
    EvaluatorCount = 2
    MaxIterations = 2
    MaxSignals = 2
SPECIFICATION FairSpec
INVARIANTS
    TypeOK
    MarkedAfterStatus
    ArchivedIsGraded
    PassIsEarned
    FailSpendsIterations
    CleanupFires
PROPERTIES
    RetriesAreInformed
    
    Terminates
    PipelineIsMarked
    
