SPECIFICATION Spec
CONSTANTS
    MaxIterations = 3
INVARIANTS
    TypeOK
    PassIsEarned
    OneIterationRecorded
CHECK_DEADLOCK FALSE
