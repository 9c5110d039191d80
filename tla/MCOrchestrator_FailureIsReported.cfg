CONSTANTS
    EvaluatorCount = 2
    MaxIterations = 1
    MaxSignals = 0
SPECIFICATION Spec
INVARIANT FailureIsReported
