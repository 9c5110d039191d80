CONSTANT Grades = 2
SPECIFICATION Spec
INVARIANT TrustedIsFresh
