CONSTANT Grades = 3
SPECIFICATION Spec
INVARIANTS
    TypeOK
    InjectedToRunOnly
    TrustedIsOfItsRun
    FailuresAreCounted
    UntrustedShowsErrors
