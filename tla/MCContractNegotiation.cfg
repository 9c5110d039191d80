CONSTANTS
    MaxRounds = 3
    Criterion = {c1, c2}
SPECIFICATION FairSpec
INVARIANTS
    TypeOK
    ReturnedIsReviewed
    FilesTellTheStory
PROPERTY Terminates
