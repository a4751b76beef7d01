SPECIFICATION Spec
CONSTANTS
    MaxRuns = 4
    MaxActive = 2
    MaxCommits = 1
    Cases = 2
    Edited = Edited
    Authors = FALSE
    Defects <- LastCase
    None = None
INVARIANTS
    ReleasedInOrder
PROPERTY
    ImplementsPromotion
CHECK_DEADLOCK FALSE
