SPECIFICATION Spec
CONSTANTS
    MaxRuns = 3
    MaxActive = 1
    MaxCommits = 2
    Cases = 1
    Edited = Edited
    Authors = FALSE
    Defects <- LastCase
    None = None
INVARIANT ReleasedFromItsSource
CHECK_DEADLOCK FALSE
