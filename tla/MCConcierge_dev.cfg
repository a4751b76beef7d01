SPECIFICATION Spec
CONSTANTS
    MaxRuns = 2
    MaxActive = 2
    MaxCommits = 2
    Cases = 1
    Edited = Edited
    Authors = FALSE
    Defects <- LastCase
    None = None
INVARIANT ReleasedFromItsSource
CHECK_DEADLOCK FALSE
