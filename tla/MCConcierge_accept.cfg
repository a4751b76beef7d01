SPECIFICATION Spec
CONSTANTS
    MaxRuns = 4
    MaxActive = 1
    MaxCommits = 1
    Cases = 1
    Edited = Edited
    Authors = FALSE
    Defects <- LastCase
    None = None
INVARIANT AcceptedWasExercised
CHECK_DEADLOCK FALSE
