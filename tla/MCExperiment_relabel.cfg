\* A reader and one redeployment while the runs are being graded.
SPECIFICATION Spec
CONSTANTS
    original = original
    r1 = r1
    Original = original
    Readers = {r1}
    Turns = 1
    MaxGeneration = 1
CHECK_DEADLOCK FALSE
INVARIANT GradedByTheNamed
