\* One reader beside the original; no symmetry, because of the liveness property.
SPECIFICATION Spec
CONSTANTS
    original = original
    r1 = r1
    Original = original
    Readers = {r1}
    Turns = 2
    MaxGeneration = 1
CHECK_DEADLOCK FALSE
INVARIANTS
    TypeOK
    EvidenceOutlives
    ResumedAsOne
    NamedTruly
PROPERTY EveryProcessEnds
