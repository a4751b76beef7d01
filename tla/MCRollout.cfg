SPECIFICATION Spec
CONSTANTS
    v1 = v1
    v2 = v2
    v3 = v3
    Releases = {v1, v2, v3}
    MaxRuns = 4
    None = None
SYMMETRY Symmetries
INVARIANTS
    ReleasesRetained
    VersionsServeAsMade
    JobRunsAccepted
PROPERTY
    ConnectedReleasesKept
CHECK_DEADLOCK FALSE
