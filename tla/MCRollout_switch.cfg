SPECIFICATION Spec
CONSTANTS
    v1 = v1
    v2 = v2
    v3 = v3
    Releases = {v1, v2, v3}
    MaxRuns = 2
    None = None
SYMMETRY Symmetries
PROPERTY
    MaintenanceSwitchPersists
CHECK_DEADLOCK FALSE
