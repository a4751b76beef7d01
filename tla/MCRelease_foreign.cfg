SPECIFICATION Spec
CONSTANTS
    j1 = j1
    j2 = j2
    j3 = j3
    v5 = v5
    v6 = v6
    v7 = v7
    imageA = imageA
    imageB = imageB
    authA = authA
    authB = authB
    Jobs = {j1, j2}
    Versions = {v5, v6, v7}
    Images = {imageA, imageB}
    Contracts = {authA}
    InitialVersion = v5
    Portal = Portal
    Split = Split
    Gone = Gone
    Passed = {v6, v7}
    GoldenPassed = {v7}
    Declared = {v6}
    Discipline = "serial"
    MaxInterventions = 1
INVARIANTS
    RollbackRefusesForeignRoute
CHECK_DEADLOCK FALSE
