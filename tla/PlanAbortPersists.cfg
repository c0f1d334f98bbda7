SPECIFICATION Spec
CONSTANTS
    Plans = {p1}
    Requests = {r1}
    NoRun = none
    Orphan = orphan
    Groups = 1
    MaxCrashes = 0
INVARIANTS AbortPersists
CHECK_DEADLOCK FALSE
