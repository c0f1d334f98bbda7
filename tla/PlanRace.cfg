SPECIFICATION MCSpec
CONSTANTS
    Plans = {p1}
    Requests = {r1, r2}
    NoRun = none
    Orphan = orphan
    Groups = 2
    MaxCrashes = 1
    SoloPlans = {p1, p2}
    SoloRequest = r1
INVARIANTS CompletedRanThrough RanWasApproved RunningHasARun
PROPERTIES SoleRunStaysSole RunningIsTemporary RefinesLifecycle
CHECK_DEADLOCK FALSE
