SPECIFICATION Spec
CONSTANTS
    Tokens = {t1}
    Requests = {r1}
    Sweepers = {s1}
    Orphans = {}
    OverCeiling = {}
    MaxCrashes = 0
INVARIANTS ExpiredReportIsTrue
CHECK_DEADLOCK FALSE
