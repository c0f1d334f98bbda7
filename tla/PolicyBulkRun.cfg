SPECIFICATION InsistentSpec
CONSTANTS
    Tokens = {t1}
    Requests = {r1}
    Sweepers = {}
    Orphans = {}
    OverCeiling = {}
    MaxCrashes = 0
PROPERTIES BulkApprovedStillRuns
CHECK_DEADLOCK FALSE
