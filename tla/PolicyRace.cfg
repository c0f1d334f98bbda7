SPECIFICATION MCSpec
CONSTANTS
    Tokens = {t1, t2}
    Requests = {r1, r2}
    Sweepers = {s1, s2}
    Orphans = {}
    OverCeiling = {}
    MaxCrashes = 1
    SoloTokens = {t1, t2}
    SoloRequest = r1
    SoloOrphans = {t2}
    SoloOverCeiling = {t1}
INVARIANTS ConfirmedWasEarned BulkClaimsAreTrue SoloDenialIsReal
PROPERTIES FirstWriteWins OverIsOver LapsedIsReaped ReapIsAnnounced RefinesOneShot
CHECK_DEADLOCK FALSE
