SPECIFICATION Spec
CONSTANTS
    Years <- MCYears
    DaysIn <- MCDaysIn
    First <- MCFirst
    Expressions <- MCExpressions
    Zones <- MCZones
    Moments <- MCMoments
INVARIANTS StrictlyAfter
CHECK_DEADLOCK FALSE
