SPECIFICATION Spec
CONSTANTS
    Callers = {c1}
    NoOne = free
    MaxTime = 2
    DayLength = 1
    MaxLines = 2
    MaxFaults = 0
INVARIANTS HonestDaysVerify
CHECK_DEADLOCK FALSE
