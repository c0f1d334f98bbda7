SPECIFICATION Spec
CONSTANTS
    Schedules = {s1}
    Lanes = {l1, l2}
    Hands = {h1}
    Sizes = {1}
    MaxInstants = 2
    MaxFaults = 1
PROPERTIES NoFireLost
CHECK_DEADLOCK FALSE
