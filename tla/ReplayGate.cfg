SPECIFICATION Spec
CONSTANTS
    Loop = loop
    Hands = {}
    MaxEvents = 1
    Refused = {}
    Limit = 1
    MaxFaults = 0
PROPERTIES HeldStaysHeld
CHECK_DEADLOCK FALSE
