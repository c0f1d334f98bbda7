SPECIFICATION MCSpec
CONSTANTS
    Hooks = {h1}
    Workers = {w1, w2}
    Loop = loop
    MaxDeliveries = 3
    Batch = 2
    MaxReplays = 1
    MaxFaults = 1
INVARIANTS NeverGivesUpEarly SuccessWasAcked
PROPERTIES SettledStaysSettled EveryDeliverySettles
CHECK_DEADLOCK FALSE
