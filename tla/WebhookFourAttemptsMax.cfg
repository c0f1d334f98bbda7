SPECIFICATION Spec
CONSTANTS
    Hooks = {h1}
    Workers = {w1}
    Loop = loop
    MaxDeliveries = 1
    Batch = 1
    MaxReplays = 0
    MaxFaults = 0
INVARIANTS FourAttemptsMax
