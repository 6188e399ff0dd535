CONSTANTS
    Server = {1, 2}
    MaxPackets = 2
    Newline = {}
    MaxFaults = 0
    MaxZeros = 1
    NoState = NoState
SPECIFICATION Spec
INVARIANT SuspendedProcessed
CHECK_DEADLOCK FALSE
