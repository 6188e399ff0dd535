CONSTANTS
    Server = {1, 2}
    MaxPackets = 2
    Newline = {2}
    MaxFaults = 1
    MaxZeros = 1
    NoState = NoState
SPECIFICATION FairSpec
INVARIANTS TypeOK TranscribedInOrder HandedOverOnce OneListener TakenIsKept TranscriptsExpire
PROPERTY TranscriberStops
CHECK_DEADLOCK FALSE
