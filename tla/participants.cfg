CONSTANTS
    c1 = c1
    c2 = c2
    c3 = c3
    Client = {c1, c2}
    WhispererName = whisperer
    InTurn = TRUE
    MaxMoves = 2
    MaxRemovals = 1
    MaxWaiting = 1
    None = None
SPECIFICATION Spec
INVARIANTS TypeOK HubAgrees StatusSettles AnnouncementsSettle
SYMMETRY Clients
CHECK_DEADLOCK FALSE
