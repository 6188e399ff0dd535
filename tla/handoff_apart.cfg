CONSTANTS
    s1 = s1
    s2 = s2
    c1 = c1
    c2 = c2
    r1 = r1
    None = None
    Server = {s1, s2}
    Conv = {c1}
    Request = {r1}
    Host <- OneHost
    Obj = {o1, o2, o3, o4}
    Faults = {"wait", "fetch", "getConversation", "startPubsub", "addParticipant", "save", "push", "remove", "crash"}
    MaxFaults = 1
SPECIFICATION ApartSpec
INVARIANTS TypeOK OnePlace HubFeedsSession
PROPERTIES SaveNeverOverwrites ImplementsOwnership
CHECK_DEADLOCK FALSE
