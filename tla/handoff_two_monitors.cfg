CONSTANTS
    s1 = s1
    s2 = s2
    c1 = c1
    c2 = c2
    r1 = r1
    None = None
    Server = {s1, s2}
    Conv = {c1}
    Request = {}
    Host <- OneHost
    Obj = {o1, o2}
    Faults = {}
    MaxFaults = 0
SPECIFICATION Spec
INVARIANT SingleMonitor
CHECK_DEADLOCK FALSE
