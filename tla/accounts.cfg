CONSTANTS
    r1 = r1
    r2 = r2
    e1 = e1
    p1 = p1
    p2 = p2
    v1 = v1
    v2 = v2
    n1 = n1
    n2 = n2
    k1 = k1
    Request = {r1, r2}
    Email = {e1}
    Profile = {p1, p2}
    Conv = {v1, v2}
    Name = {n1, n2}
    Client = {k1}
    FirstName = n1
    Faults = {"command", "crash"}
    MaxFaults = 1
    None = None
SPECIFICATION Spec
INVARIANTS TypeOK MappingsResolve DeletedLeavesNothing EverythingIsReachable PatchesKept LaunchIsKept
SYMMETRY Renamed
CHECK_DEADLOCK FALSE
