SPECIFICATION Spec
CONSTANTS
    p1 = p1
    p2 = p2
    p3 = p3
    Pods = {p1, p2, p3}
    Ips = {12, 13}
    MaxPorts = 2
    MaxPlumbs = 2
    MaxCrashes = 1
    Faults = {"kill", "crash"}
SYMMETRY Symmetry
INVARIANTS
    TypeOK
    AddressesKept
    Reachable
    RoutesFollowOwners
