SPECIFICATION Spec
CONSTANTS
    p1 = p1
    p2 = p2
    p3 = p3
    Pods = {p1, p2, p3}
    Ips = {12, 13}
    MaxPorts = 3
    MaxPlumbs = 1
    MaxCrashes = 1
    Faults = {"crash", "tornDelete"}
SYMMETRY Symmetry
INVARIANTS
    AddressesKept
