SPECIFICATION FairSpec
CONSTANTS
    p1 = p1
    p2 = p2
    p3 = p3
    Pods = {p1, p2, p3}
    Ips = {12}
    MaxPorts = 2
    MaxPlumbs = 1
    MaxCrashes = 1
    Faults = {"crash", "tornDelete", "lostReply", "lateFailure"}
PROPERTIES
    Collected
