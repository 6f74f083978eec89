SPECIFICATION NSpec
CONSTANTS
    Ends <- MCEnds
    Ids = {1}
    MaxSlots = 2
    Requests <- RaceRequests
    Cpus = {p1, p2}
    Pods = {"c", "b1", "b6"}
    Node = "node"
    Flows <- RaceFlows
    Servers <- MCServers
    Ip6 = {"h6", "b6"}
    NonMasq = {"c", "b1", "v", "w", "h", "node"}
    MasqOn = TRUE
    EnforcedIn = {"c"}
    EnforcedOut = {"b1", "b6"}
    AllowIn = {}
    AllowOut = {}
    CtSize = 2
SYMMETRY CpuSymmetry
INVARIANTS
    PicksOwnBackend
    Paired
