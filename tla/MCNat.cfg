SPECIFICATION NSpec
CONSTANTS
    Ends <- MCEnds
    Ids = {1, 2}
    MaxSlots = 2
    Requests <- MCRequests
    Cpus = {p1}
    Pods = {"c", "b1", "b6"}
    Node = "node"
    Flows <- MCFlows
    Servers <- MCServers
    Ip6 = {"h6", "b6"}
    NonMasq = {"c", "b1", "v", "w", "h", "node"}
    MasqOn = TRUE
    EnforcedIn = {"c"}
    EnforcedOut = {"b1", "b6"}
    AllowIn = {}
    AllowOut = {}
    CtSize = 3
INVARIANTS
    NatTypeOK
    SlotsExact
    RepliesRestored
    RepliesPass
