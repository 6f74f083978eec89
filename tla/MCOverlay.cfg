SPECIFICATION Spec
CONSTANTS
    AddrLen = 4
    MaxSegs = 6
    MaxLabels = 3
    EncapHop = 64
    PipeTtl = 255
    None = None
    Bum = "ff"
    Reserved = "stp"
    Bd = 7
    MaxEsId = 2
    MaxHash = 1
    Nodes <- MCNodes
    Scenarios <- MCScenarios
INVARIANT BroadcastOnce
INVARIANT UnicastOnce
INVARIANT LeavesKeptIn
INVARIANT SlotRowsOwned
INVARIANT IdsInUse
INVARIANT LeafRows
