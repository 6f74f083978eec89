SPECIFICATION Spec
CONSTANTS
    AddrLen = 4
    MaxSegs = 6
    MaxLabels = 3
    EncapHop = 64
    PipeTtl = 255
    None = None
    MaxHash = 1
    Nodes <- MCNodes
    Scenarios <- MCScenarios
INVARIANT SegmentsInOrder
INVARIANT DeliveredAsSent
INVARIANT WellFormed
PROPERTY Arrives
