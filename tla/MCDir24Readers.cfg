SPECIFICATION RSpec
CONSTANTS
    BlkBits = 1
    LowBits = 1
    IdSpace = 4
    NGroups = 2
    QuarantineDepth = 1
    Routes <- MCRoutes
    NexthopIds = {1, 2}
    MaxBatch = 1
    Readers = {r1}
    Dsts <- MCDsts
INVARIANTS
    GracePeriod
    SlotRegular
    LookupAtomic
