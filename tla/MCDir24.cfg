SPECIFICATION FairSpec
CONSTANTS
    BlkBits = 2
    LowBits = 1
    IdSpace = 4
    NGroups = 2
    QuarantineDepth = 1
    Routes <- MCRoutes
    NexthopIds = {1, 6}
    MaxBatch = 2
INVARIANTS
    TypeOK
    LongCountExact
    GroupsFollowRoutes
    PlanInv
    PoolSound
    AllocSucceeds
PROPERTIES
    ImplementsFibView
    CallCompletes
