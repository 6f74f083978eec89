SPECIFICATION RSpec
CONSTANTS
    Eps = {1, 2}
    Identities = {7, 8}
    Protos = {6}
    Ports = {80}
    Requests <- MCRequests
    MaxRules = 4
    MaxEps = 1
    Readers = {r1}
    Packets <- MCPackets
INVARIANTS
    TypeOK
    FlipAtomic
    NoOrphans
    InactiveSound
    UnovertakenVerdict
