SPECIFICATION Spec
CONSTANTS
    Discrs = {1, 2}
    Watched = {1}
    Locals = {a}
    None = None
    Setups <- MCSetups
    MaxCalls = 3
    MaxFlaps = 1
INVARIANT
    LocalsHeld
PROPERTY
    Settles
CHECK_DEADLOCK FALSE
