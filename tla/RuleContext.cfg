CONSTANTS
    ca = ca
    cb = cb
    cc = cc
    const = const
    one = one
    none = none
    noclock = noclock
    untyped = untyped
    Bit <- MCBit
    Const <- const
    One <- one
    None <- none
    NoClock <- noclock
    Untyped <- untyped
    MaxCone = 4
    MaxHops = 2
    GateBuffers = 1
    GrayHops = 2
    FeedbackHops = 2
    RequiredDepth = 3
    Cascade = 3
    MinStages = 2
    ExtraStages = 1
    Heuristic = TRUE
    DefaultStages = 4
    Design <- MCRenamed
SPECIFICATION Spec
CHECK_DEADLOCK FALSE
INVARIANT FollowedUpIsAccepted
