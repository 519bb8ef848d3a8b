CONSTANTS
    c1 = c1
    c2 = c2
    c3 = c3
    none = none
    const = const
    Bit <- MCBit
    Const <- const
    Root <- MCRoot
    NoRoot <- none
    Clock <- MCClock
    NoClock <- none
    Flop <- MCFlop
    Network <- MCNetwork
    Budget <- MCBudget
SPECIFICATION Spec
INVARIANTS
    DomainFeedsFlop
    CleanWalkIsExact
    DeeperLosesOnlyToCombine
