CONSTANTS
    c1 = c1
    c2 = c2
    none = none
    idle = idle
    const = const
    nodata = nodata
    NoData <- nodata
    Bit <- MCBit
    Const <- const
    Clock <- MCClock
    NoClock <- none
    Source <- MCSource
    Sink <- MCSink
    Idle <- idle
    MaxHops = 2
    Design <- MCDesign
SPECIFICATION HwSpec
INVARIANTS
    FilterExact
    RecordsExact
    HwInv
    NoSilentCrossing
PROPERTIES
    FirstLandingIsNearest
    ImplementsReport
