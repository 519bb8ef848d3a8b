CONSTANTS
    ra = ra
    rb = rb
    rc = rc
    none = none
    None <- none
    Design <- MCDesign
    MaxDepth = 3
SPECIFICATION Spec
CHECK_DEADLOCK FALSE
INVARIANTS
    NothingSevered
    SummaryIsItsOwn
    ReconvergenceKept
    QuietIsSynchronised
