CONSTANTS
    none = none
    unconstrained = unconstrained
    MaxCommands = 4
    Name <- MCName
    Pin <- MCPin
    None <- none
    Unconstrained <- unconstrained
    InputPort <- MCInputPort
    Script <- MCScript
SPECIFICATION Spec
INVARIANTS
    RootsArePrimary
    CyclesReportedExactly
    GeneratedSyncToMaster
    SeparationIsDeclared
    DeclaredAsyncIsKept
