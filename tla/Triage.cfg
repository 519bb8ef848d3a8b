CONSTANTS
    none = none
    None <- none
    NoReport = NoReport
    Truncated = Truncated
    Finding <- MCFinding
    Text <- MCText
    Input <- MCInput
SPECIFICATION Spec
INVARIANTS
    TypeOK
    CarriedWasTold
    FailsOnce
    SuccessHidesNothing
    PragmaWins
