CONSTANTS
    fine = fine
    error = error
    loop = loop
    probe = probe
    nobody = nobody
    File <- MCFile
    Behaviour <- MCBehaviour
    TimeLimit = 2
    Margin = 2
    Probe <- probe
    Nobody <- nobody
SPECIFICATION Spec
INVARIANTS
    TypeOK
    NoWorkerLeftBehind
    CaptureIsWhole
    FallbackIsSaid
PROPERTIES
    InterpLimitFirst
    EveryFileIsRead
