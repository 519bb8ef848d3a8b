CONSTANTS
    a = a
    star = star
    eof = eof
    Rule <- MCRule
    Sources <- MCSources
    Eof <- eof
SPECIFICATION ScanSpec
INVARIANTS
    RegionsExact
    NewestReasonApplies
    OrderOfDisable
