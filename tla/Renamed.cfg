CONSTANTS
    ra = ra
    rb = rb
    rc = rc
    none = none
    None <- none
    Design <- MCRenamed
    MaxDepth = 3
SPECIFICATION Spec
CHECK_DEADLOCK FALSE
INVARIANTS
    SameAnswerInside
