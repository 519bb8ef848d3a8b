--------------------------- MODULE CrossingReport ---------------------------
(***************************************************************************)
(* What find_crossings promises its callers: a list that grows with pairs  *)
(* that really cross, that is complete when it is returned, and that is    *)
(* returned.                                                               *)
(***************************************************************************)
CONSTANTS
    Designs,
    Crossing(_)     \* the pairs of a design that cross

VARIABLES
    design,
    found,          \* the pairs reported so far
    returned

reportVars == <<design, found, returned>>

ReportInit ==
    /\ design \in Designs
    /\ found = {}
    /\ returned = FALSE

Report ==
    /\ ~returned
    /\ found' # found
    /\ found \subseteq found' /\ found' \subseteq Crossing(design)
    /\ UNCHANGED <<design, returned>>

Return ==
    /\ ~returned /\ returned'
    /\ found = Crossing(design)
    /\ UNCHANGED <<design, found>>

ReportSpec ==
    /\ ReportInit
    /\ [][Report \/ Return]_reportVars
    /\ <>returned
=============================================================================
