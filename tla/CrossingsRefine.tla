--------------------------- MODULE CrossingsRefine ---------------------------
(***************************************************************************)
(* Crossings implements CrossingReport: levels, filter, visited sets and   *)
(* the three loops are invisible in the list that comes out.               *)
(***************************************************************************)
EXTENDS Crossings

(* The pairs of a design that cross.                                       *)
CrossingPairs(n) ==
    {p \in Source \X Sink : LandingBits(n, p[1], p[2], MaxHops) # {}}

Promise == INSTANCE CrossingReport WITH
    Designs <- Design,
    Crossing <- CrossingPairs,
    design <- net,
    found <- {p \in Source \X Sink : grouped[p[1]][p[2]].bits # {}},
    returned <- stage = "done"

(***************************************************************************)
(* Every behaviour of the search is one of the abstract list: no pair is   *)
(* reported that does not cross, none is withdrawn, none is missing at the *)
(* end, and the end comes.                                                 *)
(***************************************************************************)
ImplementsReport == Promise!ReportSpec
=============================================================================
