---------------------------- MODULE MCSdcReader ----------------------------
(***************************************************************************)
(* Three files in one process: one that evaluates, one with a Tcl error,   *)
(* one with a runaway loop.  Two ticks of limit and two of margin: a       *)
(* worker can arm its limits before, at and after the end of the margin.   *)
(***************************************************************************)
EXTENDS SdcReader

CONSTANTS fine, error, loop, probe, nobody

MCFile == {fine, error, loop}
MCBehaviour ==
    [f \in MCFile |-> IF f = fine THEN "fine" ELSE IF f = error THEN "error" ELSE "loop"]
=============================================================================
