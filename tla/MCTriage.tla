------------------------------ MODULE MCTriage ------------------------------
(***************************************************************************)
(* Two findings that share a baseline key (one cell, reached on two paths),*)
(* one in a file whose name contains the name of theirs and one without a  *)
(* location.  The waiver lists cover each by a pragma, by the file, by     *)
(* both or by none.                                                        *)
(***************************************************************************)
EXTENDS Triage

CONSTANT none

OneStageP == [rule |-> "CDC-001", cell |-> "a", path |-> "p -> a", message |-> "one stage",
              severity |-> "warning", file |-> "rtl/fifo.sv", line |-> 3]
OneStageQ == [OneStageP EXCEPT !.path = "q -> a"]
ResetB == [rule |-> "RDC-001", cell |-> "b", path |-> none, message |-> "reset",
           severity |-> "error", file |-> "rtl/async_fifo.sv", line |-> none]
Joins == [rule |-> "CDC-005", cell |-> none, path |-> none, message |-> "reconverges",
          severity |-> "warning", file |-> none, line |-> none]
MCFinding == {OneStageP, OneStageQ, ResetB, Joins}

(* The design as it is edited between the runs. *)
MCDesign == {{}, {OneStageP}, {OneStageP, OneStageQ}, {OneStageQ, ResetB}, MCFinding}

MCText == {"a", "b", "p -> a", "q -> a", "one stage", "reset", "reconverges",
           "rtl/fifo.sv", "rtl/async_fifo.sv"}

(* The basename fifo.sv occurs in both paths. *)
PragmaAt(rule, start, end) ==
    [rule_pattern |-> rule, regex |-> {"rtl/fifo.sv", "rtl/async_fifo.sv"},
     origin |-> "rtl/fifo.sv", start_line |-> start, end_line |-> end]
Line(rule, hits) ==
    [rule_pattern |-> rule, regex |-> hits, origin |-> none, start_line |-> none, end_line |-> none]

MCWaivers == {
    <<<<>>, <<>>>>,
    <<<<PragmaAt("CDC-001", 2, none)>>, <<Line("*", {"one stage", "reset"})>>>>,
    <<<<PragmaAt("CDC-001", 1, 3)>>, <<Line("CDC-007", {"b"}), Line("*", {"q -> a"})>>>>,
    <<<<PragmaAt("CDC-005", 1, none)>>, <<Line("CDC-005", {"reconverges"})>>>>}

MakeInput(finding, waivers, flags) ==
    {[findings |-> f, extra_waivers |-> w[1], waivers |-> w[2], strict |-> x[1], baseline |-> x[2],
      output |-> x[3], sdc |-> x[4], no_findings |-> x[5]] : f \in finding, w \in waivers, x \in flags}

MCFlags == (BOOLEAN \X BOOLEAN \X BOOLEAN \X {TRUE} \X {FALSE})
           \cup {<<FALSE, TRUE, TRUE, FALSE, FALSE>>, <<FALSE, TRUE, TRUE, TRUE, TRUE>>}

MCInput == MakeInput(MCDesign, MCWaivers, MCFlags)
=============================================================================
