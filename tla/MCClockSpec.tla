---------------------------- MODULE MCClockSpec ----------------------------
(***************************************************************************)
(* Files of up to MaxCommands commands over the clocks m and x (primary),  *)
(* g and h (generated); ports pm, px and a port that is called g like the  *)
(* clock.  The commands include redeclarations, chains, cycles, unknown    *)
(* masters, statements the handlers ignore and explicit overrides.         *)
(***************************************************************************)
EXTENDS ClockSpec, FiniteSetsExt

CONSTANTS none, unconstrained, MaxCommands

MCName == {"m", "x", "g", "h", "pm", "px"}
MCPin == {"u/q", "v/q"}
MCInputPort == {"pm", "px", "g"}

Primary(n, ports) == [op |-> "create_clock", name |-> n, ports |-> ports]
Derived(n, master, source, pins) ==
    [op |-> "create_generated_clock", name |-> n, ports |-> {}, master |-> master,
     source |-> source, pins |-> pins]
Groups(kinds, groups) == [op |-> "set_clock_groups", kinds |-> kinds, groups |-> groups]
FalsePath(from, to, specific) ==
    [op |-> "set_false_path", from |-> from, to |-> to, specific |-> specific]
Delay(port, clock) == [op |-> "set_delay", port |-> port, clock |-> clock]

MCCommand == {
    Primary("m", {"pm"}), Primary("x", {"px"}), Primary("h", {"pm", "px"}),
    Primary(none, {}), Derived(none, "m", "pm", {}),
    Derived("g", "m", "pm", {"u/q"}), Derived("g", none, "pm", {"v/q"}),
    Derived("h", "g", "px", {"u/q"}), Derived("g", "h", "pm", {"v/q"}), Derived("m", "g", "px", {}),
    Groups({"async"}, <<{"m"}, {"x"}>>), Groups({"async"}, <<{"g"}, {"m", "x"}>>),
    Groups({"exclusive"}, <<{"m", "x"}, {"g"}>>), Groups({"async", "exclusive"}, <<{"h"}, {"x"}>>),
    Groups({}, <<{"m"}, {"x"}>>), Groups({"async"}, <<{"m"}, {}>>),
    FalsePath({"m", "h"}, {"m", "x"}, FALSE), FalsePath({"m"}, {"x"}, TRUE),
    FalsePath({}, {"x"}, FALSE),
    Delay("g", "m"), Delay("px", "m"), Delay("px", none)}

MCScript == UNION {kSubset(k, MCCommand) : k \in 3..MaxCommands}
=============================================================================
