----------------------------- MODULE ClockRules -----------------------------
(***************************************************************************)
(* Rules about the clock network and about clocks the SDC says nothing of, *)
(* the clock-network view of clock_network.py, and the rule about          *)
(* synchronizer macros (primitives.py).                                    *)
(***************************************************************************)
EXTENDS DataRules

CONSTANTS
    Heuristic,      \* cdc_010_heuristic: control pins recognised by name
    DefaultStages   \* XPM_DEFAULT_SYNC_FF

ASSUME HeuristicAssumption == Heuristic \in BOOLEAN /\ DefaultStages \in Nat

(***************************************************************************)
(* Sites: cells, flops and latches.  A clock may pass through any of them. *)
(***************************************************************************)
Sites(d) == (DOMAIN d.cells) \cup Flops(d) \cup (DOMAIN d.latches)
Driving(d, b) == CellDriving(d, b) \cup StateDriving(d, b)

DataInputs(d, x) ==
    IF x \in DOMAIN d.cells THEN CellInputs(d, x)
    ELSE IF x \in Flops(d) THEN UNION {Bits(d.flops[x].pin[p]) : p \in FlopInput}
    ELSE UNION {Bits(d.latches[x].pin[p]) : p \in LatchInput}
ClockInput(d, x) == IF x \in Flops(d) THEN {d.flops[x].clk} \cap Bit ELSE {}

(* Going back from some bits through every site, clock pins included.      *)
Upstream(d, bits) ==
    LET met[k \in 0..Cardinality(Sites(d))] ==
            IF k = 0 THEN UNION {Driving(d, b) : b \in bits}
            ELSE LET m == met[k - 1]
                 IN  m \cup UNION {Driving(d, b) :
                                     b \in UNION {DataInputs(d, x) \cup ClockInput(d, x) : x \in m}}
    IN  met[Cardinality(Sites(d))]

(* _clock_network_cells and _cell_to_downstream_flops.                     *)
ClockBits(d) == UNION {ClockInput(d, f) : f \in Flops(d)}
ClockNetwork(d) == Upstream(d, ClockBits(d))
ClockedThrough(d, x) == {f \in Flops(d) : x \in Upstream(d, ClockInput(d, f))}

(* check_cdc_008: a clock on a data pin outside the network.               *)
Forwarded(d) == ClockBits(d) \cup UNION {d.ports[p].bits \cap Bit :
                                            p \in {q \in DOMAIN d.ports : d.ports[q].isClock}}
CDC008(d) ==
    {Grouped("CDC-008", <<y[1]>>, y[2], "error") :
        y \in {z \in Forwarded(d) \X (Sites(d) \ ClockNetwork(d)) : z[1] \in DataInputs(d, z[2])}}

(***************************************************************************)
(* _control_pins_for: the select of a mux, the enable of a flop or latch,  *)
(* and, recognised by its name alone, the enable of a library clock gate   *)
(* or of a flop with a reset.                                              *)
(***************************************************************************)
Control(d, x) ==
    IF x \in DOMAIN d.cells
    THEN IF \/ d.cells[x].type = "mux"
            \/ Heuristic /\ d.cells[x].type = "gate" THEN d.cells[x].pin["S"] ELSE <<>>
    ELSE IF x \in DOMAIN d.latches THEN d.latches[x].pin["en"]
    ELSE IF Heuristic \/ \A p \in {"arst", "clr", "srst"} : d.flops[x].pin[p] = <<>>
         THEN d.flops[x].pin["en"] ELSE <<>>

GatedInputs(d, x) ==
    IF x \in DOMAIN d.cells
    THEN UNION {Bits(d.cells[x].pin[p]) : p \in IF Control(d, x) = <<>> THEN CellInput ELSE {"A", "B"}}
    ELSE IF x \in DOMAIN d.latches THEN Bits(d.latches[x].pin["d"])
    ELSE ClockInput(d, x)
         \cup UNION {Bits(d.flops[x].pin[p]) :
                        p \in FlopInput \ (IF Control(d, x) = <<>> THEN {} ELSE {"en"})}

(* _clock_input_domains_for, given the clock of each register.             *)
GatedClocks(d, x, clockOf) ==
    ({clockOf[f] : f \in FaninFlops(d, GatedInputs(d, x)) \cap Flops(d)} \ {NoClock})
    \cup {d.ports[p].clock : p \in {q \in FaninPorts(d, GatedInputs(d, x)) : d.ports[q].isClock}}

(* The registers that steer site x from a domain none of whose clocks it   *)
(* passes on.                                                              *)
Steering(d, x, clockOf) ==
    {f \in FaninFlops(d, Bits(Control(d, x))) \cap Flops(d) :
        /\ clockOf[f] # NoClock
        /\ GatedClocks(d, x, clockOf) # {}
        /\ \A c \in GatedClocks(d, x, clockOf) : c # clockOf[f] /\ Async(d, clockOf[f], c)}

Roots(d) == [f \in Flops(d) |-> ClockOf(d, f)]
Clocks(d) == [f \in Flops(d) |-> d.flops[f].clock]

(* user_glitchless_clock_mux_bits: the exemption of CDC-010, and the       *)
(* scheme clock_network_synchronizer gives to the view.                    *)
Glitchless(d, x) == Bits(Control(d, x)) \cap GlitchlessBits(d) # {}

(* A wrong variant of CDC010: no look at the user's promise.               *)
CDC010NoPromise(d) ==
    UNION {{Grouped("CDC-010", <<f>>, x, "error") : f \in Steering(d, x, Roots(d))} :
              x \in ClockNetwork(d)}

(* check_cdc_010: a clock switched by a register of another domain.        *)
CDC010(d) ==
    UNION {{Grouped("CDC-010", <<f>>, x, "error") : f \in Steering(d, x, Roots(d))} :
              x \in {y \in ClockNetwork(d) : ~Glitchless(d, y)}}

(* find_clock_network_crossings: one record for each register steering a   *)
(* site and each other register clocked through it.                        *)
ClockCrossings(d) ==
    UNION {{[src |-> p[1], dst |-> p[2], cell |-> x,
             kind |-> IF x \in DOMAIN d.cells /\ d.cells[x].type = "mux"
                      THEN "mux-select" ELSE "gate-enable",
             synchronizer |-> IF Glitchless(d, x) THEN "glitchless" ELSE None] :
                p \in {q \in Steering(d, x, Clocks(d)) \X ClockedThrough(d, x) : q[1] # q[2]}} :
              x \in ClockNetwork(d)}

(* check_cdc_021: registers on an input port that is no declared clock.    *)
CDC021(d) ==
    {Grouped("CDC-021", <<root>>, Min({f \in Flops(d) : ClockOf(d, f) = root}), "error") :
        root \in {ClockOf(d, f) : f \in Flops(d)} \cap d.undeclared}

(***************************************************************************)
(* check_cdc_022 and sync_depths: a macro is [xpm, handshake, stages],     *)
(* stages[1] the value of DEST_SYNC_FF and stages[2] that of SRC_SYNC_FF,  *)
(* None where the instance sets none.  Only a handshake has the second.    *)
(***************************************************************************)
DepthParams(m) == IF m.xpm /\ m.handshake THEN {1, 2} ELSE {1}
Stages(m, p) == IF m.stages[p] # None THEN m.stages[p] ELSE IF m.xpm THEN DefaultStages ELSE None
CDC022(d) ==
    {Grouped("CDC-022", <<y[2]>>, y[1], "warning") :
        y \in {z \in (DOMAIN d.macros) \X {1, 2} :
                 LET m == d.macros[z[1]]
                 IN  /\ z[2] \in DepthParams(m) /\ Stages(m, z[2]) # None
                     /\ Stages(m, z[2]) < RequiredDepth}}
=============================================================================
