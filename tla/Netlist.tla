------------------------------ MODULE Netlist ------------------------------
(***************************************************************************)
(* The flattened netlist as the crossing walk of domain.py reads it.       *)
(*                                                                         *)
(* A cell is [kind, pin]: "pin" gives the wires connected to each data     *)
(* port, a sequence with one entry per lane.  The clock pin is not there:  *)
(* the walk skips it.  What the code tells apart about a cell type is      *)
(* whether the walk enters it at all and whether it is lane aligned, so    *)
(* the types collapse to kinds:                                            *)
(*   "ff"        a flip-flop (is_ff_cell)                                  *)
(*   "scopeinfo" a $scopeinfo marker                                       *)
(*   "bitwise"   $and $or $xor $not $buf ... : lane aligned                *)
(*   "mux"       $mux, $_MUX_                : lane aligned                *)
(*   "pmux"      $pmux                       : lane aligned                *)
(*   "wide"      every other type: adders, comparisons, reductions ...     *)
(***************************************************************************)
EXTENDS Naturals, Sequences, FiniteSets, Reach

CONSTANTS
    Bit,        \* net bits, the integers of the Yosys JSON
    Const       \* a constant driver "0", "1", "x": not an int, never walked

ASSUME ConstAssumption == Const \notin Bit

Wire == Bit \cup {Const}
PinName == {"A", "B", "S", "Y"}
LaneAlignedKind == {"bitwise", "mux", "pmux"}
Kind == LaneAlignedKind \cup {"ff", "scopeinfo", "wide"}
Cell == [kind : Kind, pin : [PinName -> Seq(Wire)]]

(* The walk enters every cell but flops and scope markers. *)
Transit(c) == c.kind \notin {"ff", "scopeinfo"}

(* _cell_outputs: every driven bit of the Y port. *)
Outputs(c) == {b \in Bit : \E k \in DOMAIN c.pin["Y"] : c.pin["Y"][k] = b}

(* A port whose lanes the code believes to line up with the lanes of Y. *)
LanePort(c, p) ==
    /\ c.kind \in LaneAlignedKind
    /\ Len(c.pin[p]) = Len(c.pin["Y"])

(* A wrong variant of LaneTargets: no look at the width of the port. *)
LaneTargetsAnyWidth(c, p, i) ==
    {b \in Outputs(c) :
        c.kind \in LaneAlignedKind /\ i \in DOMAIN c.pin["Y"] => c.pin["Y"][i] = b}

(* _lane_targets: the output bits a bit on lane i of port p propagates to. *)
LaneTargets(c, p, i) ==
    {b \in Outputs(c) : LanePort(c, p) => c.pin["Y"][i] = b}

(* _build_bit_consumers: bit b is read by lane i of port p of cell c.  The *)
(* output port Y is listed too: only CLK is left out.                      *)
ReadAt(c, b, p, i) == i \in DOMAIN c.pin[p] /\ c.pin[p][i] = b

(* One step of the flop and port walks. *)
Fwd(cells, b) ==
    {ob \in Bit : \E x \in DOMAIN cells : \E p \in PinName :
        /\ Transit(cells[x])
        /\ \E i \in DOMAIN cells[x].pin[p] :
              ReadAt(cells[x], b, p, i) /\ ob \in LaneTargets(cells[x], p, i)}

(* One step of the boundary walk, which ignores lanes. *)
FwdAll(cells, b) ==
    {ob \in Bit : \E x \in DOMAIN cells : \E p \in PinName :
        /\ Transit(cells[x])
        /\ \E i \in DOMAIN cells[x].pin[p] : ReadAt(cells[x], b, p, i)
        /\ ob \in Outputs(cells[x])}

(***************************************************************************)
(* The reverse edges of _make_fanout_filter are stored as lists of         *)
(* predecessor bits: for each cell one list shared by all its outputs (the *)
(* ports that are not lane ports), and one list for each lane k.  A list   *)
(* is named <<cell, 0>> or <<cell, k>>.                                    *)
(***************************************************************************)
SharedList(c) ==
    {b \in Bit : \E p \in PinName :
        ~LanePort(c, p) /\ \E i \in DOMAIN c.pin[p] : c.pin[p][i] = b}

LaneList(c, k) ==
    {b \in Bit : \E p \in PinName :
        LanePort(c, p) /\ k \in DOMAIN c.pin[p] /\ c.pin[p][k] = b}

ListBits(cells, l) ==
    IF l[2] = 0 THEN SharedList(cells[l[1]]) ELSE LaneList(cells[l[1]], l[2])

(* rev[ob]: the lists to read when the backward walk stands on ob. *)
RevLists(cells, ob) ==
    LET driven == {x \in DOMAIN cells : Transit(cells[x]) /\ ob \in Outputs(cells[x])}
    IN  {<<x, 0>> : x \in driven}
        \cup UNION {{<<x, k>> : k \in {j \in DOMAIN cells[x].pin["Y"] :
                                         cells[x].pin["Y"][j] = ob}} : x \in driven}

(***************************************************************************)
(* What silicon does, stated without reference to the walk: which output   *)
(* lanes can change when lane i of port p changes.  A bitwise cell works   *)
(* lane by lane when its operand is as wide as Y (a narrower operand is    *)
(* extended: any lane may change).  A mux select steers every lane.        *)
(* A $pmux B port holds one word of Y's width after the other.             *)
(***************************************************************************)
Influences(c, p, i) ==
    LET w == Len(c.pin["Y"])
        word == p \in {"A", "B"} /\ c.kind \in LaneAlignedKind /\ Len(c.pin[p]) = w
        cases == p = "B" /\ c.kind = "pmux"
    IN  {k \in 1..w : /\ p # "Y"
                      /\ word => k = i
                      /\ cases => k = ((i - 1) % w) + 1}

Silicon(cells, b) ==
    {ob \in Bit : \E x \in DOMAIN cells : \E p \in PinName :
        /\ Transit(cells[x])
        /\ \E i \in DOMAIN cells[x].pin[p] :
              /\ cells[x].pin[p][i] = b
              /\ \E k \in Influences(cells[x], p, i) : cells[x].pin["Y"][k] = ob}

(* The select port of a lane-aligned cell is never mistaken for a data     *)
(* lane: it is one bit wide (every $mux), or not as wide as Y.             *)
SelectsStayWide(cells) ==
    \A x \in DOMAIN cells :
        LanePort(cells[x], "S") => Len(cells[x].pin["S"]) <= 1
=============================================================================
