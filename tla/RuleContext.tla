---------------------------- MODULE RuleContext ----------------------------
(***************************************************************************)
(* What every rule of rules.py reads: the netlist with its flops and       *)
(* latches, the crossings the search found, and the indices _build_context *)
(* derives from them once per run.                                         *)
(*                                                                         *)
(* A design d is                                                           *)
(*   d.cells    combinational cells (see Netlist), each with its type      *)
(*   d.flops    flops: input pins, bits of Q, CLK bit, clock edge; clock,  *)
(*              what the tracer answers with the SDC at hand, and root,    *)
(*              what it answers without; polarity and value of the reset   *)
(*   d.latches  transparent latches: input pins and bits of Q              *)
(*   d.ports    input ports: bits, the clock the SDC types them with       *)
(*              (Untyped: the sentinel, NoClock: none), isClock, and the   *)
(*              reset polarity an attribute or a hints file declares       *)
(*   d.named    roots the SDC names otherwise (clock_for_port)             *)
(*   d.primary  for each generated clock, the clock it resolves to         *)
(*   d.undeclared  roots that are input ports without a create_clock       *)
(*   d.async    the pairs of clocks that filter_async keeps                *)
(*   d.period   the periods of the clocks the SDC declares                 *)
(*   d.tags     for each attribute, the bits of the nets that carry it     *)
(*   d.macros   instances of synchronizer macros (see CDC022)              *)
(* Cells, flops and latches share one name space; a name is a number, its  *)
(* place in the order of module.cells.                                     *)
(***************************************************************************)
EXTENDS Netlist, FiniteSetsExt, Functions

CONSTANTS
    NoClock,    \* an unresolved clock (None)
    Untyped,    \* UNCONSTRAINED_SENTINEL
    None,       \* no flop, no port, no driver
    MaxCone,    \* max_depth: cells a cone walk traverses
    MaxHops     \* max_hops: cells the crossing search traverses

ASSUME ConeAssumption == MaxCone \in Nat /\ MaxHops \in Nat
ASSUME NoneAssumption ==
    None \notin Nat \cup {"2ff", "handshake", "static", "pulse", "gray", "mux", "glitchless"}

CellInput == {"A", "B", "S"}
FlopInput == {"d", "en", "srst", "arst", "clr"}
LatchInput == {"d", "en"}

Flops(d) == DOMAIN d.flops
D(d, f) == d.flops[f].pin["d"]
Q(d, f) == d.flops[f].q
Bits(s) == Range(s) \cap Bit

(***************************************************************************)
(* ctx.domains.  run_all builds its context without clock_for_port and     *)
(* without the pin clocks, so the rules see roots where the crossings      *)
(* carry clocks.  Some rules rename a root before they compare.            *)
(***************************************************************************)
ClockOf(d, f) == IF f \in Flops(d) THEN d.flops[f].root ELSE NoClock
Clocked(d, f) == ClockOf(d, f) # NoClock
Named(d, root) == IF root \in DOMAIN d.named THEN d.named[root] ELSE root
Primary(d, clock) == IF clock \in DOMAIN d.primary THEN d.primary[clock] ELSE clock
Async(d, c1, c2) == {Named(d, c1), Named(d, c2)} \in d.async

(* user_sync_flop_names and its siblings: a flop is marked when one bit of *)
(* its Q lies on a net with the attribute.                                 *)
Marked(d, attr) == {f \in Flops(d) : Bits(Q(d, f)) \cap d.tags[attr] # {}}
UserSyncs(d) == Marked(d, "cdc_sync")
UserGrays(d) == Marked(d, "cdc_gray")
UserStatics(d) == Marked(d, "cdc_static")
UserHandshakes(d) == Marked(d, "cdc_handshake")
UserResetSyncs(d) == Marked(d, "reset_sync")
GlitchlessBits(d) == d.tags["glitchless"]

(* user_reset_polarity_overrides: the hints file wins over the attribute.  *)
Declared(d, p) == IF d.ports[p].hint # None THEN d.ports[p].hint ELSE d.ports[p].attr

(***************************************************************************)
(* bit_drivers: the one site that drives a bit, a cell's Y, or the Q of a  *)
(* flop or a latch.                                                        *)
(***************************************************************************)
CellDriving(d, b) == {x \in DOMAIN d.cells : b \in Range(d.cells[x].pin["Y"])}
StateDriving(d, b) ==
    {f \in Flops(d) : b \in Range(Q(d, f))}
    \cup {l \in DOMAIN d.latches : b \in Range(d.latches[l].q)}

(* Names are taken in the order of module.cells.                           *)
FirstOf(names) == IF names = {} THEN None ELSE Min(names)
LastOf(names) == IF names = {} THEN None ELSE Max(names)
CellDriver(d, b) == LastOf(CellDriving(d, b))
PortDriving(d, b) == {p \in DOMAIN d.ports : b \in d.ports[p].bits}

(***************************************************************************)
(* bit_consumers and reader_counts: every pin lane that reads a bit.       *)
(* Clock pins do not count, and neither does an output port.               *)
(***************************************************************************)
CellReaders(d, b) ==
    UNION {{<<x, p, i>> : i \in {j \in DOMAIN d.cells[x].pin[p] : d.cells[x].pin[p][j] = b}} :
              x \in DOMAIN d.cells, p \in CellInput}
FlopReaders(d, b) ==
    UNION {{<<f, p, i>> : i \in {j \in DOMAIN d.flops[f].pin[p] : d.flops[f].pin[p][j] = b}} :
              f \in Flops(d), p \in FlopInput}
LatchReaders(d, b) ==
    UNION {{<<l, p, i>> : i \in {j \in DOMAIN d.latches[l].pin[p] : d.latches[l].pin[p][j] = b}} :
              l \in DOMAIN d.latches, p \in LatchInput}
Readers(d, b) == CellReaders(d, b) \cup FlopReaders(d, b) \cup LatchReaders(d, b)

ReadOnce(d, b) == Cardinality(Readers(d, b)) = 1

(***************************************************************************)
(* Cones.  A walk goes level by level and expands a cell the first time it *)
(* meets it, at its shallowest depth, so what it sees is what lies within  *)
(* so many cells.                                                          *)
(***************************************************************************)
CellInputs(d, x) == UNION {Bits(d.cells[x].pin[p]) : p \in CellInput}
CellOutputs(d, x) == Bits(d.cells[x].pin["Y"])

FaninStep(d) == [b \in Bit |-> UNION {CellInputs(d, x) : x \in CellDriving(d, b)}]
FaninWithin(d, bits, n) == Within(FaninStep(d), bits \cap Bit, n)
Fanin(d, bits) == FaninWithin(d, bits, MaxCone)

(* _backward_flop_fanin: every flop or latch whose Q the walk meets.       *)
FaninFlops(d, bits) == UNION {StateDriving(d, b) : b \in Fanin(d, bits)}

(* _backward_fanin and _backward_port_fanin: the input ports it meets.     *)
FaninPorts(d, bits) ==
    UNION {PortDriving(d, b) : b \in {w \in Fanin(d, bits) :
                                        CellDriving(d, w) \cup StateDriving(d, w) = {}}}

FanoutStep(d) ==
    [b \in Bit |-> (UNION {CellOutputs(d, r[1]) : r \in CellReaders(d, b)})
                   \cup (UNION {Bits(d.latches[r[1]].q) : r \in LatchReaders(d, b)})]
FanoutWithin(d, bits, n) == Within(FanoutStep(d), bits \cap Bit, n)

(* _forward_reachable_cells: every cell that observes one of the bits; a   *)
(* flop is recorded and not crossed.                                       *)
FanoutCells(d, bits) ==
    {r[1] : r \in UNION {Readers(d, b) : b \in FanoutWithin(d, bits, MaxCone)}}

(***************************************************************************)
(* The crossings the rules are given: what find_crossings promises (module *)
(* CrossingReport) filtered by filter_async.                               *)
(***************************************************************************)
KeptPair(d, clock, dst) == {clock, d.flops[dst].clock} \in d.async

LaneStep(d) ==
    [b \in Bit |->
        UNION {IF LanePort(d.cells[r[1]], r[2]) THEN {d.cells[r[1]].pin["Y"][r[3]]} \cap Bit
               ELSE CellOutputs(d, r[1]) : r \in CellReaders(d, b)}]

CrossingsFrom(d, src, port, bits, clock) ==
    LET landed(f, k) == Within(LaneStep(d), bits \cap Bit, k) \cap Bits(D(d, f))
    IN  {[src |-> src, port |-> port, srcClock |-> clock, dst |-> f, dstClock |-> d.flops[f].clock,
          hops |-> Min({k \in 0..MaxHops : landed(f, k) # {}}),
          width |-> Cardinality(landed(f, MaxHops))] :
            f \in {g \in Flops(d) : KeptPair(d, clock, g) /\ landed(g, MaxHops) # {}}}

CrossingsOf(d) ==
    (UNION {CrossingsFrom(d, f, None, Bits(Q(d, f)), d.flops[f].clock) : f \in Flops(d)})
    \cup (UNION {CrossingsFrom(d, None, p, d.ports[p].bits, d.ports[p].clock) :
                    p \in {q \in DOMAIN d.ports : ~d.ports[q].isClock}})
=============================================================================
