----------------------------- MODULE ResetRules -----------------------------
(***************************************************************************)
(* Reset domains (reset_domain.py) and the rules about them (RDC-001 to    *)
(* RDC-008 of rules.py): where the reset of a flop comes from, which flops *)
(* are stages of a reset synchronizer, what is reported.                   *)
(***************************************************************************)
EXTENDS DataRules

CONSTANTS
    One,            \* the constant driver "1"; any other constant ends in 0
    MinStages,      \* min_depth of a reset synchronizer
    ExtraStages     \* stages the walk follows beyond min_depth

ASSUME StageAssumption == /\ MinStages \in Nat \ {0} /\ ExtraStages \in Nat
                          /\ One \notin Bit

(***************************************************************************)
(* assign_reset_domains: type and source of a reset.  At most one of the   *)
(* pins is connected, and a reset is as wide as its first bit.             *)
(***************************************************************************)
AsyncReset(d, f) == IF d.flops[f].pin["arst"] # <<>> THEN d.flops[f].pin["arst"]
                    ELSE d.flops[f].pin["clr"]
ResetType(d, f) == IF AsyncReset(d, f) # <<>> THEN "async"
                   ELSE IF d.flops[f].pin["srst"] # <<>> THEN "sync" ELSE "none"
ResetPin(d, f) == IF ResetType(d, f) = "async" THEN AsyncReset(d, f) ELSE d.flops[f].pin["srst"]

Source(d, b) ==
    LET ports == PortDriving(d, b)
        states == StateDriving(d, b)
    IN  CASE b \notin Bit -> [name |-> b, kind |-> "constant"]
          [] b \in Bit /\ ports # {} -> [name |-> Min(ports), kind |-> "port"]
          [] b \in Bit /\ ports = {} /\ states # {} -> [name |-> Max(states), kind |-> "inferred"]
          [] OTHER -> [name |-> None, kind |-> "comb"]
ResetSource(d, f) == Source(d, ResetPin(d, f)[1])

From(d, f, type, kind) == ResetType(d, f) = type /\ ResetSource(d, f).kind = kind

(* bit_drivers: the cell, register or latch recorded for a bit.            *)
DriversOf(d, b) == CellDriving(d, b) \cup StateDriving(d, b)

(* A wrong variant of FedBy: the stages may have different resets.         *)
FedByAnyReset(d, f) ==
    LET b == D(d, f)[1]
        g == LastOf(DriversOf(d, b))
    IN  IF /\ Len(D(d, f)) = 1 /\ b \in Bit
           /\ g \in Flops(d) /\ ResetType(d, g) # "none" /\ Clocked(d, g)
           /\ ClockOf(d, g) = ClockOf(d, f)
        THEN g ELSE None

(* A wrong variant of WalkLength: one stage too few.                       *)
WalkLengthShort == MinStages + ExtraStages - 1

(***************************************************************************)
(* _trace_reset_sync_chain: from f back through D, flop by flop, as long   *)
(* as clock and reset source stay; a chain only if the last D is constant. *)
(***************************************************************************)
FedBy(d, f) ==
    LET b == D(d, f)[1]
        g == LastOf(DriversOf(d, b))
    IN  IF /\ Len(D(d, f)) = 1 /\ b \in Bit
           /\ g \in Flops(d) /\ ResetType(d, g) # "none" /\ Clocked(d, g)
           /\ ClockOf(d, g) = ClockOf(d, f) /\ ResetSource(d, g) = ResetSource(d, f)
        THEN g ELSE None

WalkLength == MinStages + ExtraStages

ConstantFed(d, f) == Len(D(d, f)) = 1 /\ D(d, f)[1] \notin Bit

ResetChain(d, f) ==
    LET walk[k \in 1..WalkLength] ==
            IF k = 1 THEN <<f>>
            ELSE LET c == walk[k - 1]
                     g == FedBy(d, c[Len(c)])
                 IN  IF ConstantFed(d, c[Len(c)]) \/ g = None THEN c ELSE Append(c, g)
        chain == walk[WalkLength]
    IN  IF ConstantFed(d, chain[Len(chain)]) THEN chain ELSE <<>>

ChainTails(d) == {f \in Flops(d) : /\ ResetType(d, f) = "async" /\ Clocked(d, f)
                                   /\ Len(ResetChain(d, f)) >= MinStages}

(* find_reset_synchronizers: every stage of every chain, and the flops the *)
(* user vouches for.                                                       *)
ResetSyncs(d) == (UNION {Range(ResetChain(d, f)) : f \in ChainTails(d)}) \cup UserResetSyncs(d)

(* iter_reset_sync_chains: for each head the tail furthest from it.        *)
ChainHead(d, f) == ResetChain(d, f)[Len(ResetChain(d, f))]
LongestTails(d) ==
    {Min({f \in ChainTails(d) :
            /\ ChainHead(d, f) = h
            /\ \A g \in ChainTails(d) :
                  ChainHead(d, g) = h => Len(ResetChain(d, g)) <= Len(ResetChain(d, f))}) :
        h \in {ChainHead(d, f) : f \in ChainTails(d)}}

(***************************************************************************)
(* The rules                                                               *)
(***************************************************************************)
Bare(d) == {f \in Flops(d) : ResetType(d, f) # "none"} \ ResetSyncs(d)

(* check_rdc_001 and check_rdc_003: a register of another domain resets f; *)
(* the flops it resets are reported together.                              *)
Tree(rule, edges) ==
    {Grouped(rule, <<e[1], e[2]>>, Min({x[3] : x \in {y \in edges : y[1] = e[1] /\ y[2] = e[2]}}),
             "error") : e \in edges}
ForeignEdges(d, pin) ==
    {<<e[1], ClockOf(d, e[2]), e[2]>> :
        e \in {p \in Flops(d) \X Flops(d) :
                 /\ p[1] \in FaninFlops(d, Bits(d.flops[p[2]].pin[pin]))
                 /\ Clocked(d, p[1]) /\ Clocked(d, p[2])
                 /\ ClockOf(d, p[1]) # ClockOf(d, p[2])
                 /\ Async(d, ClockOf(d, p[1]), ClockOf(d, p[2]))}}
RDC001(d) == Tree("RDC-001", ForeignEdges(d, "arst"))
RDC003(d) == Tree("RDC-003", ForeignEdges(d, "srst"))

(* check_rdc_002: the asserted level of f is not the one its producer      *)
(* takes in reset, or not the one declared for the port.                   *)
ProducerLevel(d, p) ==
    IF p \in Flops(d) /\ ResetType(d, p) = "async" THEN d.flops[p].value ELSE None
Mismatch(d, f) ==
    \/ /\ From(d, f, "async", "inferred")
       /\ ResetSource(d, f).name \notin ResetSyncs(d)
       /\ ProducerLevel(d, ResetSource(d, f).name) \notin {None, d.flops[f].polarity}
    \/ /\ From(d, f, "async", "port")
       /\ Declared(d, ResetSource(d, f).name) \notin {None, d.flops[f].polarity}
RDC002(d) ==
    Tree("RDC-002", {<<ResetSource(d, f).name, d.flops[f].polarity, f>> :
                        f \in {g \in Bare(d) : Mismatch(d, g)}})

(* check_rdc_004, check_rdc_005 and check_rdc_006: logic drives the reset. *)
Behind(d, f) == CellDriver(d, ResetPin(d, f)[1])
MuxDriven(d, f) == Behind(d, f) # None /\ d.cells[Behind(d, f)].type \in {"mux", "pmux"}
Combed(d) == {f \in Bare(d) : From(d, f, "async", "comb")}
Local(rule, fs, severity) == {Finding(rule, None, f, severity) : f \in fs}

ResetFlops(d, f) == FaninFlops(d, Bits(ResetPin(d, f)))
ResetPorts(d, f) == FaninPorts(d, Bits(ResetPin(d, f)))
RDC004(d) == Local("RDC-004", {f \in Combed(d) : ResetFlops(d, f) # {}}, "error")
RDC005(d) == Local("RDC-005", {f \in Combed(d) : /\ ~MuxDriven(d, f) /\ ResetFlops(d, f) = {}
                                                 /\ Cardinality(ResetPorts(d, f)) >= 2}, "warning")
RDC006(d) == Local("RDC-006", {f \in Combed(d) : MuxDriven(d, f)}, "warning")

(* check_rdc_007: the chain shifts in the asserted level.                  *)
Level(w) == IF w = One THEN "high" ELSE "low"
RDC007(d) ==
    Local("RDC-007", {f \in LongestTails(d) :
                        Level(D(d, ChainHead(d, f))[1]) = d.flops[f].polarity}, "error")

(* check_rdc_008: a port resets flops of a clock directly although the     *)
(* design has a synchronizer for it.                                       *)
RDC008(d) ==
    LET direct == {f \in Bare(d) : From(d, f, "async", "port") /\ Clocked(d, f)}
        synced == {ResetSource(d, f).name :
                     f \in {g \in ResetSyncs(d) : /\ ResetType(d, g) # "none" /\ Clocked(d, g)
                                                  /\ ResetSource(d, g).kind = "port"}}
        group(f) == {g \in direct : ResetSource(d, g) = ResetSource(d, f)
                                    /\ ClockOf(d, g) = ClockOf(d, f)}
    IN  {Grouped("RDC-008", <<ResetSource(d, f).name, ClockOf(d, f)>>, Min(group(f)), "error") :
            f \in {g \in direct : ResetSource(d, g).name \in synced /\ Cardinality(group(g)) >= 2}}

(***************************************************************************)
(* find_reset_crossings: the view published for other tools.               *)
(***************************************************************************)
ResetCrossings(d) ==
    LET other(f) == /\ ResetSource(d, f).kind = "inferred"
                    /\ Clocked(d, f) /\ ClockOf(d, ResetSource(d, f).name) # NoClock
                    /\ ClockOf(d, f) # ClockOf(d, ResetSource(d, f).name)
        declared(f) == /\ ResetSource(d, f).kind = "port"
                       /\ Declared(d, ResetSource(d, f).name) \notin {None, d.flops[f].polarity}
    IN  {[flop |-> f, kind |-> "comb-driven"] : f \in {g \in Bare(d) : ResetSource(d, g).kind = "comb"}}
        \cup {[flop |-> f, kind |-> IF ResetType(d, f) = "async" THEN "async-deassert"
                                    ELSE "sync-crossing"] : f \in {g \in Bare(d) : other(g)}}
        \cup {[flop |-> f, kind |-> "polarity-mismatch"] : f \in {g \in Bare(d) : declared(g)}}
=============================================================================
