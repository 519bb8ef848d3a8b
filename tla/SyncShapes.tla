----------------------------- MODULE SyncShapes -----------------------------
(***************************************************************************)
(* The structural recognisers of rules.py and pulse.py: what counts as a   *)
(* synchronizer chain, a gated bus, a gray-coded source, a pulse, a        *)
(* toggle, a handshake.                                                    *)
(***************************************************************************)
EXTENDS RuleContext

CONSTANTS
    GateBuffers,    \* _GATING_BUF_BUDGET
    GrayHops,       \* max_back_hops of _is_gray_encoded_source
    FeedbackHops    \* max_flop_hops of _has_dst_to_src_feedback

ASSUME BudgetAssumption == GateBuffers \in Nat /\ GrayHops \in Nat /\ FeedbackHops \in Nat

AllConst(s) == \A i \in DOMAIN s : s[i] \notin Bit
AllBits(s) == \A i \in DOMAIN s : s[i] \in Bit

(***************************************************************************)
(* Chains of registers                                                     *)
(***************************************************************************)

(* _constant_leg_reset_mux_data_bits: D is exactly the output of one $mux, *)
(* nothing else reads that output, and exactly one leg is constant.  The   *)
(* other leg, or the empty sequence.                                       *)
DrivesAlone(d, x, y) ==
    /\ x # None /\ d.cells[x].type = "mux" /\ d.cells[x].pin["Y"] = y
    /\ Len(d.cells[x].pin["A"]) = Len(y) /\ Len(d.cells[x].pin["B"]) = Len(y)
    /\ \A b \in Bits(y) : ReadOnce(d, b)
MovingLeg(a, b) == IF AllConst(a) = AllConst(b) THEN <<>> ELSE IF AllConst(b) THEN a ELSE b
LegOf(d, x, y) ==
    IF DrivesAlone(d, x, y) THEN MovingLeg(d.cells[x].pin["A"], d.cells[x].pin["B"]) ELSE <<>>
ResetMuxLeg(d, f) ==
    IF D(d, f) = <<>> THEN <<>> ELSE LegOf(d, CellDriver(d, D(d, f)[1]), D(d, f))

(* d_bit_to_single_bit_flop: of several one-bit flops that sample a bit,   *)
(* the last one in the netlist is the one remembered.                      *)
Samplers(d, b) == {f \in Flops(d) : b \in Bit /\ D(d, f) = <<b>>}
SingleBitFlop(d, b) == LastOf(Samplers(d, b))

(* srst_mux_data_bit_to_single_bit_flop: the one-bit flops whose reset mux *)
(* has the bit on its data leg.                                            *)
BehindResetMux(d, b) ==
    FirstOf({f \in Flops(d) : /\ Len(D(d, f)) = 1 /\ SingleBitFlop(d, D(d, f)[1]) = f
                              /\ ResetMuxLeg(d, f) = <<b>>})

Sampler(d, b) == IF Samplers(d, b) = {} THEN BehindResetMux(d, b) ELSE SingleBitFlop(d, b)

(* A wrong variant of NextStage: the reader may be in any domain.          *)
NextStageAnyClock(d, f, clock) ==
    IF Len(Q(d, f)) = 1 /\ Len(D(d, f)) = 1 /\ ReadOnce(d, Q(d, f)[1])
    THEN Sampler(d, Q(d, f)[1]) ELSE None

(* One extension of a chain: the flop of the clock that alone reads f.     *)
NextStage(d, f, clock) ==
    LastOf({g \in Flops(d) : /\ Len(Q(d, f)) = 1 /\ Len(D(d, f)) = 1
                             /\ Q(d, f)[1] \in Bit /\ ReadOnce(d, Q(d, f)[1])
                             /\ ClockOf(d, g) = clock
                             /\ g = Sampler(d, Q(d, f)[1])})

(* _sync_chain_flops: the chain from head, no flop twice.                  *)
Extended(chain, next) == IF next \in {None} \cup Range(chain) THEN chain ELSE Append(chain, next)
Chain(d, head, clock) ==
    LET grown[k \in 0..Cardinality(Flops(d))] ==
            IF k = 0 THEN <<head>>
            ELSE LET c == grown[k - 1]
                 IN  Extended(c, NextStage(d, c[Len(c)], clock))
    IN  grown[Cardinality(Flops(d))]

(* _packed_shift_register_depth: one register that shifts, D[i] = Q[j] on  *)
(* all lanes but one.  0 where the code answers None.                      *)
ShiftData(leg, data) == IF leg = <<>> THEN data ELSE leg
Entering(q, data) == {i \in DOMAIN data : data[i] \notin Range(q)}
Taking(data, b) == {i \in DOMAIN data : data[i] = b}
Shifts(d, f, q, data) ==
    /\ Len(q) >= 2 /\ Len(D(d, f)) = Len(q)
    /\ AllBits(q) /\ AllBits(data) /\ IsInjective(q)
    /\ \A j \in DOMAIN q : Cardinality(Taking(data, q[j])) <= 1
    /\ Cardinality(Entering(q, data)) = 1
ShiftDepth(d, q, data) ==
    LET walk[k \in 1..Len(q)] ==
            IF k = 1 THEN Entering(q, data)
            ELSE UNION {Taking(data, q[j]) : j \in {i \in walk[k - 1] : ReadOnce(d, q[i])}}
    IN  Cardinality({k \in 1..Len(q) : walk[k] # {}})
PackedAs(d, f, q, data) ==
    IF Shifts(d, f, q, data) /\ ShiftDepth(d, q, data) >= 2 THEN ShiftDepth(d, q, data) ELSE 0
PackedDepth(d, f) == PackedAs(d, f, Q(d, f), ShiftData(ResetMuxLeg(d, f), D(d, f)))

(* _sync_chain_depth: registers in a row, each read by the next and by     *)
(* nothing else.                                                           *)
ChainDepth(d, head, clock) ==
    IF PackedDepth(d, head) > 0 THEN PackedDepth(d, head) ELSE Len(Chain(d, head, clock))

(* _chain_has_inter_stage_comb: a cell that reads head and drives a flop   *)
(* of head's domain that is not just behind its own reset mux.             *)
GatedStages(d, head) ==
    LET b == Q(d, head)[1]
    IN  {g \in Flops(d) :
            /\ Len(Q(d, head)) = 1 /\ b \in Bit /\ Clocked(d, head)
            /\ g # head
            /\ \E r \in CellReaders(d, b) : \E y \in CellOutputs(d, r[1]) : SingleBitFlop(d, y) = g
            /\ ClockOf(d, g) = ClockOf(d, head)
            /\ BehindResetMux(d, b) # g}
GateBetweenStages(d, head) == GatedStages(d, head) # {}

(* _is_multibit_sync_first_stage: another flop takes Q lane for lane.      *)
WideFirstStage(d, f, clock) ==
    /\ Len(Q(d, f)) >= 2 /\ Len(D(d, f)) = Len(Q(d, f)) /\ AllBits(Q(d, f))
    /\ \E g \in Flops(d) \ {f} : D(d, g) = Q(d, f) /\ ClockOf(d, g) = clock

(***************************************************************************)
(* Buses                                                                   *)
(***************************************************************************)

(* _trace_through_bus_buffers: the cell that drives a bit, looking through *)
(* a few bit-aligned buffers.                                              *)
BusDriver(d, b) ==
    LET passes(x, w) == /\ d.cells[x].type \in {"not", "buf"}
                        /\ Len(d.cells[x].pin["A"]) = Len(d.cells[x].pin["Y"])
                        /\ \E i \in DOMAIN d.cells[x].pin["Y"] :
                              d.cells[x].pin["Y"][i] = w /\ d.cells[x].pin["A"][i] \in Bit
        before(x, w) == d.cells[x].pin["A"][CHOOSE i \in DOMAIN d.cells[x].pin["Y"] :
                                               d.cells[x].pin["Y"][i] = w]
        stand[k \in 0..GateBuffers] ==
            IF k = 0 THEN b
            ELSE LET w == stand[k - 1]
                     x == CellDriver(d, w)
                 IN  IF x # None /\ passes(x, w) THEN before(x, w) ELSE w
    IN  CellDriver(d, stand[GateBuffers])

AllInDomain(d, fs, clock) == fs # {} /\ \A f \in fs : ClockOf(d, f) = clock

(* _is_gated_bus_crossing: the destination loads only when flops of its    *)
(* own domain say so, by an enable or by a $mux in front of D.             *)
Gated(d, c) ==
    LET f == c.dst
        drivers == {BusDriver(d, b) : b \in Bits(D(d, f))}
    IN  \/ /\ Bits(d.flops[f].pin["en"]) # {}
           /\ AllInDomain(d, FaninFlops(d, Bits(d.flops[f].pin["en"])), c.dstClock)
        \/ /\ Cardinality(drivers) = 1
           /\ \A x \in drivers : /\ x # None
                                 /\ d.cells[x].type = "mux"
                                 /\ AllInDomain(d, FaninFlops(d, Bits(d.cells[x].pin["S"])), c.dstClock)

(* _is_gray_encoded_source: an $xor of a word with itself shifted by one   *)
(* lies in the fanin of D.                                                 *)
GrayCell(cell) ==
    LET a == cell.pin["A"]
        b == cell.pin["B"]
        n == Len(a)
    IN  /\ cell.type = "xor" /\ n >= 2 /\ Len(b) = n
        /\ \A i \in 1..(n - 1) : a[i + 1] \in Bit /\ a[i + 1] = b[i]
        /\ b[n] \notin Bit
GrayCoded(d, f) ==
    \E w \in FaninWithin(d, Bits(D(d, f)), GrayHops) :
        \E x \in CellDriving(d, w) : GrayCell(d.cells[x])

(* _has_dst_to_src_feedback: going back from the source register, through  *)
(* registers of its own domain, one comes to the destination's domain.     *)
FlopInputs(d, f) == UNION {Bits(d.flops[f].pin[p]) : p \in FlopInput}
Feedback(d, src, srcClock, dstClock) ==
    LET met[k \in 0..FeedbackHops] ==
            IF k = 0 THEN {src}
            ELSE LET m == met[k - 1]
                 IN  m \cup UNION {FaninFlops(d, FlopInputs(d, f)) :
                                     f \in {g \in m \cap Flops(d) : g = src \/ ClockOf(d, g) = srcClock}}
    IN  \E f \in met[FeedbackHops] \ {src} : ClockOf(d, f) = dstClock

(***************************************************************************)
(* Events (pulse.py)                                                       *)
(***************************************************************************)

(* A not cell whose only input is w drives b.                              *)
Inverts(d, b, w) ==
    LET x == CellDriver(d, b)
    IN  x # None /\ d.cells[x].type = "not" /\ d.cells[x].pin["A"] = <<w>>

(* A cell of that type with one-bit operands v and w, in either order,     *)
(* drives b.                                                               *)
Combines(d, b, type, v, w) ==
    LET x == CellDriver(d, b)
    IN  /\ x # None /\ d.cells[x].type = type
        /\ \/ d.cells[x].pin["A"] = <<v>> /\ d.cells[x].pin["B"] = <<w>>
           \/ d.cells[x].pin["A"] = <<w>> /\ d.cells[x].pin["B"] = <<v>>

(* classify_d_pin_shape: D = Q1 & ~Q2, where Q2 is Q1 one cycle later.     *)
PulseSource(d, f, clock) ==
    /\ Len(D(d, f)) = 1
    /\ \E v, w \in Bit : \E g, h \in Flops(d) :
          /\ Combines(d, D(d, f)[1], "and", v, w)
          /\ v \in Range(Q(d, g)) /\ ClockOf(d, g) = clock /\ Len(D(d, g)) = 1
          /\ ClockOf(d, h) = clock /\ D(d, h) = <<v>>
          /\ \E u \in Range(Q(d, h)) : Inverts(d, w, u)

(* classify_toggle_d_pin: D = en ? ~Q : Q.                                 *)
ToggleSource(d, f) ==
    /\ Len(D(d, f)) = 1 /\ Len(Q(d, f)) = 1
    /\ \E w \in Bit : /\ Combines(d, D(d, f)[1], "mux", Q(d, f)[1], w)
                      /\ Inverts(d, w, Q(d, f)[1])

(* _has_xor_tail_pulse_recovery: the last register of the chain is read by *)
(* one more register and by an $xor of the two.                            *)
Delayed(d, b, clock) ==
    {g \in Flops(d) : /\ ClockOf(d, g) = clock /\ D(d, g) = <<b>>
                      /\ Len(Q(d, g)) = 1 /\ Q(d, g)[1] \in Bit}
TailOf(d, chain, clock) ==
    /\ Len(chain) >= 2
    /\ \E b \in Bit :
          /\ Q(d, chain[Len(chain)]) = <<b>>
          /\ \E g \in {LastOf(Delayed(d, b, clock))} \ {None}, x \in DOMAIN d.cells :
                d.cells[x].type = "xor" /\ {b, Q(d, g)[1]} \subseteq CellInputs(d, x)
XorTail(d, head, clock) == TailOf(d, Chain(d, head, clock), clock)
=============================================================================
