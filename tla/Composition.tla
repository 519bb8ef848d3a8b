---------------------------- MODULE Composition ----------------------------
(***************************************************************************)
(* Hierarchical composition: compose_boundaries walks the instances of     *)
(* blackboxed modules in a design, summarises each module once per clock   *)
(* context, and the crossing search runs over the summaries; what could    *)
(* not be summarised, or not be trusted after the search, is told as       *)
(* CDC-BBX.                                                                *)
(*                                                                         *)
(* A design is a graph of one-bit pins <<owner, name>>: the registers of   *)
(* the parent, owned by "top", and the pins of the instances.              *)
(*   type    instance -> module type         body    module type -> body   *)
(*   wire    pairs of pins that data reaches through the parent's cells    *)
(*   clk     clock pin -> [from, hops]: the root or the instance output    *)
(*           that feeds it, and how many cells lie between                 *)
(*   family  root -> the clock it is synchronous to; roots of different    *)
(*           families are declared asynchronous                            *)
(*   named   the roots whose clock carries the name of its port            *)
(*   prims   the module types sanctioned as synchronizers                  *)
(* A body is the same graph of one module:                                 *)
(*   grey    its cells are visible           in, out   its ports           *)
(*   kind    input -> "clock" (a listed name), "clocklike", "data"         *)
(*   role    input -> "dest", "src", "none" (by name, for primitives)      *)
(*   srcOut  the outputs a primitive drives from its source side           *)
(*   flop    register -> [pin, hops]: its clock port and the cells between *)
(*   wire, logic, ctl   data straight to D or out, through cells, or to a  *)
(*                      control pin of a register                          *)
(*   sync    the registers tagged as a synchronizer by the user            *)
(*   forward output -> [pin, hops] where an output carries a clock         *)
(***************************************************************************)
EXTENDS Naturals, Sequences, FiniteSets, FiniteSetsExt, Functions

CONSTANTS
    Design,
    MaxDepth,    \* the clock trace's budget, one for the whole run
    None

VARIABLES
    design,
    phase,       \* "compose", "searched", "refused", "done"
    todo,        \* instances not looked at yet
    seen,        \* the cache: <<type, pin roots>> -> summary, None if declined
    boundaries,  \* instance -> summary
    declined,    \* module types declined for some instance
    crossings,
    told         \* instances with a CDC-BBX finding

vars == <<design, phase, todo, seen, boundaries, declined, crossings, told>>

----------------------------------------------------------------------------
(* The clocks of an instance                                               *)

Insts(d) == DOMAIN d.type
Body(d, i) == d.body[d.type[i]]
Root(d) == DOMAIN d.family
Async(d, a, b) == d.family[a] # d.family[b]

(* trace_clock_root: a root before the budget ends; an opaque output is no *)
(* root.                                                                   *)
Trace(d, c) ==
    IF d.clk[c].from \in Root(d) /\ d.clk[c].hops < MaxDepth
    THEN d.clk[c].from ELSE None

(* A wrong variant of ClockPins: the boundary walk on one cell less than   *)
(* the search.                                                             *)
ClockPinsNearer(d, i) ==
    {p \in Body(d, i).in :
        /\ <<i, p>> \in DOMAIN d.clk
        /\ \/ Body(d, i).kind[p] = "clock"
           \/ /\ Body(d, i).kind[p] = "clocklike" /\ Trace(d, <<i, p>>) # None
              /\ d.clk[<<i, p>>].hops + 1 < MaxDepth}

(* A listed name is a clock pin wherever its trace ends, another           *)
(* clock-like name only with a declared clock behind it.                   *)
ClockPins(d, i) ==
    {p \in Body(d, i).in :
        /\ <<i, p>> \in DOMAIN d.clk
        /\ \/ Body(d, i).kind[p] = "clock"
           \/ Body(d, i).kind[p] = "clocklike" /\ Trace(d, <<i, p>>) # None}

PinRoots(d, i) == [p \in ClockPins(d, i) |-> Trace(d, <<i, p>>)]
RootsOf(pr) == Range(pr) \ {None}

(* is_single_clock_subtree compares the clocks that go by these names.     *)
SingleClock(d, pr) ==
    \A a, b \in RootsOf(pr) : a = b \/ (~Async(d, a, b) /\ {a, b} \subseteq d.named)

(* The clock pins any instance of a type has proved.                       *)
ClockPinsOfType(d, t) ==
    UNION {ClockPins(d, i) : i \in {j \in Insts(d) : d.type[j] = t}}

(* _clock_sink_bits: the pins something is clocked through.                *)
ClockSinks(d) ==
    {c \in DOMAIN d.clk :
        c[1] = "top" \/ c[2] \in ClockPinsOfType(d, d.type[c[1]])}

(* clock_driving_output_ports: an output that feeds one of them, looked    *)
(* for through one cell more than the trace goes.                          *)
DrivesClock(d, i) ==
    \E c \in ClockSinks(d) :
        /\ \E o \in Body(d, i).out : d.clk[c].from = <<i, o>>
        /\ d.clk[c].hops <= MaxDepth

ForwardsClock(d, t) ==
    \E i \in Insts(d) : d.type[i] = t /\ DrivesClock(d, i)

----------------------------------------------------------------------------
(* The analysis of a module on its own internals, b its body and pr the    *)
(* roots its clock pins carry                                              *)

Flops(b) == DOMAIN b.flop
Data(b) == b.wire \cup b.logic
Feeds(b) == Data(b) \cup b.ctl

(* A register the parent's clocks do not reach has no domain.              *)
InnerClock(b, pr, f) ==
    IF b.flop[f].pin \in DOMAIN pr /\ b.flop[f].hops < MaxDepth
    THEN pr[b.flop[f].pin] ELSE None

Resolved(b, pr) == \A f \in Flops(b) : InnerClock(b, pr, f) # None

(* The cells that read a net; an output port is not one.                   *)
Readers(b, s) ==
    Cardinality({f \in Flops(b) : <<s, f>> \in b.wire})
    + Cardinality({f \in Flops(b) : <<s, f>> \in b.ctl})
    + Cardinality({t \in Flops(b) \cup b.out : <<s, t>> \in b.logic})

NextStage(b, pr, f, clock) ==
    IF Readers(b, f) # 1 THEN {}
    ELSE {k \in Flops(b) : <<f, k>> \in b.wire /\ InnerClock(b, pr, k) = clock}

(* One more stage, never one twice.                                        *)
Longer(b, pr, clock, c) ==
    LET next == NextStage(b, pr, c[Len(c)], clock) \ Range(c)
    IN  IF next = {} THEN c ELSE Append(c, CHOOSE k \in next : TRUE)

(* _sync_chain_flops from h                                                *)
Chain(b, pr, h) ==
    LET Upto[n \in 0..Cardinality(Flops(b))] ==
            IF n = 0 THEN <<h>> ELSE Longer(b, pr, InnerClock(b, pr, h), Upto[n - 1])
    IN  Upto[Cardinality(Flops(b))]

Only(S) == IF Cardinality(S) = 1 THEN CHOOSE x \in S : TRUE ELSE None

Heads(b, p) == {f \in Flops(b) : <<p, f>> \in Feeds(b)}
Launchers(b, o) == {f \in Flops(b) : <<f, o>> \in Data(b)}
Domains(b, pr, F) == {InnerClock(b, pr, f) : f \in F}

(* A wrong variant of FirstStage: the port may be an output as well.       *)
FirstStageOrOut(b, p) ==
    IF Readers(b, p) # 1 THEN None
    ELSE Only({f \in Flops(b) : <<p, f>> \in b.wire})

(* _prove_input_synchroniser: the register that alone takes the port, on D.*)
FirstStage(b, p) ==
    IF \/ \E o \in b.out : <<p, o>> \in b.wire
       \/ Readers(b, p) # 1
    THEN None
    ELSE Only({f \in Flops(b) : <<p, f>> \in b.wire})

SyncDepth(b, pr, p) ==
    IF FirstStage(b, p) = None THEN 0 ELSE Len(Chain(b, pr, FirstStage(b, p)))
UserSynchronised(b, p) == FirstStage(b, p) \in b.sync

(* The cells that see what a net carries, its first gate or register.      *)
Seers(b, s) ==
    {<<"flop", f>> : f \in {g \in Flops(b) : <<s, g>> \in Feeds(b)}}
    \cup {<<"gate", t>> : t \in {u \in Flops(b) \cup b.out : <<s, u>> \in b.logic}}

Cone(b, pr, p) ==
    LET chains == {Chain(b, pr, h) : h \in Heads(b, p)}
    IN  (UNION {Seers(b, c[Len(c)]) : c \in chains})
        \ {<<"flop", f>> : f \in UNION {Range(c) : c \in chains}}

(* _reconvergent_input_ports                                               *)
ReconvergentInputs(b, pr) ==
    {pq \in kSubset(2, {p \in b.in \ DOMAIN pr :
                            Only(Domains(b, pr, Heads(b, p))) # None}) :
        \A p, q \in pq : Cone(b, pr, p) \cap Cone(b, pr, q) # {}}

(* derive_sub_spec copies the clock groups, which know clocks by their     *)
(* names, and declares the pins' roots, which are names of ports.          *)
AsyncInside(d, a, z) == Async(d, a, z) /\ {a, z} \subseteq d.named

(* The asynchronous crossings the analysis of the module reports.          *)
InnerCrossings(d, b, pr) ==
    {e \in Data(b) \cap (Flops(b) \X Flops(b)) :
        AsyncInside(d, InnerClock(b, pr, e[1]), InnerClock(b, pr, e[2]))}

----------------------------------------------------------------------------
(* Boundary summaries                                                      *)

InputFacts(b, pr, p, clock) ==
    IF b.grey THEN [clock |-> clock, depth |-> SyncDepth(b, pr, p),
                    user |-> UserSynchronised(b, p)]
              ELSE [clock |-> clock, depth |-> 0, user |-> FALSE]

(* _summarise_single_clock: every port on the one clock, which of several  *)
(* synchronous roots being whichever the set yields first.                 *)
SingleClockSummaries(d, b, pr) ==
    {[ports |-> [o \in b.out |-> clk],
      inputs |-> [p \in b.in \ DOMAIN pr |-> InputFacts(b, pr, p, clk)],
      analysed |-> b.grey,
      found |-> IF b.grey THEN InnerCrossings(d, b, pr) ELSE {},
      reconvergent |-> IF b.grey THEN ReconvergentInputs(b, pr) ELSE {}] :
        clk \in IF RootsOf(pr) = {} THEN {None} ELSE RootsOf(pr)}

(* _summarise_multi_clock: each port on the clock that captures or         *)
(* launches it; an input captured by two clocks declines the module.       *)
MultiClockSummary(d, b, pr) ==
    [ports |-> [o \in b.out |-> Only(Domains(b, pr, Launchers(b, o)))],
     inputs |-> [p \in {q \in b.in \ DOMAIN pr : Heads(b, q) # {}} |->
                    InputFacts(b, pr, p, Only(Domains(b, pr, Heads(b, p))))],
     analysed |-> TRUE,
     found |-> InnerCrossings(d, b, pr),
     reconvergent |-> ReconvergentInputs(b, pr)]

Ambiguous(b, pr) ==
    \E p \in b.in \ DOMAIN pr : Cardinality(Domains(b, pr, Heads(b, p))) > 1

(* summarise_subtree: the summaries the code may come up with, None where  *)
(* it declines.                                                            *)
Summaries(d, t, pr) ==
    LET b == d.body[t] IN
    CASE b.grey /\ ~Resolved(b, pr) -> {None}
      [] SingleClock(d, pr) /\ (b.grey => Resolved(b, pr)) ->
            SingleClockSummaries(d, b, pr)
      [] ~SingleClock(d, pr) /\ b.grey /\ Resolved(b, pr) ->
            IF Flops(b) = {} \/ Ambiguous(b, pr) THEN {None}
            ELSE {MultiClockSummary(d, b, pr)}
      [] ~SingleClock(d, pr) /\ ~b.grey -> {None}

(* summarise_sync_primitive: no sinks, and each output on its side's clock.*)
DestPins(b, pr) ==
    LET dest == {p \in DOMAIN pr : b.role[p] = "dest"}
    IN  IF dest # {} THEN dest
        ELSE {p \in DOMAIN pr : DOMAIN pr = {p} /\ b.role[p] = "none"}

SourcePins(b, pr) ==
    LET src == {p \in DOMAIN pr : b.role[p] = "src"}
    IN  IF src # {} THEN src ELSE DestPins(b, pr)

IsPrimitive(d, i) ==
    /\ d.type[i] \in d.prims
    /\ DestPins(Body(d, i), PinRoots(d, i)) # {}

PrimitiveSummary(b, pr) ==
    [ports |-> [o \in b.out |->
                   pr[CHOOSE p \in IF o \in b.srcOut THEN SourcePins(b, pr)
                                   ELSE DestPins(b, pr) : TRUE]],
     inputs |-> <<>>,
     analysed |-> FALSE,
     found |-> {},
     reconvergent |-> {}]

----------------------------------------------------------------------------
(* The crossing search over the parent and its boundaries                  *)

Launch(d, B, a) ==
    IF a[1] = "top" THEN Trace(d, a) ELSE B[a[1]].ports[a[2]]
Capture(d, B, z) ==
    IF z[1] = "top" THEN Trace(d, z) ELSE B[z[1]].inputs[z[2]].clock

IsSource(d, B, a) ==
    IF a[1] = "top" THEN Trace(d, a) # None
    ELSE a[1] \in DOMAIN B /\ a[2] \in DOMAIN B[a[1]].ports
IsSink(d, B, z) ==
    /\ z[1] # "top" => z[1] \in DOMAIN B /\ z[2] \in DOMAIN B[z[1]].inputs
    /\ Capture(d, B, z) # None

(* A register goes by the name of its clock, a boundary by its root's.     *)
SameName(d, B, a, z) ==
    /\ Launch(d, B, a) = Capture(d, B, z)
    /\ (a[1] = "top") = (z[1] = "top") \/ Launch(d, B, a) \in d.named

(* find_crossings: a source without a clock crosses into every sink.       *)
CrossingsOf(d, B) ==
    {[src |-> w[1], dst |-> w[2],
      from |-> Launch(d, B, w[1]), to |-> Capture(d, B, w[2])] :
        w \in {v \in d.wire :
                  /\ IsSource(d, B, v[1]) /\ IsSink(d, B, v[2])
                  /\ ~SameName(d, B, v[1], v[2])}}

(* A wrong variant of Unsafe: two ports are no reason yet.                 *)
UnsafeFromThree(B, X) ==
    {i \in DOMAIN B :
        /\ ~B[i].analysed
        /\ Cardinality({x.dst[2] : x \in {y \in X : y.dst[1] = i}}) >= 3}

(* reconvergence_unsafe_instances                                          *)
Unsafe(B, X) ==
    {i \in DOMAIN B :
        /\ ~B[i].analysed
        /\ Cardinality({x.dst[2] : x \in {y \in X : y.dst[1] = i}}) >= 2}

----------------------------------------------------------------------------
(* The designs there are                                                   *)

(* Data runs from an input or a register to a register or an output, and a *)
(* clock from a port; a name is a register's or a port's.                  *)
IsBody(b) ==
    /\ b.grey \in BOOLEAN /\ IsFiniteSet(Flops(b)) /\ IsFiniteSet(b.out)
    /\ Flops(b) \cap b.out = {} /\ None \notin Flops(b)
    /\ Data(b) \subseteq (b.in \cup Flops(b)) \X (Flops(b) \cup b.out)
    /\ b.ctl \subseteq (b.in \cup Flops(b)) \X Flops(b)
    /\ \A f \in Flops(b) : b.flop[f].pin \in b.in /\ b.flop[f].hops \in Nat
    /\ b.sync \subseteq Flops(b)

TopRegisters(d) == {c \in DOMAIN d.clk : c[1] = "top"}
InPins(d) == UNION {{i} \X Body(d, i).in : i \in Insts(d)}
OutPins(d) == UNION {{i} \X Body(d, i).out : i \in Insts(d)}

(* A pin takes a clock or data, and a clock that is carried out came in.   *)
IsDesign(d) ==
    /\ IsFiniteSet(Insts(d)) /\ "top" \notin Insts(d) /\ None \notin Root(d)
    /\ \A i \in Insts(d) : IsBody(Body(d, i))
    /\ IsFiniteSet(d.wire)
    /\ d.wire \subseteq (TopRegisters(d) \cup OutPins(d))
                          \X (TopRegisters(d) \cup (InPins(d) \ DOMAIN d.clk))
    /\ DOMAIN d.clk \subseteq TopRegisters(d) \cup InPins(d)
    /\ \A c \in DOMAIN d.clk :
           d.clk[c].from \in Root(d) \cup OutPins(d) \cup {None} /\ d.clk[c].hops \in Nat
    /\ \A i \in Insts(d) : \A o \in DOMAIN Body(d, i).forward :
           /\ <<i, Body(d, i).forward[o].pin>> \in DOMAIN d.clk
           /\ Body(d, i).forward[o].hops \in Nat

(* What a sanctioned primitive's name promises: every output comes from    *)
(* registers, of the side its port is named after.                         *)
KeepsConvention(d) ==
    \A i \in {j \in Insts(d) : IsPrimitive(d, j)} :
        LET b == Body(d, i)
            pr == PinRoots(d, i)
        IN  /\ Data(b) \cap (b.in \X b.out) = {}
            /\ \A o \in b.out : \A f \in Launchers(b, o) :
                  b.flop[f].pin \in DOMAIN pr =>
                      (IF o \in b.srcOut THEN SourcePins(b, pr) ELSE DestPins(b, pr))
                          = {b.flop[f].pin}

ASSUME DesignAssumption == \A d \in Design : IsDesign(d) /\ KeepsConvention(d)
ASSUME MaxDepthAssumption == MaxDepth \in Nat

----------------------------------------------------------------------------
Init ==
    /\ design \in Design
    /\ phase = "compose"
    /\ todo = Insts(design)
    /\ seen = <<>> /\ boundaries = <<>>
    /\ declined = {} /\ crossings = {} /\ told = {}

(* An entry of a dictionary.                                               *)
Put(f, x, v) == [y \in DOMAIN f \cup {x} |-> IF y = x THEN v ELSE f[y]]

Looked(i) ==
    /\ todo' = todo \ {i}
    /\ UNCHANGED <<design, phase, crossings, told>>

(* A module one of whose instances drives a clock is not abstracted.       *)
DeclineForwarder(i) ==
    /\ ForwardsClock(design, design.type[i])
    /\ declined' = declined \cup {design.type[i]}
    /\ UNCHANGED <<seen, boundaries>>
    /\ Looked(i)

AcceptPrimitive(i) ==
    /\ ~ForwardsClock(design, design.type[i])
    /\ IsPrimitive(design, i)
    /\ boundaries' = Put(boundaries, i,
                          PrimitiveSummary(Body(design, i), PinRoots(design, i)))
    /\ UNCHANGED <<seen, declined>>
    /\ Looked(i)

(* A wrong variant of Key: the set of roots for their places.              *)
KeyByRoots(d, i) == <<d.type[i], RootsOf(PinRoots(d, i))>>

Key(d, i) == <<d.type[i], PinRoots(d, i)>>

Generic(i) ==
    ~ForwardsClock(design, design.type[i]) /\ ~IsPrimitive(design, i)

Use(i, s) ==
    IF s = None
    THEN declined' = declined \cup {design.type[i]} /\ UNCHANGED boundaries
    ELSE boundaries' = Put(boundaries, i, s) /\ UNCHANGED declined

(* The first instance of a module in a clock context.                      *)
Summarise(i) ==
    /\ Generic(i) /\ Key(design, i) \notin DOMAIN seen
    /\ \E s \in Summaries(design, design.type[i], PinRoots(design, i)) :
           seen' = Put(seen, Key(design, i), s) /\ Use(i, s)
    /\ Looked(i)

(* A later one is served from the cache.                                   *)
Reuse(i) ==
    /\ Generic(i) /\ Key(design, i) \in DOMAIN seen
    /\ Use(i, seen[Key(design, i)])
    /\ UNCHANGED seen
    /\ Looked(i)

Search ==
    /\ phase = "compose" /\ todo = {}
    /\ crossings' = CrossingsOf(design, boundaries)
    /\ phase' = "searched"
    /\ UNCHANGED <<design, todo, seen, boundaries, declined, told>>

(* Boundaries that may hide a reconvergence are taken back, all at once,   *)
(* and the search runs again.                                              *)
Refuse ==
    /\ phase = "searched"
    /\ told' = Unsafe(boundaries, crossings)
    /\ boundaries' = Restrict(boundaries, DOMAIN boundaries \ told')
    /\ crossings' = IF told' = {} THEN crossings
                    ELSE CrossingsOf(design, boundaries')
    /\ phase' = "refused"
    /\ UNCHANGED <<design, todo, seen, declined>>

(* One finding for every instance of a declined type.                      *)
Cover ==
    /\ phase = "refused"
    /\ told' = told \cup {i \in Insts(design) : design.type[i] \in declined}
    /\ phase' = "done"
    /\ UNCHANGED <<design, todo, seen, boundaries, declined, crossings>>

Next ==
    \/ \E i \in todo : DeclineForwarder(i)
    \/ \E i \in todo : AcceptPrimitive(i)
    \/ \E i \in todo : Summarise(i)
    \/ \E i \in todo : Reuse(i)
    \/ Search \/ Refuse \/ Cover

Spec == Init /\ [][Next]_vars
=============================================================================
