----------------------------- MODULE DataRules -----------------------------
(***************************************************************************)
(* The rules of rules.py about data crossings, as operators from a design  *)
(* d and its crossings cs to findings.  A finding names the rule, the      *)
(* crossing it is about or None, the cell, what findings of that rule are  *)
(* grouped by, and the severity.  CDC-012 keeps a cache between crossings  *)
(* and is in module RulePack; the rules on clocks are in ClockRules.       *)
(***************************************************************************)
EXTENDS SyncShapes

CONSTANTS
    RequiredDepth,  \* --sync-depth
    Cascade         \* CDC_018_DEFAULT_THRESHOLD

ASSUME DepthAssumption == RequiredDepth \in Nat /\ Cascade \in Nat /\ Cascade >= 2

Finding(rule, c, cell, severity) ==
    [rule |-> rule, on |-> c, key |-> <<>>, cell |-> cell, severity |-> severity, related |-> FALSE]
Grouped(rule, key, cell, severity) ==
    [rule |-> rule, on |-> None, key |-> key, cell |-> cell, severity |-> severity, related |-> FALSE]

Single(cs) == {c \in cs : c.width = 1}
Typed(cs) == {c \in cs : c.srcClock # Untyped}
Registered(cs) == {c \in cs : c.src # None}
Unvouched(d, cs) == {c \in cs : c.dst \notin UserSyncs(d)}
Moving(d, cs) == {c \in cs : c.src \notin UserStatics(d)}
Depth(d, c) == ChainDepth(d, c.dst, c.dstClock)

(* A wrong variant of CDC001: the deferral looks at no condition of 014.   *)
CDC001DefersToAnyGate(d, cs) ==
    {Finding("CDC-001", c, c.dst, "error") :
        c \in {k \in Moving(d, Unvouched(d, Typed(Single(cs)))) :
                 /\ k.dst \notin UserHandshakes(d)
                 /\ Depth(d, k) < 2
                 /\ CellReaders(d, Q(d, k.dst)[1]) = {}}}

(* check_cdc_001: no second stage.  A gate between two stages is left to   *)
(* CDC-014.                                                                *)
CDC001(d, cs) ==
    {Finding("CDC-001", c, c.dst, "error") :
        c \in {k \in Moving(d, Unvouched(d, Typed(Single(cs)))) :
                 /\ k.dst \notin UserHandshakes(d)
                 /\ Depth(d, k) < 2
                 /\ ~GateBetweenStages(d, k.dst)}}

CDC002(d, cs) ==
    {Finding("CDC-002", c, c.dst, "warning") :
        c \in {k \in Moving(d, Unvouched(d, Typed(Single(cs)))) :
                 RequiredDepth > 2 /\ Depth(d, k) \in 2..(RequiredDepth - 1)}}

(* check_cdc_003: logic before the first stage, unless it is only the      *)
(* destination's own reset mux.                                            *)
OnlyResetMux(d, c) ==
    c.src # None /\ Range(ResetMuxLeg(d, c.dst)) \cap Bits(Q(d, c.src)) # {}
CDC003(d, cs) ==
    {Finding("CDC-003", c, c.dst, "error") :
        c \in {k \in Moving(d, Unvouched(d, Single(cs))) :
                 /\ k.hops >= 1 /\ k.port = None
                 /\ ~OnlyResetMux(d, k)
                 /\ Depth(d, k) >= 2}}

(* check_cdc_004: a bus that is neither gated nor gray-coded.              *)
GrayIntoChain(d, c) ==
    c.src # None /\ WideFirstStage(d, c.dst, c.dstClock) /\ GrayCoded(d, c.src)
CDC004(d, cs) ==
    {Finding("CDC-004", c, c.dst, "error") :
        c \in {k \in Moving(d, cs) :
                 /\ k.width > 1
                 /\ k.src \notin UserGrays(d)
                 /\ ~GrayIntoChain(d, k)
                 /\ ~Gated(d, k)}}

(* check_cdc_005: two chains from one register whose ends some cell reads. *)
Synchronized(d, cs) == {c \in Registered(Single(cs)) : Depth(d, c) >= 2}

(* A wrong variant of Beyond: the cone starts at the first stage.          *)
BeyondHead(d, chain) == FanoutCells(d, Bits(Q(d, chain[1]))) \ Range(chain)

Beyond(d, chain) == FanoutCells(d, Bits(Q(d, chain[Len(chain)]))) \ Range(chain)

Downstream(d, c) == Beyond(d, Chain(d, c.dst, c.dstClock))
Copies(synced, c) == {k \in synced : k.src = c.src /\ k.dstClock = c.dstClock}
Recombine(d, copies) ==
    \E k1, k2 \in copies : k1 # k2 /\ Downstream(d, k1) \cap Downstream(d, k2) # {}
MeetAgain(d, synced) == {c \in synced : Recombine(d, Copies(synced, c))}
CDC005(d, cs) ==
    {Grouped("CDC-005", <<c.src, c.dstClock>>, c.src, "warning") :
        c \in MeetAgain(d, Synchronized(d, cs))}

(* check_cdc_006: a chain fed by ports through logic, with no register.    *)
CDC006(d) ==
    LET foreign(f, p) == /\ ~d.ports[p].isClock
                         /\ d.ports[p].clock # Untyped
                         /\ Primary(d, d.ports[p].clock) # Primary(d, Named(d, ClockOf(d, f)))
    IN  {Finding("CDC-006", None, f, "error") :
            f \in {g \in Flops(d) :
                     /\ Clocked(d, g) /\ g \notin UserSyncs(d)
                     /\ ChainDepth(d, g, ClockOf(d, g)) >= 2
                     /\ FaninFlops(d, Bits(D(d, g))) = {}
                     /\ \E p \in FaninPorts(d, Bits(D(d, g))) : foreign(g, p)}}

(* check_cdc_009 and check_cdc_013: events too short, or too close, for a  *)
(* slower destination.                                                     *)
FastToSlow(d, c) ==
    /\ {c.srcClock, c.dstClock} \subseteq DOMAIN d.period
    /\ 3 * d.period[c.srcClock] < 2 * d.period[c.dstClock]
CDC009(d, cs) ==
    {Finding("CDC-009", c, c.src, "warning") :
        c \in {k \in Registered(Typed(Single(cs))) :
                 FastToSlow(d, k) /\ PulseSource(d, k.src, k.srcClock)}}
CDC013(d, cs) ==
    {Finding("CDC-013", c, c.src, "warning") :
        c \in {k \in Registered(Typed(Single(cs))) :
                 /\ FastToSlow(d, k) /\ ToggleSource(d, k.src)
                 /\ k.src \notin UserHandshakes(d)
                 /\ ~XorTail(d, k.dst, k.dstClock)}}

(* A wrong variant of Captures: only D pins count.                         *)
CapturesByData(d, cs, p) ==
    {<<c.dstClock, c.dst>> : c \in {k \in cs : k.port = p /\ k.srcClock = Untyped}}

(* check_cdc_011 and _unconstrained_srst_captures: one finding per untyped *)
(* port, an error when registers of two clocks take it.                    *)
Captures(d, cs, p) ==
    {<<c.dstClock, c.dst>> : c \in {k \in cs : k.port = p /\ k.srcClock = Untyped}}
    \cup {<<ClockOf(d, f), f>> :
            f \in {g \in Flops(d) : Clocked(d, g) /\ p \in FaninPorts(d, Bits(d.flops[g].pin["srst"]))}}

CDC011(d, cs) ==
    {Grouped("CDC-011", <<p>>, Min({x[2] : x \in Captures(d, cs, p)}),
             IF Cardinality({x[1] : x \in Captures(d, cs, p)}) > 1 THEN "error" ELSE "warning") :
        p \in {q \in DOMAIN d.ports : d.ports[q].clock = Untyped /\ Captures(d, cs, q) # {}}}

CDC014(d, cs) ==
    {Finding("CDC-014", c, c.dst, "error") :
        c \in {k \in Unvouched(d, Single(cs)) :
                 k.dst \notin UserHandshakes(d) /\ GateBetweenStages(d, k.dst)}}

(* check_cdc_015 and check_cdc_016: a chain one of whose stages is reset   *)
(* by another domain, or whose stages take turns on the clock edges.       *)
Chains(d, cs) ==
    {<<c.dst, Chain(d, c.dst, c.dstClock)>> : c \in Unvouched(d, Single(cs))}
ForeignReset(d, f, clock) ==
    \E g \in FaninFlops(d, Bits(d.flops[f].pin["arst"])) : Async(d, ClockOf(d, g), clock)
CDC015(d, cs) ==
    {Finding("CDC-015", None, x[1], "error") :
        x \in {y \in Chains(d, cs) :
                 /\ Len(y[2]) >= 2
                 /\ \E i \in DOMAIN y[2] : ForeignReset(d, y[2][i], d.flops[y[1]].clock)}}
CDC016(d, cs) ==
    {Finding("CDC-016", None, x[1], "error") :
        x \in {y \in Chains(d, cs) :
                 \E i \in 1..(Len(y[2]) - 1) :
                    d.flops[y[2][i]].edge # d.flops[y[2][i + 1]].edge}}

(* check_cdc_017: a latch between registers of two domains.                *)
LatchSinks(d, l) ==
    {f \in {SingleBitFlop(d, b) : b \in Bits(d.latches[l].q)} \ {None} :
        Clocked(d, f) /\ f \notin UserSyncs(d)}
LatchSources(d, l) ==
    {f \in FaninFlops(d, Bits(d.latches[l].pin["d"])) : ClockOf(d, f) # NoClock}
CDC017(d) ==
    {Grouped("CDC-017", <<ClockOf(d, p[2]), ClockOf(d, p[3])>>, p[1], "error") :
        p \in {q \in (DOMAIN d.latches) \X Flops(d) \X Flops(d) :
                 /\ q[2] \in LatchSources(d, q[1]) /\ q[3] \in LatchSinks(d, q[1])
                 /\ ClockOf(d, q[2]) # ClockOf(d, q[3])}}

(* check_cdc_018: the longest cascade behind each source and domain.       *)
Cascades(d, cs) ==
    {c \in Unvouched(d, Registered(cs)) :
        Len(Q(d, c.dst)) = 1 /\ Len(D(d, c.dst)) = 1 /\ Depth(d, c) >= Cascade}
Deepest(d, copies) == CHOOSE k \in copies : \A j \in copies : Depth(d, j) <= Depth(d, k)
CDC018(d, cs) ==
    {Finding("CDC-018", None, Deepest(d, Copies(Cascades(d, cs), c)).dst, "warning") :
        c \in Cascades(d, cs)}

(* check_cdc_019: registers fed by one decoder, synchronized one by one.   *)
CDC019(d, cs) ==
    LET decoder(c) == IF Len(D(d, c.src)) = 1 THEN CellDriver(d, D(d, c.src)[1]) ELSE None
        lanes == {c \in Registered(cs) :
                    decoder(c) # None /\ Cardinality(CellOutputs(d, decoder(c))) >= 2}
        group(c) == {k \in lanes : decoder(k) = decoder(c) /\ k.dstClock = c.dstClock}
        excused(c) == c.src \in UserGrays(d) \cup UserStatics(d) \cup UserSyncs(d)
    IN  {Grouped("CDC-019", <<decoder(c), c.dstClock>>, Min({k.src : k \in group(c)}), "warning") :
            c \in {k \in lanes : /\ ~\E j \in group(k) : excused(j)
                                 /\ Cardinality({j.src : j \in group(k)}) >= 2}}

(* check_cdc_020: a bus whose lanes cross to several registers.            *)
CDC020(d, cs) ==
    LET sliced == {c \in Registered(cs) : Len(Q(d, c.src)) >= 2}
        dsts(c) == {k.dst : k \in {j \in sliced : j.src = c.src /\ j.dstClock = c.dstClock}}
        excused(c) == c.src \in UserGrays(d) \cup UserStatics(d) \cup UserHandshakes(d)
        gray(c) == GrayCoded(d, c.src) /\ \E f \in dsts(c) : WideFirstStage(d, f, c.dstClock)
    IN  {Grouped("CDC-020", <<c.dstClock>>, c.src, "warning") :
            c \in {k \in sliced : Cardinality(dsts(k)) >= 2 /\ ~excused(k) /\ ~gray(k)}}

(***************************************************************************)
(* crossing_synchronizer: the scheme the domain map publishes for a        *)
(* crossing, or None.                                                      *)
(***************************************************************************)
SingleScheme(d, c) ==
    CASE c.dst \in UserSyncs(d) -> "2ff"
      [] c.dst \notin UserSyncs(d) /\ c.dst \in UserHandshakes(d) -> "handshake"
      [] c.dst \notin UserSyncs(d) \cup UserHandshakes(d)
            /\ c.src \in UserStatics(d) -> "static"
      [] OTHER -> IF Depth(d, c) < 2 THEN None
                  ELSE IF c.src # None /\ ToggleSource(d, c.src) /\ XorTail(d, c.dst, c.dstClock)
                       THEN "pulse" ELSE "2ff"

Acknowledged(d, c) ==
    \/ c.src \in UserHandshakes(d) \/ c.dst \in UserHandshakes(d)
    \/ Feedback(d, c.src, c.srcClock, c.dstClock)

BusScheme(d, c) ==
    CASE c.src \in UserGrays(d) -> "gray"
      [] c.src \notin UserGrays(d) /\ c.src \in UserStatics(d) -> "static"
      [] OTHER -> IF GrayIntoChain(d, c) THEN "gray"
                  ELSE IF ~Gated(d, c) THEN None
                  ELSE IF c.src # None /\ GrayCoded(d, c.src) THEN "gray"
                  ELSE IF c.src # None /\ Acknowledged(d, c) THEN "handshake" ELSE "mux"

Scheme(d, c) == IF c.width = 1 THEN SingleScheme(d, c) ELSE BusScheme(d, c)
=============================================================================
