-------------------------- MODULE CompositionFlat --------------------------
(***************************************************************************)
(* What composition promises: the findings of the same analysis run on the *)
(* flattened design.  The flat design is the same graph with the bodies of *)
(* the instances in it; its registers are <<"top", f>> and <<i, f>>.       *)
(***************************************************************************)
EXTENDS Composition

(* Where a clock pin's clock comes from, in the parent.                    *)
Near(d) ==
    [c \in DOMAIN d.clk |->
        LET from == d.clk[c].from
        IN  IF from \in Root(d)
            THEN [root |-> from, hops |-> d.clk[c].hops, via |-> {}]
            ELSE [root |-> None, hops |-> 0, via |-> IF from = None THEN {} ELSE {from[1]}]]

Carried(d, from) ==
    /\ from \notin Root(d) /\ from # None
    /\ from[2] \in DOMAIN Body(d, from[1]).forward

(* And through the outputs that carry it, whose own clocks are behind.     *)
Further(d, behind) ==
    [c \in DOMAIN d.clk |->
        LET from == d.clk[c].from
            up == Body(d, from[1]).forward[from[2]]
            rest == behind[<<from[1], up.pin>>]
        IN  IF Carried(d, from)
            THEN [root |-> rest.root, hops |-> rest.hops + d.clk[c].hops + up.hops,
                  via |-> rest.via \cup {from[1]}]
            ELSE Near(d)[c]]

(* The root, the cells on the way and the instances passed.                *)
Origins(d) ==
    LET Upto[n \in 0..Cardinality(Insts(d))] ==
            IF n = 0 THEN Near(d) ELSE Further(d, Upto[n - 1])
    IN  Upto[Cardinality(Insts(d))]

ClockPinOf(d, r) ==
    IF r[1] = "top" THEN r ELSE <<r[1], Body(d, r[1]).flop[r[2]].pin>>
HopsInside(d, r) ==
    IF r[1] = "top" THEN 0 ELSE Body(d, r[1]).flop[r[2]].hops

(* The clock a flat run assigns, within the same budget.                   *)
FlatClock(d, r) ==
    LET o == Origins(d)[ClockPinOf(d, r)]
    IN  IF o.hops + HopsInside(d, r) < MaxDepth THEN o.root ELSE None
ClockVia(d, r) == Origins(d)[ClockPinOf(d, r)].via

RootOf(d, r) == Origins(d)[ClockPinOf(d, r)].root

FlatAsync(d, s, t) ==
    /\ ClockPinOf(d, s) \in DOMAIN d.clk /\ ClockPinOf(d, t) \in DOMAIN d.clk
    /\ FlatClock(d, s) # None /\ FlatClock(d, t) # None
    /\ Async(d, FlatClock(d, s), FlatClock(d, t))

(* Ways and a wire onward, combinationally through an instance.            *)
Onward(d, ways) ==
    ways \cup
    {j[1] \o j[2] : j \in
        {p \in ways \X d.wire :
            LET z == p[1][Len(p[1])]
            IN  /\ z[1] # "top" /\ z[1] = p[2][1][1]
                /\ <<z[2], p[2][1][2]>> \in Data(Body(d, z[1]))}}

(* The ways through the parent and its instances.                          *)
Routes(d) ==
    LET Upto[n \in 0..Cardinality(Insts(d))] ==
            IF n = 0 THEN d.wire ELSE Onward(d, Upto[n - 1])
    IN  Upto[Cardinality(Insts(d))]

LaunchedAt(d, a) ==
    IF a[1] = "top" THEN {a}
    ELSE {<<a[1], f>> : f \in Launchers(Body(d, a[1]), a[2])}
CapturedAt(d, z) ==
    IF z[1] = "top" THEN {z}
    ELSE {<<z[1], f>> : f \in {g \in Flops(Body(d, z[1])) :
                                  <<z[2], g>> \in Data(Body(d, z[1]))}}

----------------------------------------------------------------------------
Recorded(a, z) ==
    \E x \in crossings :
        x.src = a /\ x.dst = z /\ x.from # None /\ Async(design, x.from, x.to)

Accepted(i) == i \in DOMAIN boundaries /\ IsPrimitive(design, i)
Analysed(i) == i \in DOMAIN boundaries /\ boundaries[i].analysed

(* An output no single clock launches leaves as a source without a clock.  *)
LeavesUntyped(r) ==
    \E p \in Range(r) :
        /\ p[1] \in DOMAIN boundaries
        /\ p[2] \in DOMAIN boundaries[p[1]].ports
        /\ boundaries[p[1]].ports[p[2]] = None

(* What goes combinationally through a block of several clocks is on no    *)
(* port of its summary.                                                    *)
ThroughManyClocks(r) ==
    \E n \in 2..Len(r) - 1 :
        /\ Analysed(r[n][1]) /\ r[n][1] = r[n + 1][1]
        /\ ~SingleClock(design, PinRoots(design, r[n][1]))

(* Nobody knows what clocks a register of a block that is not analysed:    *)
(* its pin is not named like a clock, or no instance of the type has a     *)
(* declared clock on it.                                                   *)
ClockUnseen(r) ==
    /\ r[1] # "top" /\ ~Analysed(r[1])
    /\ ClockPinOf(design, r)[2] \notin ClockPinsOfType(design, design.type[r[1]])

(* A clock that comes through an instance is lost to the parent.           *)
ClockLost(r) == ClockVia(design, r) \cap told # {} \/ ClockUnseen(r)

(* Clocks that go by another name than their port's.                       *)
Renamed(d, s, t) == ~({FlatClock(d, s), FlatClock(d, t)} \subseteq d.named)

(***************************************************************************)
(* Abstraction severs nothing: a path between registers of asynchronous    *)
(* clocks, in the parent, into, out of, through or inside instances, has a *)
(* crossing of known clocks on it, or a CDC-BBX on an instance it or its   *)
(* clocks pass, or ends in a sanctioned synchronizer, or is inside an      *)
(* analysed module and found there (compose_boundaries, the search, the    *)
(* declines of cli.py).  Four ways the code does lose one are named.       *)
(***************************************************************************)
PathKept(r, t) ==
    \/ \E n \in 1..Len(r) - 1 : Recorded(r[n], r[n + 1])
    \/ Accepted(t[1])
    \/ {p[1] : p \in Range(r)} \cap told # {}
    \/ LeavesUntyped(r) \/ ThroughManyClocks(r)

InsideKept(i, s, t) ==
    \/ i \in told \/ Accepted(i)
    \/ Analysed(i) /\ <<s, t>> \in boundaries[i].found
    \/ Analysed(i) /\ Renamed(design, <<i, s>>, <<i, t>>)

NothingSevered ==
    phase = "done" =>
        /\ \A r \in Routes(design) :
           \A s \in LaunchedAt(design, r[1]), t \in CapturedAt(design, r[Len(r)]) :
              FlatAsync(design, s, t) =>
                  PathKept(r, t) \/ ClockLost(s) \/ ClockLost(t)
        /\ \A i \in Insts(design) :
           \A s, t \in Flops(Body(design, i)) :
              /\ <<s, t>> \in Data(Body(design, i))
              /\ FlatAsync(design, <<i, s>>, <<i, t>>)
              => InsideKept(i, s, t) \/ ClockLost(<<i, s>>) \/ ClockLost(<<i, t>>)

(***************************************************************************)
(* The cache is not visible: the summary an instance is given is one its   *)
(* own wiring leads to, whichever instance came first (compose_boundaries).*)
(***************************************************************************)
SummaryIsItsOwn ==
    \A i \in DOMAIN boundaries :
        ~IsPrimitive(design, i) =>
            boundaries[i] \in Summaries(design, design.type[i], PinRoots(design, i))

(* What two chains carry is seen together.                                 *)
Meet(b, c, e) ==
    (Seers(b, c[Len(c)]) \cap Seers(b, e[Len(e)]))
        \ {<<"flop", f>> : f \in Range(c) \cup Range(e)} # {}

FlatPins(d, i) ==
    [p \in {q \in Body(d, i).in : <<i, q>> \in DOMAIN d.clk} |->
        Origins(d)[<<i, p>>].root]

Synchronizers(d, i, p) ==
    LET b == Body(d, i)
    IN  {c \in {Chain(b, FlatPins(d, i), h) :
                    h \in {f \in Flops(b) : <<p, f>> \in b.wire}} : Len(c) >= 2}

Complains(i, p) ==
    boundaries[i].inputs[p].depth < 2 /\ ~boundaries[i].inputs[p].user

(***************************************************************************)
(* Reconvergence inside a block outlives its abstraction: where one parent *)
(* register enters two ports whose synchronizer chains meet inside, the    *)
(* instance is told, or CDC-005 has the pair, or CDC-001 complains of one  *)
(* of the ports of an analysed module (reconvergence_unsafe_instances,     *)
(* _boundary_reconvergence).                                               *)
(***************************************************************************)
ReconvergenceKept ==
    phase = "done" =>
        \A i \in Insts(design) :
        \A p, q \in Body(design, i).in :
        \A c \in Synchronizers(design, i, p), e \in Synchronizers(design, i, q) :
            /\ p # q
            /\ \E s \in {w[1] : w \in design.wire} :
                  /\ s[1] = "top"
                  /\ {<<s, <<i, p>>>>, <<s, <<i, q>>>>} \subseteq design.wire
                  /\ FlatAsync(design, s, <<i, c[1]>>)
                  /\ FlatAsync(design, s, <<i, e[1]>>)
                  /\ ~ClockLost(s)
            /\ ~ClockLost(<<i, c[1]>>) /\ ~ClockLost(<<i, e[1]>>)
            /\ Meet(Body(design, i), c, e)
            => \/ i \in told \/ Accepted(i)
               \/ /\ Analysed(i)
                  /\ \/ {p, q} \in boundaries[i].reconvergent
                     \/ Complains(i, p) \/ Complains(i, q)

(***************************************************************************)
(* Where a proven depth keeps CDC-001 quiet at a port, the flat design     *)
(* really has a synchronizer there: one register of the block takes the    *)
(* port, the port goes nowhere else, and inside the block one register on  *)
(* the same clock takes what it holds, and nothing else does               *)
(* (_prove_input_synchroniser, _effective_sync_chain_depth).  What leaves  *)
(* the block straight from that register is not looked at by the code.     *)
(***************************************************************************)
QuietIsSynchronised ==
    phase = "done" =>
        \A i \in DOMAIN boundaries :
        \A p \in DOMAIN boundaries[i].inputs :
            boundaries[i].inputs[p].depth >= 2 =>
                LET b == Body(design, i)
                    seenBy(n) == {e[2] : e \in {f \in Feeds(b) : f[1] = n}}
                    leaving(n) == {o \in b.out : <<n, o>> \in b.wire}
                IN  \E h, k \in Flops(b) :
                        /\ seenBy(p) = {h} /\ <<p, h>> \in b.wire
                        /\ seenBy(h) \ leaving(h) = {k} /\ h # k
                        /\ RootOf(design, <<i, h>>) = RootOf(design, <<i, k>>)
                        /\ RootOf(design, <<i, h>>) # None

(***************************************************************************)
(* "are_async gives identical answers on both sides of the boundary": an   *)
(* asynchronous pair inside an analysed block is found by its analysis     *)
(* (derive_sub_spec).                                                      *)
(***************************************************************************)
SameAnswerInside ==
    phase = "done" =>
        \A i \in Insts(design) :
        \A s, t \in Flops(Body(design, i)) :
            /\ Analysed(i) /\ <<s, t>> \in Data(Body(design, i))
            /\ FlatAsync(design, <<i, s>>, <<i, t>>)
            => <<s, t>> \in boundaries[i].found
=============================================================================
