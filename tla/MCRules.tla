------------------------------ MODULE MCRules ------------------------------
(***************************************************************************)
(* Small designs for RulePack, one family for each question.  Bits 1, 2    *)
(* and 3 are the clock ports of ca, cb and cc; bits 4 and 5 are the data   *)
(* ports 104 and 105; the other bits are nets.                             *)
(***************************************************************************)
EXTENDS RulePack, TLC

CONSTANTS ca, cb, cc, const, one, none, noclock, untyped

MCBit == 1..30
MCClock == {ca, cb, cc}
ClkBit(c) == CASE c = ca -> 1 [] c = cb -> 2 [] c = cc -> 3

FF(c, dd, q) ==
    [clock |-> c, root |-> c, clk |-> ClkBit(c), edge |-> "pos",
     pin |-> [p \in FlopInput |-> IF p = "d" THEN dd ELSE <<>>],
     q |-> q, polarity |-> "low", value |-> "low"]
With(f, p, bits) == [f EXCEPT !.pin[p] = bits]
Gate(type, a, b, s, y) ==
    [kind |-> IF type \in {"mux", "pmux"} THEN type
              ELSE IF type \in {"and", "or", "xor", "not", "buf"} THEN "bitwise" ELSE "wide",
     type |-> type,
     pin |-> [p \in PinName |-> CASE p = "A" -> a [] p = "B" -> b [] p = "S" -> s [] p = "Y" -> y]]
InPort(bits, c, isClock) ==
    [bits |-> bits, clock |-> c, isClock |-> isClock, attr |-> none, hint |-> none]

Attr == {"cdc_sync", "cdc_gray", "cdc_static", "cdc_handshake", "reset_sync", "glitchless"}
Untagged == [a \in Attr |-> {}]
Tagged(a, bits) == [Untagged EXCEPT ![a] = bits]

Empty == [cells |-> <<>>, flops |-> <<>>, latches |-> <<>>,
          ports |-> (101 :> InPort({1}, ca, TRUE)) @@ (102 :> InPort({2}, cb, TRUE))
                    @@ (103 :> InPort({3}, cc, TRUE))
                    @@ (104 :> InPort({4}, ca, FALSE)) @@ (105 :> InPort({5}, cb, FALSE)),
          named |-> <<>>, primary |-> <<>>, undeclared |-> {},
          async |-> {{ca, cb}, {ca, cc}, {cb, cc}} \cup {{untyped, c} : c \in MCClock},
          period |-> (ca :> 2) @@ (cb :> 6), tags |-> Untagged, macros |-> <<>>]

(***************************************************************************)
(* A register of ca, a first stage of cb, a second stage, what lies        *)
(* between them and who else reads the first stage.                        *)
(***************************************************************************)
Path(kind, from, to, x) ==
    CASE kind = "gate" -> x :> Gate("and", <<from>>, <<5>>, <<>>, <<to>>)
      [] kind = "reset mux" -> x :> Gate("mux", <<from>>, <<const>>, <<5>>, <<to>>)
Through(kind, from, to) == IF kind = "wire" THEN <<from>> ELSE <<to>>
Other == {<<>>} \cup {4 :> FF(c, <<b>>, <<14>>) : c \in {ca, cb}, b \in {11, 12}}

MCChains ==
    {[Empty EXCEPT
        !.cells = (IF front = "wire" THEN <<>> ELSE Path(front, 10, 13, 7))
                  @@ (IF between = "wire" THEN <<>> ELSE Path(between, 11, 12, 8)),
        !.flops = (1 :> FF(ca, <<4>>, <<10>>)) @@ (2 :> FF(cb, Through(front, 10, 13), <<11>>))
                  @@ (3 :> FF(c, Through(between, 11, 12), <<15>>)) @@ other,
        !.tags = tags] :
        front \in {"wire", "gate", "reset mux"}, between \in {"wire", "gate", "reset mux"},
        c \in {ca, cb}, other \in Other,
        tags \in {Untagged, Tagged("cdc_handshake", {11}), Tagged("cdc_static", {10}),
                  Tagged("cdc_sync", {11})}}

(* One register that shifts, with a lane somebody else reads.              *)
MCPacked ==
    {[Empty EXCEPT
        !.flops = (1 :> FF(ca, <<4>>, <<10>>)) @@ (2 :> FF(cb, dd, <<11, 12, 13>>)) @@ other] :
        dd \in {<<10, 11, 12>>, <<11, 12, 10>>, <<10, 11, 11>>, <<12, 10, 11>>, <<10, 4, 12>>},
        other \in {<<>>} \cup {3 :> FF(c, <<b>>, <<14>>) : c \in {ca, cb}, b \in 11..13}}

(***************************************************************************)
(* A bus of ca taken by registers of cb and perhaps cc, when an enable     *)
(* says so; the source may wait for an acknowledge of cb.                  *)
(***************************************************************************)
Enables == {<<>>, <<14>>, <<9>>}
MCBuses ==
    {[Empty EXCEPT
        !.cells = (IF gray THEN 21 :> Gate("xor", <<15, 16>>, <<16, const>>, <<>>, <<7, 8>>) ELSE <<>>)
                  @@ (IF muxed THEN 22 :> Gate("mux", <<12, 13>>, <<10, 11>>, <<14>>, <<17, 18>>)
                      ELSE <<>>),
        !.flops = (1 :> With(FF(ca, IF gray THEN <<7, 8>> ELSE <<4, 4>>, <<10, 11>>), "en", ack))
                  @@ (2 :> With(FF(cb, IF muxed THEN <<17, 18>> ELSE <<10, 11>>, <<12, 13>>), "en", en))
                  @@ (3 :> FF(ca, <<14>>, <<9>>)) @@ (4 :> FF(cb, <<5>>, <<14>>))
                  @@ (IF stage THEN 6 :> FF(cb, <<12, 13>>, <<19, 20>>) ELSE <<>>)
                  @@ other,
        !.tags = tags] :
        gray \in BOOLEAN, muxed \in BOOLEAN, en \in Enables, ack \in {<<>>, <<9>>},
        stage \in BOOLEAN,
        other \in {<<>>, 5 :> With(FF(cb, <<10, 11>>, <<23, 24>>), "en", <<14>>),
                   5 :> FF(cb, <<10, 11>>, <<23, 24>>)},
        tags \in {Untagged, Tagged("cdc_gray", {10}), Tagged("cdc_handshake", {12})}}

(***************************************************************************)
(* Two chains of cb behind one register of ca, and who reads their ends.   *)
(***************************************************************************)
MCReconvergence ==
    {[Empty EXCEPT
        !.cells = (21 :> Gate("and", <<a>>, <<5>>, <<>>, <<17>>))
                  @@ (22 :> Gate("or", <<b>>, <<c>>, <<>>, <<18>>)),
        !.flops = (1 :> FF(ca, <<4>>, <<10>>))
                  @@ (2 :> FF(cb, <<10>>, <<11>>)) @@ (3 :> FF(cb, <<11>>, <<12>>))
                  @@ (4 :> FF(cb, <<from>>, <<13>>)) @@ (5 :> FF(cb, <<13>>, <<14>>))
                  @@ (6 :> FF(cb, <<e>>, <<15>>)),
        !.tags = Untagged] :
        from \in {10, 4}, a \in {12, 14, 13}, b \in {17, 15, 5}, c \in {14, 5, 11}, e \in {14, 17, 18}}

(***************************************************************************)
(* A source two domains take behind enables: one of them may acknowledge.  *)
(***************************************************************************)
MCTwoTakers ==
    {[Empty EXCEPT
        !.flops = (1 :> With(FF(ca, <<4, 4>>, <<10, 11>>), "en", <<ack>>))
                  @@ (2 :> With(FF(cb, <<10, 11>>, <<12, 13>>), "en", <<14>>))
                  @@ (3 :> FF(cb, <<5>>, <<14>>))
                  @@ (4 :> With(FF(cc, taken, <<16, 17>>), "en", <<15>>))
                  @@ (5 :> FF(cc, <<5>>, <<15>>)) @@ (6 :> FF(ca, <<14>>, <<18>>))
                  @@ (7 :> With(FF(ca, <<4, 4>>, <<19, 20>>), "en", <<15>>))
                  @@ (8 :> With(FF(c, <<19, 20>>, <<21, 22>>), "en", <<IF c = cb THEN 14 ELSE 15>>))] :
        ack \in {4, 14, 15, 18}, c \in {cb, cc},
        taken \in {<<10, 11>>, <<11, 11>>, <<12, 13>>, <<5, 5>>}}

(***************************************************************************)
(* Reset synchronizers: chains of up to one stage more than the walk       *)
(* follows, their input, clocks, resets and polarity, and what they reset. *)
(* Bits 6 and 7 are the reset ports 106 and 107.                           *)
(***************************************************************************)
ResetPorts2(attr) == (106 :> [InPort({6}, cb, FALSE) EXCEPT !.attr = attr])
                     @@ (107 :> InPort({7}, cb, FALSE))
Held0(f, r, pol, v) == [With(f, "arst", <<r>>) EXCEPT !.polarity = pol, !.value = v]

MCResetChains ==
    {[Empty EXCEPT
        !.ports = @ @@ ResetPorts2(none),
        !.cells = 21 :> Gate("and", <<6>>, <<7>>, <<>>, <<8>>),
        !.flops = (1 :> Held0(FF(cb, <<first>>, <<10>>), 6, pol, "low"))
                  @@ (2 :> Held0(FF(c, <<10>>, <<11>>), r, pol, "low"))
                  @@ (IF n >= 3 THEN 3 :> Held0(FF(cb, <<11>>, <<12>>), 6, pol, "low") ELSE <<>>)
                  @@ (IF n >= 4 THEN 4 :> Held0(FF(cb, <<12>>, <<13>>), 6, pol, "low") ELSE <<>>)
                  @@ (5 :> Held0(FF(cb, <<5>>, <<14>>), 11, "low", "low"))
                  @@ (6 :> Held0(FF(cb, <<14>>, <<15>>), 6, "low", "high"))
                  @@ (7 :> Held0(FF(cb, <<14>>, <<16>>), 6, "low", "high")),
        !.tags = tags] :
        first \in {one, const, 5}, pol \in {"low", "high"}, c \in {ca, cb}, r \in {6, 7, 8},
        n \in 2..4, tags \in {Untagged, Tagged("reset_sync", {11})}}

(***************************************************************************)
(* Where a reset may come from: a port, a register of another domain,      *)
(* logic or a mux of those.                                                *)
(***************************************************************************)
Driver(kind) == CASE kind = "ports" -> Gate("and", <<6>>, <<7>>, <<>>, <<16>>)
                  [] kind = "port" -> Gate("and", <<6>>, <<one>>, <<>>, <<16>>)
                  [] kind = "flop" -> Gate("or", <<6>>, <<10>>, <<>>, <<16>>)
                  [] kind = "mux" -> Gate("mux", <<6>>, <<7>>, <<10>>, <<16>>)

ResetFrom(r) ==
    {[Empty EXCEPT
        !.ports = @ @@ ResetPorts2(attr),
        !.cells = 21 :> Driver(kind),
        !.flops = (1 :> (IF held THEN Held0(FF(ca, <<4>>, <<10>>), 7, "low", "low")
                         ELSE FF(ca, <<4>>, <<10>>)))
                  @@ (2 :> [With(FF(c, <<5>>, <<11>>), p, <<r>>) EXCEPT !.polarity = pol])
                  @@ (3 :> With(FF(cb, <<11>>, <<12>>), "arst", <<r>>)),
        !.tags = tags] :
        kind \in IF r = 16 THEN {"ports", "port", "flop", "mux"} ELSE {"ports"},
        attr \in IF r = 6 THEN {none, "low", "high"} ELSE {none},
        held \in IF r = 10 THEN BOOLEAN ELSE {FALSE}, c \in {ca, cb}, p \in {"arst", "srst", "clr"},
        pol \in IF r = 16 THEN {"low"} ELSE {"low", "high"},
        tags \in IF r = 10 THEN {Untagged, Tagged("reset_sync", {10})} ELSE {Untagged}}
MCResetSources == UNION {ResetFrom(r) : r \in {6, 10, 16}}

(***************************************************************************)
(* Clocks that pass through a cell, a latch or a flop on their way to the  *)
(* registers 5 and 6, under the control of a register of some domain.      *)
(***************************************************************************)
Switch(kind, s) == CASE kind = "mux" -> Gate("mux", <<1>>, <<2>>, <<s>>, <<13>>)
                     [] kind = "gate" -> Gate("gate", <<1>>, <<>>, <<s>>, <<13>>)
                     [] kind = "and" -> Gate("and", <<1>>, <<s>>, <<>>, <<13>>)
ByClock(f, b, clock, root) == [f EXCEPT !.clk = b, !.clock = clock, !.root = root]

(* What the tracer finds behind the switch.  Without the SDC it takes the  *)
(* leg that is a clock port; with it, a control that resolves to another   *)
(* clock makes a gate or a latch ambiguous.                                *)
Steers(s, c) == IF s = 10 \/ (s = 12 /\ c = cb) THEN c ELSE ca
RootBehind(kind) == IF kind = "gate" THEN noclock ELSE ca
ClockBehind(kind, s, c) ==
    IF kind = "gate" \/ (kind \in {"and", "latch"} /\ Steers(s, c) # ca) THEN noclock ELSE ca

MCClockNets ==
    {[Empty EXCEPT
        !.cells = (21 :> Gate("or", <<10>>, <<11>>, <<>>, <<12>>))
                  @@ (IF kind \in {"mux", "gate", "and"} THEN 22 :> Switch(kind, s) ELSE <<>>),
        !.latches = IF kind = "latch" THEN 23 :> [pin |-> [d |-> <<1>>, en |-> <<s>>], q |-> <<13>>]
                    ELSE <<>>,
        !.flops = (1 :> FF(c, <<5>>, <<10>>)) @@ (2 :> FF(cb, <<5>>, <<11>>))
                  @@ (IF kind = "divider" THEN 3 :> With(FF(ca, <<13>>, <<13>>), "en", <<s>>) ELSE <<>>)
                  @@ (5 :> ByClock(FF(ca, <<x>>, <<14>>), 13, ClockBehind(kind, s, c),
                                RootBehind(kind)))
                  @@ (6 :> FF(cb, <<14>>, <<15>>)),
        !.tags = tags] :
        kind \in {"mux", "gate", "and", "latch", "divider"}, s \in {10, 12, 4}, c \in {ca, cb, cc},
        x \in {4, 1, 13}, tags \in {Untagged, Tagged("glitchless", {10})}}

(* Registers on a port no create_clock names.                              *)
ByPort(c, dd, q) == [FF(c, dd, q) EXCEPT !.clock = IF c = cc THEN untyped ELSE c]
MCUndeclared ==
    {[Empty EXCEPT
        !.ports = (103 :> InPort({3}, untyped, FALSE)) @@ @,
        !.flops = (1 :> FF(ca, <<4>>, <<10>>)) @@ (2 :> ByPort(c, <<10>>, <<11>>))
                  @@ (3 :> ByPort(c, <<11>>, <<12>>)),
        !.named = cc :> untyped, !.undeclared = {cc}] : c \in {cb, cc}}

(***************************************************************************)
(* Events: a pulse, a toggle or a level of ca, and how cb takes it.        *)
(***************************************************************************)
Shaper(kind) ==
    CASE kind = "pulse" -> (21 :> Gate("and", <<13>>, <<14>>, <<>>, <<9>>))
                           @@ (22 :> Gate("not", <<15>>, <<>>, <<>>, <<14>>))
      [] kind = "toggle" -> (21 :> Gate("mux", <<10>>, <<14>>, <<13>>, <<9>>))
                            @@ (22 :> Gate("not", <<10>>, <<>>, <<>>, <<14>>))
      [] kind = "level" -> 21 :> Gate("or", <<13>>, <<15>>, <<>>, <<9>>)
MCEvents ==
    {[Empty EXCEPT
        !.cells = Shaper(kind) @@ (23 :> Gate("xor", <<12>>, <<x>>, <<>>, <<18>>)),
        !.flops = (1 :> FF(ca, <<9>>, <<10>>)) @@ (2 :> FF(cb, <<10>>, <<11>>))
                  @@ (3 :> FF(cb, <<11>>, <<12>>)) @@ (4 :> FF(c, <<12>>, <<16>>))
                  @@ (5 :> FF(ca, <<4>>, <<13>>)) @@ (6 :> FF(g, <<13>>, <<15>>))
                  @@ (7 :> FF(cb, <<18>>, <<19>>)),
        !.period = (ca :> 2) @@ (cb :> slow), !.tags = tags] :
        kind \in {"pulse", "toggle", "level"}, x \in {16, 11, 5}, c \in {ca, cb}, g \in {ca, cb},
        slow \in {3, 4}, tags \in {Untagged, Tagged("cdc_handshake", {10})}}

(***************************************************************************)
(* A port without a clock, taken by D or SRST pins directly or through one *)
(* lane of logic, and a port of ca that reaches a chain of cb through      *)
(* logic; ca may be generated from cb.                                     *)
(***************************************************************************)
MCPorts ==
    {[Empty EXCEPT
        !.ports = @ @@ (108 :> InPort({8}, untyped, FALSE)),
        !.cells = (21 :> Gate("and", <<8, 4>>, <<5, 5>>, <<>>, <<13, 16>>))
                  @@ (22 :> Gate("or", <<p>>, <<q>>, <<>>, <<14>>)),
        !.flops = (1 :> With(FF(ca, <<a>>, <<10>>), "srst", r)) @@ (2 :> FF(cb, <<14>>, <<11>>))
                  @@ (3 :> FF(cb, <<11>>, <<12>>))
                  @@ (4 :> With(FF(c, <<b>>, <<15>>), "srst", <<s>>)),
        !.primary = IF derived /\ a = 8 /\ b = 8 THEN ca :> cb ELSE <<>>,
        !.async = IF derived /\ a = 8 /\ b = 8 THEN @ \ {{ca, cb}} ELSE @,
        !.tags = tags] :
        a \in {8, 13, 16}, b \in {8, 16, 5}, s \in {5, 13}, r \in {<<>>, <<8>>}, c \in {ca, cb},
        p \in {4, 5}, q \in {4, 5, 10}, tags \in {Untagged, Tagged("cdc_sync", {11})},
        derived \in BOOLEAN}

(* Latches between the domains.                                            *)
MCLatches ==
    {[Empty EXCEPT
        !.cells = 21 :> Gate("and", <<10>>, <<16>>, <<>>, <<13>>),
        !.latches = 22 :> [pin |-> [d |-> <<dd>>, en |-> <<5>>], q |-> <<12>>],
        !.flops = (1 :> FF(ca, <<4>>, <<10>>)) @@ (2 :> FF(c, <<12>>, <<11>>))
                  @@ (3 :> FF(cb, <<11>>, <<14>>)) @@ (4 :> FF(cc, <<e>>, <<15>>))
                  @@ (5 :> FF(g, <<4>>, <<16>>)),
        !.tags = tags] :
        dd \in {10, 13, 4}, c \in {ca, cb}, e \in {12, 4}, g \in {ca, cc},
        tags \in {Untagged, Tagged("cdc_sync", {11})}}

(* Words of ca taken apart, by a decoder or by slices.                     *)
MCWords ==
    {[Empty EXCEPT
        !.cells = (21 :> Gate("dec", <<4, 4>>, <<>>, <<>>, <<6, 7>>))
                  @@ (22 :> Gate("xor", <<15, 16>>, <<16, const>>, <<>>, <<17, 18>>)),
        !.flops = (1 :> FF(ca, <<6>>, <<10>>)) @@ (2 :> FF(ca, <<y>>, <<11>>))
                  @@ (3 :> FF(cb, <<10>>, <<12>>)) @@ (4 :> FF(c, <<11>>, <<13>>))
                  @@ (5 :> FF(ca, dd, <<8, 9>>)) @@ (6 :> FF(cb, e, [i \in DOMAIN e |-> 18 + i]))
                  @@ (7 :> FF(cb, <<9>>, <<14>>)),
        !.tags = tags] :
        y \in {7, 4}, c \in {cb, cc}, dd \in {<<17, 18>>, <<4, 4>>}, e \in {<<8>>, <<8, 9>>, <<5>>},
        tags \in {Untagged, Tagged("cdc_gray", {9}), Tagged("cdc_static", {10}),
                  Tagged("cdc_handshake", {8})}}

(* Chains whose stages differ in reset or clock edge.                      *)
MCStages ==
    {[Empty EXCEPT
        !.flops = (1 :> FF(ca, <<4>>, <<10>>)) @@ (2 :> FF(cb, <<10>>, <<11>>))
                  @@ (3 :> [With(FF(cb, <<11>>, <<12>>), pin, <<r>>) EXCEPT !.edge = e])
                  @@ (4 :> [FF(cb, <<12>>, <<13>>) EXCEPT !.edge = g])
                  @@ (5 :> FF(ca, <<4>>, <<14>>)),
        !.tags = tags] :
        pin \in {"arst", "srst"}, r \in {14, 13, 5}, e \in {"pos", "neg"}, g \in {"pos", "neg"},
        tags \in {Untagged, Tagged("cdc_sync", {11})}}

MCMacros ==
    {[Empty EXCEPT !.macros = 1 :> [xpm |-> x, handshake |-> h, stages |-> <<n, m>>]] :
        x \in BOOLEAN, h \in BOOLEAN, n \in {none, 2, 4}, m \in {none, 2, 4}}

(* Two registers of cb in a row, on a clock the SDC calls cc.              *)
MCRenamed ==
    {[Empty EXCEPT
        !.ports = [p \in DOMAIN @ \ {103} |-> IF p = 102 THEN InPort({2}, cc, TRUE) ELSE @[p]],
        !.flops = (1 :> FF(ca, <<4>>, <<10>>)) @@ (2 :> [FF(cb, <<10>>, <<11>>) EXCEPT !.clock = cc])
                  @@ (3 :> [FF(cb, <<11>>, <<12>>) EXCEPT !.clock = cc]),
        !.named = cb :> cc]}

MCDesigns ==
    UNION {MCChains, MCPacked, MCBuses, MCReconvergence, MCTwoTakers, MCResetChains, MCResetSources,
           MCClockNets, MCUndeclared, MCEvents, MCPorts, MCLatches, MCWords, MCStages, MCMacros}
=============================================================================
