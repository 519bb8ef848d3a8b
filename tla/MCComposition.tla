--------------------------- MODULE MCComposition ---------------------------
(***************************************************************************)
(* Small designs for Composition.  Parent registers fa, ga run on ra and   *)
(* fb, gb on rb; rc is synchronous to rb.  Instances u and v.              *)
(***************************************************************************)
EXTENDS CompositionFlat, TLC

CONSTANTS ra, rb, rc, none

Families == [r \in {ra, rb, rc} |-> IF r = ra THEN "A" ELSE "B"]

Block(kind, out, flop) ==
    [grey |-> TRUE, in |-> DOMAIN kind, out |-> out, kind |-> kind,
     role |-> [p \in DOMAIN kind |-> "none"], srcOut |-> {},
     flop |-> [f \in DOMAIN flop |-> [pin |-> flop[f], hops |-> 0]],
     wire |-> {}, logic |-> {}, ctl |-> {}, sync |-> {}, forward |-> <<>>]

At(root, hops) == [from |-> root, hops |-> hops]
TopClk == [c \in {<<"top", f>> : f \in {"fa", "ga", "fb", "gb"}} |->
              IF c[2] \in {"fa", "ga"} THEN At(ra, 0) ELSE At(rb, 0)]

Top(f) == <<"top", f>>
MakeDesign(type, body, clk, wire) ==
    [type |-> type, body |-> body, clk |-> TopClk @@ clk, wire |-> wire,
     family |-> Families, named |-> {ra, rb, rc}, prims |-> {"prim"}]

UV(t, s) == [i \in {"u", "v"} |-> IF i = "u" THEN t ELSE s]

(***************************************************************************)
(* One module of two clocks, twice: wired alike, in opposite directions,   *)
(* onto one clock or two synchronous ones, near and beyond the budget.     *)
(***************************************************************************)
Fifo(grey) ==
    [Block([p \in {"clk_a", "clk_b", "d"} |->
               IF p = "d" THEN "data" ELSE "clocklike"],
           {"q"}, ("h" :> "clk_a") @@ ("k" :> "clk_b"))
     EXCEPT !.grey = grey, !.wire = {<<"d", "h">>, <<"h", "k">>, <<"k", "q">>}]

DualClk(i, x, y, n, m) == (<<i, "clk_a">> :> At(x, n)) @@ (<<i, "clk_b">> :> At(y, m))

MCTwice ==
    {MakeDesign(UV("fifo", "fifo"), "fifo" :> Fifo(grey),
                DualClk("u", x[1], x[2], n[1], n[2]) @@ DualClk("v", y[1], y[2], 0, 0),
                {<<Top(s), <<"u", "d">>>>, <<<<"u", "q">>, <<"v", "d">>>>,
                 <<<<"v", "q">>, Top("gb")>>}) :
        grey \in BOOLEAN, x \in {ra, rb, rc} \X {ra, rb, rc},
        y \in {ra, rb} \X {ra, rb}, n \in {<<0, 0>>, <<0, 2>>, <<0, 3>>, <<3, 0>>},
        s \in {"fa", "fb"}}

(***************************************************************************)
(* Two blocks in a row, each on one clock, on none or on two: registered,  *)
(* passing through, or both.                                               *)
(***************************************************************************)
(* What drives the output goes through one gate if the input does.         *)
Together(edges) ==
    IF <<"d", "q">> \in edges THEN edges \cap {<<"d", "q">>, <<"h", "q">>} ELSE {}

Stage(grey, kind, edges) ==
    [Block([p \in {"clk", "clk_b", "d"} |->
               CASE p = "clk" -> kind [] p = "clk_b" -> "clocklike" [] p = "d" -> "data"],
           {"q"}, IF <<"h", "q">> \in edges THEN "h" :> "clk" ELSE <<>>)
     EXCEPT !.grey = grey, !.wire = edges \ Together(edges), !.logic = Together(edges)]

Through == {{<<"d", "q">>}, {<<"d", "h">>, <<"h", "q">>}, {<<"h", "q">>, <<"d", "q">>},
            {<<"d", "h">>, <<"h", "q">>, <<"d", "q">>}}

StageClk(i, c) ==
    CASE c = "one_a" -> <<i, "clk">> :> At(ra, 0)
      [] c = "one_b" -> <<i, "clk">> :> At(rb, 1)
      [] c = "deep" -> <<i, "clk">> :> At(rb, 3)
      [] c = "two" -> (<<i, "clk">> :> At(rb, 0)) @@ (<<i, "clk_b">> :> At(ra, 0))

MCRow ==
    {MakeDesign(UV("s", "t"), ("s" :> Stage(g[1], k, e1)) @@ ("t" :> Stage(g[2], "clock", e2)),
                StageClk("u", c1) @@ StageClk("v", c2),
                {<<Top(s), <<"u", "d">>>>, <<<<"u", "q">>, <<"v", "d">>>>,
                 <<<<"v", "q">>, Top("gb")>>, <<<<"u", "q">>, Top("ga")>>}) :
        g \in {<<TRUE, TRUE>>, <<FALSE, TRUE>>, <<FALSE, FALSE>>},
        k \in {"clock", "clocklike"}, e1 \in Through, e2 \in Through,
        c1 \in {"one_a", "one_b", "deep", "two"}, c2 \in {"one_a", "one_b"},
        s \in {"fa", "fb"}}

(***************************************************************************)
(* One block with two synchronizers whose values meet inside or not.       *)
(***************************************************************************)
Pair(grey, first, meet) ==
    [Block([p \in {"clk", "a", "b"} |-> IF p = "clk" THEN "clock" ELSE "data"],
           {"q"}, [f \in {"h", "k", "x", "y", "m", "n"} |-> "clk"])
     EXCEPT !.grey = grey,
            !.wire = {<<"h", "k">>, <<"x", "y">>} \cup (first \X {"h"})
                       \cup ({"b"} \X {"x"}),
            !.logic = meet \cup {<<"m", "q">>} \cup (({"a"} \ first) \X {"h"})]

MCMeeting ==
    {MakeDesign("u" :> "pair", "pair" :> Pair(grey, first, meet),
                <<"u", "clk">> :> At(r, 0),
                {<<Top(s), <<"u", "a">>>>, <<Top(t), <<"u", "b">>>>,
                 <<<<"u", "q">>, Top("gb")>>}) :
        grey \in BOOLEAN, first \in {{"a"}, {}}, r \in {rb, rc},
        s \in {"fa", "fb"}, t \in {"fa", "ga"},
        meet \in {{<<"k", "m">>, <<"y", "m">>}, {<<"k", "m">>, <<"y", "n">>},
                  {<<"k", "m">>, <<"y", "q">>}, {<<"k", "n">>, <<"y", "n">>, <<"k", "m">>},
                  {<<"h", "m">>, <<"y", "m">>}}}

(***************************************************************************)
(* One port and what may become of it inside: taken on D, behind a gate,   *)
(* on an enable, twice; passed on; a second stage of either clock.         *)
(***************************************************************************)
Taker(dh, hk, tap, pin, sync) ==
    [Block([p \in {"clk", "clk_b", "d"} |-> IF p = "d" THEN "data" ELSE "clocklike"],
           {"q", "z"}, ("h" :> "clk") @@ ("k" :> pin) @@ ("x" :> "clk_b"))
     EXCEPT !.wire = {<<"k", "q">>} \cup dh.wire \cup hk.wire \cup tap.wire,
            !.logic = dh.logic \cup hk.logic \cup tap.logic,
            !.ctl = dh.ctl \cup tap.ctl, !.sync = sync]

Edge(kind, e) == [wire |-> IF kind = "wire" THEN {e} ELSE {},
                  logic |-> IF kind = "logic" THEN {e} ELSE {},
                  ctl |-> IF kind = "ctl" THEN {e} ELSE {}]

MCTakers ==
    {MakeDesign("u" :> "t", "t" :> Taker(Edge(a, <<"d", "h">>), Edge(b, <<"h", "k">>),
                                         Edge(c[1], <<c[2], c[3]>>), pin, sync),
                (<<"u", "clk">> :> At(rb, 0)) @@ (<<"u", "clk_b">> :> At(y, 0)),
                {<<Top("fa"), <<"u", "d">>>>, <<<<"u", "q">>, Top("ga")>>,
                 <<<<"u", "z">>, Top("gb")>>}) :
        a \in {"wire", "logic", "ctl"}, b \in {"wire", "logic"}, y \in {ra, rc},
        pin \in {"clk", "clk_b"}, sync \in {{}, {"h"}},
        c \in {<<"wire", "d", "z">>, <<"logic", "d", "z">>, <<"wire", "d", "x">>,
               <<"ctl", "d", "k">>, <<"wire", "h", "z">>, <<"ctl", "h", "x">>,
               <<"logic", "k", "x">>, <<"wire", "x", "z">>}}

(***************************************************************************)
(* Sanctioned synchronizers, which drive what is not named after the       *)
(* source side from the destination side, and modules that carry a clock   *)
(* out.                                                                    *)
(***************************************************************************)
Prim(roles, out, side) ==
    [Block([p \in {"ck", "ck2", "d"} |-> IF p = "d" THEN "data" ELSE "clocklike"],
           {"q", "r"}, ("h" :> "ck") @@ ("s" :> side))
     EXCEPT !.grey = FALSE, !.role = [p \in {"ck", "ck2", "d"} |->
                CASE p = "ck" -> roles[1] [] p = "ck2" -> roles[2] [] p = "d" -> "none"],
            !.wire = {<<"d", "h">>, <<"h", "q">>, <<"s", "r">>}, !.srcOut = out]

MCPrims ==
    {MakeDesign("u" :> t,
                t :> Prim(roles, out, IF out = {"r"} /\ roles[2] = "src" THEN "ck2" ELSE "ck"),
                (<<"u", "ck">> :> At(x, n)) @@ (<<"u", "ck2">> :> At(y, 0)),
                {<<Top("fa"), <<"u", "d">>>>, <<<<"u", "q">>, Top(s)>>,
                 <<<<"u", "r">>, Top("gb")>>}) :
        t \in {"prim", "other"}, out \in {{}, {"r"}}, s \in {"ga", "gb"},
        roles \in {<<"dest", "src">>, <<"none", "src">>, <<"dest", "none">>, <<"none", "none">>},
        x \in {ra, rb}, y \in {ra, rb}, n \in {0, 3}}

Tile(grey, kind) ==
    [Block([p \in {"clk", "d"} |-> IF p = "d" THEN "data" ELSE kind],
           {"q", "co"}, "h" :> "clk")
     EXCEPT !.grey = grey, !.wire = {<<"d", "h">>, <<"h", "q">>},
            !.forward = "co" :> [pin |-> "clk", hops |-> 1]]

MCForwarders ==
    {[MakeDesign(UV("tile", t), ("tile" :> Tile(grey, kind)) @@ ("leaf" :> Tile(FALSE, "clock"))
                                  @@ ("prim" :> Tile(grey, kind)),
                 (<<"u", "clk">> :> At(ra, 0)) @@ (<<"v", "clk">> :> c)
                     @@ (Top("gc") :> At(from, n)),
                 {<<Top("fb"), <<"u", "d">>>>, <<<<"u", "q">>, <<"v", "d">>>>,
                  <<Top("fb"), <<"v", "d">>>>, <<Top("fb"), Top("gc")>>,
                  <<<<"v", "q">>, Top("gb")>>, <<Top("gc"), Top("gb")>>})
      EXCEPT !.prims = {"prim"} \cap {t}] :
        grey \in BOOLEAN, kind \in {"clock", "clocklike"}, t \in {"tile", "leaf", "prim"},
        c \in {At(<<"u", "co">>, 0), At(<<"u", "co">>, 3), At(<<"u", "co">>, 4), At(rb, 0), At(none, 0)},
        from \in {<<"u", "co">>, <<"v", "co">>, ra}, n \in {0, 1, 2}}

(***************************************************************************)
(* Cells between the pin and the registers of a block, where the budget of *)
(* the block's own analysis begins again.                                  *)
(***************************************************************************)
Deeper(hops) ==
    [Fifo(TRUE) EXCEPT !.flop = [f \in {"h", "k"} |->
                           [pin |-> "clk_a", hops |-> IF f = "k" THEN hops ELSE 0]]]

MCDeepInside ==
    {MakeDesign("u" :> "fifo", "fifo" :> Deeper(hops), DualClk("u", rb, ra, n, 0),
                {<<Top("fa"), <<"u", "d">>>>, <<<<"u", "q">>, Top("ga")>>}) :
        n \in 0..3, hops \in 0..3}

(***************************************************************************)
(* What a block that carries a clock out feeds: a module of two clocks, a  *)
(* block of two synchronizers, the register that enters it.                *)
(***************************************************************************)
MCFed ==
    {MakeDesign(UV("tile", "fifo"), ("tile" :> Tile(grey, kind)) @@ ("fifo" :> Fifo(g)),
                (<<"u", "clk">> :> At(x, 0))
                    @@ (<<"v", "clk_a">> :> a) @@ (<<"v", "clk_b">> :> b),
                {<<Top("fa"), <<"v", "d">>>>, <<<<"v", "q">>, Top("gb")>>,
                 <<<<"u", "q">>, <<"v", "d">>>>}) :
        grey \in BOOLEAN, g \in BOOLEAN, kind \in {"clock", "clocklike"}, x \in {ra, rb},
        a \in {At(<<"u", "co">>, 0), At(<<"u", "co">>, 2), At(ra, 0), At(none, 0)},
        b \in {At(<<"u", "co">>, 0), At(rb, 0)}}

MCFedPair ==
    {MakeDesign(UV("tile", "pair"),
                ("tile" :> Tile(FALSE, "clock")) @@
                    ("pair" :> Pair(grey, {"a"}, {<<"k", "m">>, <<"y", "m">>})),
                (<<"u", "clk">> :> At(ra, 0)) @@ (Top("gc") :> c)
                    @@ (<<"v", "clk">> :> v),
                {<<Top("gc"), <<"v", "a">>>>, <<Top("gc"), <<"v", "b">>>>}) :
        grey \in BOOLEAN, c \in {At(<<"u", "co">>, 0), At(rb, 0), At(ra, 0)},
        v \in {At(<<"u", "co">>, 0), At(rb, 0), At(ra, 0)}}

MCDesign ==
    UNION {MCTwice, MCRow, MCMeeting, MCTakers, MCPrims, MCForwarders, MCDeepInside, MCFed,
           MCFedPair}

(* Clocks that go by another name than their port's.                       *)
MCRenamed == {[d EXCEPT !.named = {ra}] : d \in MCTwice}
=============================================================================
