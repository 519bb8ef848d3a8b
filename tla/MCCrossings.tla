---------------------------- MODULE MCCrossings ----------------------------
(***************************************************************************)
(* Small designs for Crossings, in two families.                           *)
(* Loops has three cells in a row, so that a hop budget of two ends inside *)
(* the design; every cell can also be fed directly, around the others or   *)
(* from its own output:                                                    *)
(*   1 = fa.Q   2 = fb.Q   8 = input port pi   9 = output pin of pn        *)
(*   g1 (bitwise, two lanes) drives 3, 4                                   *)
(*   g2 (two outputs)        drives 5, 6                                   *)
(*   g3 (one lane)           drives 7                                      *)
(* DesignsWith has a two-lane cell gm (5, 6) of every kind, between two    *)
(* two-bit registers (fa: 1, 2; fb: 3, 4), and a tail gt (7) that may feed *)
(* gm again: the cells in which lanes matter.                              *)
(***************************************************************************)
EXTENDS CrossingsRefine, CrossingsSilicon

CONSTANTS c1, c2, none, idle, const, nodata

MCBit == 1..9
MCClock == {c1, c2}
MCSource == {"fa", "fb", "pi", "pn"}
MCSink == {"fa", "fb", "in"}

Pins(a, b, s, y) == [p \in PinName |->
    CASE p = "A" -> a [] p = "B" -> b [] p = "S" -> s [] p = "Y" -> y]
MakeCell(k, a, b, s, y) == [kind |-> k, pin |-> Pins(a, b, s, y)]

G1 == {MakeCell("bitwise", a, b, <<>>, <<3, 4>>) :
          a \in {<<1, 8>>, <<9, 1>>}, b \in {<<2>>, <<5, 6>>}}
G2 == {MakeCell("wide", <<3>>, <<7>>, <<>>, <<5, 6>>),
       MakeCell("wide", <<4, 2>>, <<>>, <<>>, <<5, 6>>),
       MakeCell("mux", <<3, 4>>, <<2, const>>, <<1>>, <<5, 6>>),
       MakeCell("mux", <<3, 4>>, <<8, const>>, <<9>>, <<5, 6>>),
       MakeCell("scopeinfo", <<3>>, <<>>, <<>>, <<5, 6>>)}
G3 == {MakeCell("bitwise", a, <<>>, <<>>, <<7>>) : a \in {<<5>>, <<6>>, <<3>>}}

Endings == {[src |-> [s \in MCSource |->
                CASE s = "fa" -> [kind |-> "flop", bits |-> {1}, clock |-> c1]
                  [] s = "fb" -> [kind |-> "flop", bits |-> {2}, clock |-> cb]
                  [] s = "pi" -> [kind |-> "port", bits |-> {8}, clock |-> c2]
                  [] s = "pn" -> [kind |-> "pin", bits |-> {9}, clock |-> cp]],
             sink |-> [t \in MCSink |->
                CASE t = "fa" -> [bits |-> da, clock |-> c1]
                  [] t = "fb" -> [bits |-> {7}, clock |-> cb]
                  [] t = "in" -> [bits |-> {5, 6}, clock |-> c2]]] :
             <<cb, cp, da>> \in {<<c2, c2, {4}>>, <<c2, c2, {6, 7}>>,
                                <<none, c2, {6, 7}>>, <<c2, none, {6, 7}>>}}

Loops ==
    {[cells |-> [x \in {"g1", "g2", "g3"} |->
                    CASE x = "g1" -> g1 [] x = "g2" -> g2 [] x = "g3" -> g3],
      src |-> e.src, sink |-> e.sink] :
        g1 \in G1, g2 \in G2, g3 \in G3, e \in Endings}

(* A two-way multiplexer, one-armed and three-armed $pmux cells, and       *)
(* bitwise cells with operands narrower and wider than the result.         *)
Muxes ==
    {MakeCell("mux", <<1, 3>>, <<7, 8>>, <<s>>, <<5, 6>>) : s \in {2, 9}}
    \cup {MakeCell("pmux", <<3, 5>>, <<1, 2>>, <<s>>, <<5, 6>>) : s \in {8, 4}}
    \cup {MakeCell("pmux", <<3, const>>, <<9, 4, 7, 8, 2, 1>>, <<1, 3, s>>, <<5, 6>>) : s \in {2, 8}}
    \cup {MakeCell("bitwise", <<1>>, <<3, 7, 2>>, <<>>, <<5, 6>>),
          MakeCell("bitwise", <<9, 1>>, <<2, 8>>, <<>>, <<5, 6>>)}

Tails == {MakeCell("bitwise", <<b>>, <<3>>, <<>>, <<7>>) : b \in {5, 6}}
         \cup {MakeCell("wide", <<5, 2>>, <<6>>, <<>>, <<7>>)}

Sources(cp) == [s \in MCSource |->
    CASE s = "fa" -> [kind |-> "flop", bits |-> {1, 2}, clock |-> c1]
      [] s = "fb" -> [kind |-> "flop", bits |-> {3, 4}, clock |-> c2]
      [] s = "pi" -> [kind |-> "port", bits |-> {8}, clock |-> c1]
      [] s = "pn" -> [kind |-> "pin", bits |-> {9}, clock |-> cp]]
Sinks(da, db) == [t \in MCSink |->
    CASE t = "fa" -> [bits |-> da, clock |-> c1]
      [] t = "fb" -> [bits |-> db, clock |-> c2]
      [] t = "in" -> [bits |-> {}, clock |-> c2]]

DesignsWith(muxes) ==
    {[cells |-> [x \in {"gm", "gt"} |-> CASE x = "gm" -> m [] x = "gt" -> g],
      src |-> Sources(cp), sink |-> Sinks(da, db)] :
        m \in muxes, g \in Tails, cp \in {c2, none}, da \in {{7}, {5, 6}}, db \in {{5}, {6, 7}}}

MCDesign == Loops \cup DesignsWith(Muxes)
ASSUME \A n \in MCDesign : SelectsStayWide(n.cells)

(* A case statement with two arms on a two-bit register: as many select    *)
(* bits as output lanes.                                                   *)
SquarePmux == DesignsWith({MakeCell("pmux", <<3, 4>>, <<9, 9, 9, 9>>, <<1, 8>>, <<5, 6>>)})
=============================================================================
