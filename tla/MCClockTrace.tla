---------------------------- MODULE MCClockTrace ----------------------------
(***************************************************************************)
(* Clock networks over eight bits:                                         *)
(*   1 = f.CLK, 2 = g.CLK, 3, 4 internal, 5 = port of clock c1,            *)
(*   6 = port of clock c2, 7 = an enable port, 8 = a generated clock c3    *)
(* Bits 1 to 4 are driven by every mix of the cells below, with sharing,   *)
(* loops, constants and legs of different depth.                           *)
(***************************************************************************)
EXTENDS ClockTrace

CONSTANTS c1, c2, c3, none, const

MCBit == 1..8
MCRoot == {"p1", "p2", "en", "gen"}
MCClock == {c1, c2, c3}
MCFlop == {"f", "g"}

Cells(kinds, legs) == {[kind |-> k, name |-> none, legs |-> l] : k \in kinds, l \in legs}
Leaf(k, n) == [kind |-> k, name |-> n, legs |-> <<>>]

Node1 == Cells({"gate", "mux", "latch"}, {<<2, 3>>, <<3, 4>>})
Node2 == Cells({"gate", "mux", "latch"}, {<<4, 5>>, <<5, 6>>, <<7, 5>>, <<1, 6>>})
         \cup Cells({"buffer", "divider"}, {<<8>>, <<4>>})
Node3 == Cells({"gate", "mux"}, {<<6, 7>>, <<4, 8>>, <<const, 5>>})
         \cup Cells({"buffer"}, {<<>>, <<5>>}) \cup {Leaf("other", none)}
Node4 == Cells({"buffer", "divider"}, {<<5>>, <<6>>})
         \cup Cells({"gate"}, {<<5, 7>>, <<2, 6>>})

MCNetwork ==
    {[node |-> [b \in MCBit |->
                   CASE b = 1 -> n1 [] b = 2 -> n2 [] b = 3 -> n3 [] b = 4 -> n4
                     [] b = 5 -> Leaf("port", "p1") [] b = 6 -> Leaf("port", "p2")
                     [] b = 7 -> Leaf("port", "en") [] b = 8 -> Leaf("pin", "gen")],
      clk |-> [f \in MCFlop |-> IF f = "f" THEN 1 ELSE 2],
      identity |-> [r \in MCRoot |->
                       CASE r = "p1" -> c1 [] r = "p2" -> c2 [] r = "en" -> none [] r = "gen" -> g]] :
        n1 \in Node1, n2 \in Node2, n3 \in Node3, n4 \in Node4, g \in {c1, c3}}

MCBudget == 1..5
=============================================================================
