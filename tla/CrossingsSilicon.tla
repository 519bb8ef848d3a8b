-------------------------- MODULE CrossingsSilicon --------------------------
(***************************************************************************)
(* The crossing search beside the hardware it speaks about.  Once the      *)
(* search has returned, a change of data is launched at a source and       *)
(* travels, one combinational cell at a time, wherever silicon lets it     *)
(* (Influences in Netlist, not the edges of the walk).  If it is still     *)
(* within the hop budget when it stands on the D pin of a flop in another  *)
(* clock, the search must have reported that pair.                         *)
(*                                                                         *)
(* The change is an auxiliary variable: it stands for every path at once,  *)
(* which lets the claim be an invariant.                                   *)
(***************************************************************************)
EXTENDS Crossings

CONSTANT NoData     \* no change is travelling

VARIABLES
    at,         \* the bit the change stands on
    launched,   \* the source it was launched from
    crossed     \* combinational cells it has traversed

data == <<at, launched, crossed>>
hwVars == <<vars, data>>

ASSUME NoDataAssumption == NoData \notin Bit /\ NoData \notin Source

HwInit ==
    /\ Init
    /\ at = NoData
    /\ launched = NoData
    /\ crossed = 0

Search == Next /\ UNCHANGED data

Launch(s) ==
    /\ stage = "done" /\ launched = NoData
    /\ Searched(net, s)
    /\ launched' = s
    /\ at' \in net.src[s].bits
    /\ crossed' = 0
    /\ UNCHANGED vars

Travel ==
    /\ launched # NoData /\ crossed < MaxHops
    /\ at' \in Silicon(net.cells, at)
    /\ crossed' = crossed + 1
    /\ UNCHANGED <<vars, launched>>

HwNext == Search \/ (\E s \in Source : Launch(s)) \/ Travel

HwSpec == HwInit /\ [][HwNext]_hwVars /\ WF_vars(Next)

------------------------------------------------------------------------------
HwTypeOK ==
    /\ TypeOK
    /\ at \in Bit \cup {NoData}
    /\ launched \in Source \cup {NoData}
    /\ crossed \in 0..MaxHops
    /\ at = NoData <=> launched = NoData

(***************************************************************************)
(* No crossing is lost: data that reaches the D pin of a foreign flop      *)
(* within the budget was reported, with that bit counted in the width and  *)
(* with a min_hops that is no longer than the path taken.                  *)
(***************************************************************************)
NoSilentCrossing ==
    launched # NoData =>
        \A t \in Sink :
            t \in Lands(launched, at) =>
                /\ at \in grouped[launched][t].bits
                /\ grouped[launched][t].hops <= crossed

(* The travelling change is never ahead of the walk, unless the filter has *)
(* shown that no foreign flop is left within its budget.                   *)
DataInv ==
    launched # NoData =>
        /\ stage = "done"
        /\ Searched(net, launched)
        /\ \/ seen[launched][at] <= crossed
           \/ /\ net.src[launched].kind = "flop"
              /\ ~Useful(at, crossed, net.src[launched].clock)

HwInv == IInv /\ HwTypeOK /\ DataInv
=============================================================================
