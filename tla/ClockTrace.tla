----------------------------- MODULE ClockTrace -----------------------------
(***************************************************************************)
(* Clock-domain assignment (domain.py): every flop's CLK net is traced     *)
(* back through the clock network to a root, and the nodes where two       *)
(* declared clocks meet are recorded.                                      *)
(*                                                                         *)
(* The clock network is a function from bits to what drives them:          *)
(*   "pin"     the net of a create_generated_clock target: its clock       *)
(*   "port"    a top-level input port                                      *)
(*   "buffer"  one leg, transparent: buffers and inverters                 *)
(*   "divider" one leg: the CLK of the flop whose Q drives the bit         *)
(*   "gate"    legs A, B          "latch"  legs D, EN, E                   *)
(*   "mux"     legs A, B                                                   *)
(*   "other"   nothing the tracer walks through (or no driver)             *)
(* A pin wins over a port, a port over a driver, as in _trace.             *)
(*                                                                         *)
(* identity gives the declared clock a root stands for, NoClock for a root *)
(* that is none (an enable, an <unconstrained> port).                      *)
(***************************************************************************)
EXTENDS Naturals, Sequences, FiniteSets, Functions, Reach

CONSTANTS
    Bit,        \* bits of clock nets
    Const,      \* a constant leg
    Root,       \* names of ports and of generated clocks
    NoRoot,     \* a trace that resolves to nothing (None)
    Clock,      \* declared clocks
    NoClock,
    Flop,
    Network,    \* the clock networks a run considers
    Budget      \* the values of max_depth a run considers

Wire == Bit \cup {Const}
NodeKind == {"pin", "port", "buffer", "divider", "gate", "latch", "mux", "other"}
Node == [kind : NodeKind, name : Root \cup {NoRoot}, legs : Seq(Wire)]

VARIABLES
    net,        \* [node, clk, identity]: the network, the CLK bit of each flop
    budget,     \* --clock-trace-depth
    untraced,   \* flops the loop of assign_domains has not reached
    domain,     \* the root of each flop's trace, before the SDC renames it
    combines    \* decline events: the cell's output bit, the clocks, the flop

vars == <<net, budget, untraced, domain, combines>>

ASSUME TraceAssumption ==
    /\ Const \notin Bit /\ NoRoot \notin Root /\ NoClock \notin Clock
    /\ Budget \subseteq Nat \ {0}

(* A source has a name, a transparent cell one input.                      *)
IsNetwork(n) ==
    /\ n.node \in [Bit -> Node]
    /\ n.clk \in [Flop -> Wire]
    /\ n.identity \in [Root -> Clock \cup {NoClock}]
    /\ \A b \in Bit :
          /\ n.node[b].kind \in {"pin", "port"} => n.node[b].name \in Root
          /\ n.node[b].kind \in {"buffer", "divider"} => Len(n.node[b].legs) <= 1

ASSUME NetworkAssumption == \A n \in Network : IsNetwork(n)

------------------------------------------------------------------------------
(* What a trace of one bit yields: a root and the declines on the way.     *)
Nothing == [root |-> NoRoot, declines |-> {}]

(* The legs of a cell whose trace found a root, and the first of some.     *)
Resolved(results) == {i \in DOMAIN results : results[i].root # NoRoot}
FirstRoot(results, legs) == results[CHOOSE i \in legs : \A j \in legs : i <= j].root

(* The legs that bring a declared clock, and the clocks that met.          *)
DeclaredLegs(n, results) ==
    {i \in Resolved(results) : n.identity[results[i].root] # NoClock}
Met(n, results) == {n.identity[results[i].root] : i \in DeclaredLegs(n, results)}

(* A wrong variant of Pick: the first leg wins whatever it is.             *)
PickFirstLeg(n, results) ==
    IF Resolved(results) = {} THEN NoRoot ELSE FirstRoot(results, Resolved(results))

(* A wrong variant of Pick: two roots decline, be they one clock or none.  *)
PickComparesRoots(n, results) ==
    IF Cardinality({results[i].root : i \in Resolved(results)}) = 1
    THEN FirstRoot(results, Resolved(results)) ELSE NoRoot

(* _pick_combining_root: two declared clocks decline; one declared clock   *)
(* wins in any leg order; otherwise the first leg that resolved.           *)
Pick(n, results) ==
    CASE Resolved(results) = {} \/ Cardinality(Met(n, results)) >= 2 -> NoRoot
      [] Cardinality(Met(n, results)) = 1 -> FirstRoot(results, DeclaredLegs(n, results))
      [] OTHER -> FirstRoot(results, Resolved(results))

(* A gate or a latch: every leg is walked, then one root is picked.        *)
Combine(n, b, results) ==
    LET met == Met(n, results)
    IN  [root |-> Pick(n, results),
         declines |-> (UNION {results[i].declines : i \in DOMAIN results})
                      \cup (IF Cardinality(met) >= 2 THEN {<<b, met>>} ELSE {})]

(* A mux: legs are walked in order until one resolves.                     *)
Select(results) ==
    LET hits == Resolved(results)
        walked == {i \in DOMAIN results : \A j \in hits : i <= j}
    IN  [root |-> IF hits = {} THEN NoRoot ELSE FirstRoot(results, hits),
         declines |-> UNION {results[i].declines : i \in walked}]

(* _trace of bit b.  "path" is the set the code calls seen: legs get a     *)
(* copy of it, so it always holds the bits between the CLK pin and here.   *)
(* "below" is the same walk with one cell less to go.                      *)
Visit(n, below, b, path) ==
    LET node == n.node[b]
        results == [i \in DOMAIN node.legs |-> below[node.legs[i]][path \cup {b}]]
    IN  IF b = Const \/ b \in path THEN Nothing
        ELSE CASE node.kind \in {"pin", "port"} -> [root |-> node.name, declines |-> {}]
               [] node.kind \in {"buffer", "divider"} /\ node.legs # <<>> -> results[1]
               [] node.kind \in {"gate", "latch"} -> Combine(n, b, results)
               [] node.kind = "mux" -> Select(results)
               [] OTHER -> Nothing

Trace(n, depth, bit) ==
    LET trace[d \in 0..depth] ==
            [b \in Wire |-> [path \in SUBSET Bit |->
                IF d = 0 THEN Nothing ELSE Visit(n, trace[d - 1], b, path)]]
    IN  trace[depth][bit][{}]

------------------------------------------------------------------------------
Init ==
    /\ net \in Network
    /\ budget \in Budget
    /\ untraced = Flop
    /\ domain = [f \in Flop |-> NoRoot]
    /\ combines = {}

(* A wrong variant of TraceFlop: the walk goes one cell too far. *)
TraceFlopOneMore(f) ==
    LET walk == Trace(net, budget + 1, net.clk[f])
    IN  /\ f \in untraced
        /\ untraced' = untraced \ {f}
        /\ domain' = [domain EXCEPT ![f] = walk.root]
        /\ combines' = combines \cup {<<d[1], d[2], f>> : d \in walk.declines}
        /\ UNCHANGED <<net, budget>>

(* One flop of assign_domains, and of find_clock_combines, which runs the  *)
(* same walk with a recorder attached.                                     *)
TraceFlop(f) ==
    LET walk == Trace(net, budget, net.clk[f])
    IN  /\ f \in untraced
        /\ untraced' = untraced \ {f}
        /\ domain' = [domain EXCEPT ![f] = walk.root]
        /\ combines' = combines \cup {<<d[1], d[2], f>> : d \in walk.declines}
        /\ UNCHANGED <<net, budget>>

Assigned == untraced = {} /\ UNCHANGED vars

Next == (\E f \in Flop : TraceFlop(f)) \/ Assigned

Spec == Init /\ [][Next]_vars

------------------------------------------------------------------------------
Traced(f) == f \notin untraced

(* The bits whose signal reaches the CLK pin of f within the budget, over  *)
(* all legs, and the roots that physically feed it.                        *)
WalkedKinds == {"buffer", "divider", "gate", "latch", "mux"}
LegStep(n) ==
    [b \in Bit |-> IF n.node[b].kind \in WalkedKinds THEN Range(n.node[b].legs) \cap Bit ELSE {}]
ClockCone(f) == Within(LegStep(net), {net.clk[f]} \cap Bit, budget - 1)

Feeds(f) == {net.node[b].name : b \in {x \in ClockCone(f) : net.node[x].kind \in {"pin", "port"}}}

DeclaredFeeds(f) == {net.identity[r] : r \in Feeds(f)} \ {NoClock}

MuxFree(f) == \A b \in ClockCone(f) : net.node[b].kind # "mux"

DeclinedFor(f) == {c \in combines : c[3] = f}

(***************************************************************************)
(* A flop is never given a clock that does not reach its CLK pin, and a    *)
(* combine is only ever reported where two clocks that feed the flop meet. *)
(***************************************************************************)
DomainFeedsFlop ==
    \A f \in Flop :
        /\ domain[f] # NoRoot => domain[f] \in Feeds(f)
        /\ \A c \in DeclinedFor(f) :
              c[2] \subseteq DeclaredFeeds(f) /\ Cardinality(c[2]) >= 2

(***************************************************************************)
(* A walk that declined nothing and met no mux is exact: the flop is       *)
(* unresolved only if nothing feeds it, and the clock it gets is the only  *)
(* declared clock there is in its whole clock network, whatever the shape  *)
(* of the network, its reconvergences, its loops and the leg order.        *)
(***************************************************************************)
CleanWalkIsExact ==
    \A f \in Flop :
        Traced(f) /\ DeclinedFor(f) = {} /\ MuxFree(f) =>
            /\ domain[f] = NoRoot <=> Feeds(f) = {}
            /\ domain[f] # NoRoot =>
                  DeclaredFeeds(f) = {net.identity[domain[f]]} \ {NoClock}

(***************************************************************************)
(* A larger --clock-trace-depth loses a flop only to a combine it reports: *)
(* a flop resolved under a smaller budget is still resolved, or there is a *)
(* decline behind it.                                                      *)
(***************************************************************************)
DeeperLosesOnlyToCombine ==
    \A f \in Flop, d \in Budget :
        /\ Traced(f) /\ d < budget
        /\ Trace(net, d, net.clk[f]).root # NoRoot
        /\ domain[f] = NoRoot
        => DeclinedFor(f) # {}
=============================================================================
