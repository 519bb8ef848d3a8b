----------------------------- MODULE Crossings -----------------------------
(***************************************************************************)
(* find_crossings (domain.py) and the fanout filter that prunes it.        *)
(*                                                                         *)
(* The design is chosen once, in net:                                      *)
(*   net.cells   the cells of the module (see Netlist)                     *)
(*   net.src     what a walk starts from: the Q bits of a flop, an input   *)
(*               port the SDC types, an output pin of a summarised         *)
(*               instance; each with its clock                             *)
(*   net.sink    what a walk may land on: the D bits of a flop, or of the  *)
(*               synthetic flop that stands for an input pin of a          *)
(*               summarised instance; each with its clock                  *)
(* A flop is a source and a sink under the same name, with the one clock   *)
(* of its FlopDomain.  Clocks are those assign_domains resolved; NoClock   *)
(* is an unresolved one (None).                                            *)
(*                                                                         *)
(* The filter first walks backward from the D pins, one clock at a time,   *)
(* recording dist[c][b], the fewest cells from b to a D pin in clock c.    *)
(* Then one forward walk per source runs level by level, flops first,      *)
(* ports next, instance pins last; only the flop walk consults the filter. *)
(* A level of a walk is one step: nothing else reads its state meanwhile.  *)
(***************************************************************************)
EXTENDS Netlist, FiniteSetsExt

CONSTANTS
    Clock,      \* clock names
    NoClock,    \* an unresolved clock (None)
    Source,     \* names of sources
    Sink,       \* names of sinks
    Idle,       \* no walk in progress
    MaxHops,    \* max_hops: combinational cells a walk may traverse
    Design      \* the designs a run considers

Far == MaxHops + 1          \* no distance recorded
Hops == 0..Far
Stage == {"filter", "flop", "port", "pin", "done"}

SourceRec == [kind : {"flop", "port", "pin"}, bits : SUBSET Bit, clock : Clock \cup {NoClock}]
SinkRec == [bits : SUBSET Bit, clock : Clock \cup {NoClock}]
IsDesign(n) ==
    /\ DOMAIN n = {"cells", "src", "sink"}
    /\ \A x \in DOMAIN n.cells : n.cells[x] \in Cell
    /\ n.src \in [Source -> SourceRec]
    /\ n.sink \in [Sink -> SinkRec]
    /\ \A s \in Source \cap Sink : n.src[s].clock = n.sink[s].clock

ASSUME HopsAssumption == MaxHops \in Nat
ASSUME NameAssumption ==
    /\ NoClock \notin Clock
    /\ Idle \notin Clock \cup Source
    /\ Clock \cap Source = {}
ASSUME DesignAssumption == \A n \in Design : IsDesign(n)

VARIABLES
    net,        \* the design, never changed
    stage,      \* which loop of the code is running
    pending,    \* clocks or sources the loop has not taken yet
    cur,        \* the clock or source whose walk is in progress
    depth,      \* cells traversed by the current walk
    frontier,   \* bits reached at exactly that depth
    expanded,   \* reverse lists the current backward walk has read
    dist,       \* dist_to: cells from a bit to a D pin of a clock
    seen,       \* seen: fewest cells from a source to a bit
    grouped     \* the crossing records, one per (source, sink)

vars == <<net, stage, pending, cur, depth, frontier, expanded, dist, seen, grouped>>
walk == <<depth, frontier, expanded>>

(* No bits: no record for the pair. *)
NoRecord == [hops |-> Far, bits |-> {}]
Record == [hops : Hops, bits : SUBSET Bit]

SourcesOf(kind) == {s \in Source : net.src[s].kind = kind}

(* seeds_by_clock: every D bit of a sink in clock c. *)
Seeds(c) == {b \in Bit : \E t \in Sink : net.sink[t].clock = c /\ b \in net.sink[t].bits}

(* A wrong variant of Useful: the budget comparison is off by one. *)
UsefulOffByOne(b, hops, clock) ==
    \E c \in Clock : c # clock /\ dist[c][b] < MaxHops - hops

(* useful: some clock other than the source's is close enough to b. *)
Useful(b, hops, clock) ==
    \E c \in Clock : c # clock /\ dist[c][b] <= MaxHops - hops

(* The sinks a walk from s records when it stands on b: not the flop it     *)
(* came from, known, and foreign.                                           *)
Foreign(s, t) ==
    /\ t # s
    /\ net.sink[t].clock # NoClock
    /\ net.sink[t].clock # net.src[s].clock

Lands(s, b) == {t \in Sink : Foreign(s, t) /\ b \in net.sink[t].bits}

Init ==
    /\ net \in Design
    /\ stage = "filter"
    /\ pending = {c \in Clock : \E t \in Sink : net.sink[t].clock = c /\ net.sink[t].bits # {}}
    /\ cur = Idle
    /\ depth = 0
    /\ frontier = {}
    /\ expanded = {}
    /\ dist = [c \in Clock |-> [b \in Bit |-> Far]]
    /\ seen = [s \in Source |-> [b \in Bit |-> Far]]
    /\ grouped = [s \in Source |-> [t \in Sink |-> NoRecord]]

------------------------------------------------------------------------------
(* The filter. *)

(* A wrong variant of StartClock: the lists read for the last clock stay read. *)
StartClockKeepsLists(c) ==
    /\ stage = "filter" /\ cur = Idle /\ c \in pending
    /\ cur' = c
    /\ pending' = pending \ {c}
    /\ depth' = 0
    /\ frontier' = Seeds(c)
    /\ dist' = [dist EXCEPT ![c] = [b \in Bit |-> IF b \in Seeds(c) THEN 0 ELSE dist[c][b]]]
    /\ UNCHANGED <<net, stage, expanded, seen, grouped>>

StartClock(c) ==
    /\ stage = "filter" /\ cur = Idle /\ c \in pending
    /\ cur' = c
    /\ pending' = pending \ {c}
    /\ depth' = 0
    /\ frontier' = Seeds(c)
    /\ expanded' = {}
    /\ dist' = [dist EXCEPT ![c] = [b \in Bit |-> IF b \in Seeds(c) THEN 0 ELSE dist[c][b]]]
    /\ UNCHANGED <<net, stage, seen, grouped>>

(* The reverse lists this level reads: each list once per clock. *)
NewLists == (UNION {RevLists(net.cells, b) : b \in frontier}) \ expanded

BackwardReach(c) ==
    {pb \in Bit : dist[c][pb] = Far /\ \E l \in NewLists : pb \in ListBits(net.cells, l)}

BackwardLevel ==
    /\ stage = "filter" /\ cur \in Clock
    /\ frontier # {} /\ depth < MaxHops
    /\ depth' = depth + 1
    /\ expanded' = expanded \cup NewLists
    /\ frontier' = BackwardReach(cur)
    /\ dist' = [dist EXCEPT ![cur] =
                  [b \in Bit |-> IF b \in frontier' THEN depth + 1 ELSE dist[cur][b]]]
    /\ UNCHANGED <<net, stage, pending, cur, seen, grouped>>

ClockDone ==
    /\ stage = "filter" /\ cur \in Clock
    /\ frontier = {} \/ depth >= MaxHops
    /\ cur' = Idle
    /\ UNCHANGED <<net, stage, pending, walk, dist, seen, grouped>>

FilterDone ==
    /\ stage = "filter" /\ cur = Idle /\ pending = {}
    /\ stage' = "flop"
    /\ pending' = SourcesOf("flop")
    /\ UNCHANGED <<net, cur, walk, dist, seen, grouped>>

------------------------------------------------------------------------------
(* The forward walks. *)

(* A flop whose clock is unknown is not walked. *)
SkipFlop(s) ==
    /\ stage = "flop" /\ cur = Idle /\ s \in pending
    /\ net.src[s].clock = NoClock
    /\ pending' = pending \ {s}
    /\ UNCHANGED <<net, stage, cur, walk, dist, seen, grouped>>

StartSource(s) ==
    /\ stage \in {"flop", "port", "pin"} /\ cur = Idle /\ s \in pending
    /\ stage = "flop" => net.src[s].clock # NoClock
    /\ cur' = s
    /\ pending' = pending \ {s}
    /\ depth' = 0
    /\ frontier' = net.src[s].bits
    /\ seen' = [seen EXCEPT ![s] = [b \in Bit |-> IF b \in net.src[s].bits THEN 0 ELSE Far]]
    /\ UNCHANGED <<net, stage, expanded, dist, grouped>>

(* A wrong variant of RecordLanding: a later landing overwrites min_hops. *)
RecordLandingLastHops(s, t) ==
    LET hit == {b \in frontier : t \in Lands(s, b)}
        old == grouped[s][t]
    IN  IF hit = {} THEN old
        ELSE [hops |-> depth, bits |-> old.bits \cup hit]

(* The records after the walk from s has looked at every frontier bit. *)
RecordLanding(s, t) ==
    LET hit == {b \in frontier : t \in Lands(s, b)}
        old == grouped[s][t]
    IN  IF hit = {} THEN old
        ELSE [hops |-> IF depth < old.hops THEN depth ELSE old.hops,
              bits |-> old.bits \cup hit]

(* Bits pushed through their readers: all of them within the hop budget,   *)
(* and for a flop only those from which a foreign clock is in reach.       *)
Pushed(s) ==
    {b \in frontier :
        /\ depth < MaxHops
        /\ net.src[s].kind = "flop" => Useful(b, depth, net.src[s].clock)}

Step(n, s, b) == IF n.src[s].kind = "pin" THEN FwdAll(n.cells, b) ELSE Fwd(n.cells, b)

ForwardReach(s) ==
    {ob \in Bit : seen[s][ob] = Far /\ \E b \in Pushed(s) : ob \in Step(net, s, b)}

WalkLevel ==
    /\ stage \in {"flop", "port", "pin"} /\ cur \in Source /\ frontier # {}
    /\ grouped' = [grouped EXCEPT ![cur] = [t \in Sink |-> RecordLanding(cur, t)]]
    /\ frontier' = ForwardReach(cur)
    /\ seen' = [seen EXCEPT ![cur] =
                  [b \in Bit |-> IF b \in frontier' THEN depth + 1 ELSE seen[cur][b]]]
    /\ depth' = depth + 1
    /\ UNCHANGED <<net, stage, pending, cur, expanded, dist>>

SourceDone ==
    /\ stage \in {"flop", "port", "pin"} /\ cur \in Source /\ frontier = {}
    /\ cur' = Idle
    /\ UNCHANGED <<net, stage, pending, walk, dist, seen, grouped>>

NextStage ==
    /\ cur = Idle /\ pending = {}
    /\ \/ stage = "flop" /\ stage' = "port" /\ pending' = SourcesOf("port")
       \/ stage = "port" /\ stage' = "pin" /\ pending' = SourcesOf("pin")
       \/ stage = "pin" /\ stage' = "done" /\ pending' = {}
    /\ UNCHANGED <<net, cur, walk, dist, seen, grouped>>

(* The list of crossings is returned: the walk is over. *)
Returned == stage = "done" /\ UNCHANGED vars

Next ==
    \/ \E c \in Clock : StartClock(c)
    \/ BackwardLevel
    \/ ClockDone
    \/ FilterDone
    \/ \E s \in Source : SkipFlop(s) \/ StartSource(s)
    \/ WalkLevel
    \/ SourceDone
    \/ NextStage
    \/ Returned

(* One thread runs the walk to its end. *)
Spec == Init /\ [][Next]_vars /\ WF_vars(Next)

------------------------------------------------------------------------------
TypeOK ==
    /\ IsDesign(net)
    /\ stage \in Stage
    /\ pending \subseteq Clock \cup Source
    /\ cur \in Clock \cup Source \cup {Idle}
    /\ depth \in Nat
    /\ frontier \subseteq Bit
    /\ dist \in [Clock -> [Bit -> Hops]]
    /\ seen \in [Source -> [Bit -> Hops]]
    /\ grouped \in [Source -> [Sink -> Record]]

(* The bits a source reaches within k cells, whatever the filter thinks of  *)
(* them: what find_crossings has to find.                                   *)
ReachWithin(n, s, k) == Within([b \in Bit |-> Step(n, s, b)], n.src[s].bits, k)

(* A source takes part in the search: a flop with no known clock does not. *)
Searched(n, s) == n.src[s].kind = "flop" => n.src[s].clock # NoClock

Endpoints(n, s, t) ==
    /\ Searched(n, s)
    /\ n.sink[t].clock # NoClock
    /\ n.sink[t].clock # n.src[s].clock

(* The landing bits of a pair within k cells. *)
LandingBits(n, s, t, k) ==
    IF Endpoints(n, s, t) THEN ReachWithin(n, s, k) \cap n.sink[t].bits ELSE {}

(***************************************************************************)
(* The fanout filter measures exactly what the forward walk can do: a bit  *)
(* is at distance at most k from a clock iff k forward steps from it reach *)
(* a D pin in that clock.  "The exact reverse of the forward walk's edges" *)
(* (_make_fanout_filter), stored per cell, read once per clock, lane lists *)
(* kept apart from shared ones.                                            *)
(***************************************************************************)
FilterExact ==
    stage = "done" =>
        \A c \in Clock, b \in Bit, k \in 0..MaxHops :
            dist[c][b] <= k
            <=> Within([x \in Bit |-> Fwd(net.cells, x)], {b}, k) \cap Seeds(c) # {}

(***************************************************************************)
(* The records are exact, whatever the walk skipped: a (source, sink) pair *)
(* has a record iff its clocks are known and differ and a D bit lies       *)
(* within MaxHops cells, the record holds every such bit (its width), and  *)
(* min_hops is the length of the shortest path.                            *)
(***************************************************************************)
RecordsExact ==
    stage = "done" =>
        \A s \in Source, t \in Sink :
            /\ grouped[s][t].bits = LandingBits(net, s, t, MaxHops)
            /\ \A k \in 0..MaxHops :
                  grouped[s][t].hops <= k <=> LandingBits(net, s, t, k) # {}

(***************************************************************************)
(* The walk from a source only ever writes records of that source, and a   *)
(* record, once there, keeps its min_hops: the first landing is the        *)
(* nearest one.  The code tests "hops < min_hops" on every landing.        *)
(***************************************************************************)
FirstLandingIsNearest ==
    [][\A s \in Source, t \in Sink :
         grouped[s][t].bits # {} =>
            /\ grouped'[s][t].hops = grouped[s][t].hops
            /\ grouped[s][t].bits \subseteq grouped'[s][t].bits]_vars

(***************************************************************************)
(* The inductive invariant.  dist and seen are closed: a bit that was      *)
(* expanded passes its distance plus one on to every neighbour.  A clock   *)
(* or source is finished when its walk has run, and in progress while it   *)
(* is cur; a walk in progress has done this for the bits below its depth.  *)
(***************************************************************************)
Pred(ob, pb) == \E l \in RevLists(net.cells, ob) : pb \in ListBits(net.cells, l)

(* Every bit nearer than d cells has handed its distance to its predecessors. *)
DistClosedBelow(c, d) ==
    /\ \A b \in Seeds(c) : dist[c][b] = 0
    /\ \A ob, pb \in Bit :
          dist[c][ob] < d /\ dist[c][ob] < MaxHops /\ Pred(ob, pb)
          => dist[c][pb] <= dist[c][ob] + 1

ClockFinished(c) == stage # "filter" \/ (c \notin pending /\ cur # c)

FilterInv ==
    /\ stage = "filter" =>
          \A c \in pending : \A b \in Bit : dist[c][b] = Far
    /\ cur \in Clock =>
          /\ stage = "filter"
          /\ cur \notin pending
          /\ depth <= MaxHops
          /\ \A b \in Bit : dist[cur][b] <= depth \/ dist[cur][b] = Far
          /\ frontier = {b \in Bit : dist[cur][b] = depth}
          /\ \A l \in expanded : \A b \in Bit :
                b \in ListBits(net.cells, l) => dist[cur][b] <= depth
          /\ DistClosedBelow(cur, depth)
    /\ \A c \in Clock : ClockFinished(c) => DistClosedBelow(c, MaxHops)

(* The walk of s pushes b through its readers when it stands there at h. *)
Pushes(s, b, h) ==
    /\ h < MaxHops
    /\ net.src[s].kind = "flop" => Useful(b, h, net.src[s].clock)

(* Every bit nearer than d cells was recorded and pushed on. *)
SeenClosedBelow(s, d) ==
    /\ \A b \in net.src[s].bits : seen[s][b] = 0
    /\ \A b \in Bit :
          seen[s][b] < d /\ seen[s][b] <= MaxHops =>
            /\ Pushes(s, b, seen[s][b]) =>
                  \A ob \in Step(net, s, b) : seen[s][ob] <= seen[s][b] + 1
            /\ \A t \in Lands(s, b) :
                  /\ b \in grouped[s][t].bits
                  /\ grouped[s][t].hops <= seen[s][b]

StagesAfter(kind) ==
    CASE kind = "flop" -> {"port", "pin", "done"}
      [] kind = "port" -> {"pin", "done"}
      [] kind = "pin" -> {"done"}

SourceFinished(s) ==
    \/ stage \in StagesAfter(net.src[s].kind)
    \/ stage = net.src[s].kind /\ s \notin pending /\ cur # s

WalkInv ==
    /\ stage \in {"flop", "port", "pin"} => pending \subseteq SourcesOf(stage)
    /\ cur \in Source =>
          /\ stage = net.src[cur].kind
          /\ cur \notin pending
          /\ \A b \in Bit : seen[cur][b] <= depth \/ seen[cur][b] = Far
          /\ frontier = {b \in Bit : seen[cur][b] = depth /\ depth <= MaxHops}
          /\ SeenClosedBelow(cur, depth)
    /\ \A s \in Source : Searched(net, s) /\ SourceFinished(s) => SeenClosedBelow(s, Far)
    /\ stage = "done" => cur = Idle

IInv == TypeOK /\ FilterInv /\ WalkInv
=============================================================================
