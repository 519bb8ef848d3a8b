-------------------------- MODULE CrossingsTheorems --------------------------
(***************************************************************************)
(* What the edge relations of Netlist have to do with one another, that    *)
(* the crossing search keeps its inductive invariant, that its result is   *)
(* exact for every netlist and budget, and that no change travels through  *)
(* the silicon to a register of another clock unreported.                  *)
(***************************************************************************)
EXTENDS CrossingsRefine, CrossingsSilicon, Induction, FiniteSetTheorems

(* A port whose lanes line up with Y has the lanes of Y. *)
LEMMA LanePortDomain ==
    ASSUME NEW c \in Cell, NEW p \in PinName, LanePort(c, p)
    PROVE  DOMAIN c.pin[p] = DOMAIN c.pin["Y"]
  <1>1. c.pin[p] \in Seq(Wire) /\ c.pin["Y"] \in Seq(Wire)
    BY DEF Cell, PinName
  <1>2. Len(c.pin[p]) = Len(c.pin["Y"])
    BY DEF LanePort
  <1> QED  BY <1>1, <1>2

(***************************************************************************)
(* The reverse lists of _make_fanout_filter are the exact reverse of the   *)
(* edges the forward walk takes: pb is on a list of ob iff the walk steps  *)
(* from pb to ob.                                                          *)
(***************************************************************************)
THEOREM ReverseIsExact ==
    ASSUME NEW cells, \A x \in DOMAIN cells : cells[x] \in Cell,
           NEW ob \in Bit, NEW pb \in Bit
    PROVE  (\E l \in RevLists(cells, ob) : pb \in ListBits(cells, l)) <=> ob \in Fwd(cells, pb)
  <1> DEFINE driven == {x \in DOMAIN cells : Transit(cells[x]) /\ ob \in Outputs(cells[x])}
             lanes(x) == {j \in DOMAIN cells[x].pin["Y"] : cells[x].pin["Y"][j] = ob}
  <1>1. ASSUME NEW l \in RevLists(cells, ob), pb \in ListBits(cells, l)
        PROVE  ob \in Fwd(cells, pb)
    <2>1. CASE \E x \in driven : l = <<x, 0>>
      <3>1. PICK x \in driven : l = <<x, 0>>  BY <2>1
      <3>2. pb \in SharedList(cells[x])  BY <1>1, <3>1 DEF ListBits
      <3>3. PICK p \in PinName : ~LanePort(cells[x], p)
                 /\ \E i \in DOMAIN cells[x].pin[p] : cells[x].pin[p][i] = pb
        BY <3>2 DEF SharedList
      <3> QED  BY <3>3 DEF Fwd, LaneTargets, ReadAt
    <2>2. CASE \E x \in driven : \E k \in lanes(x) : l = <<x, k>>
      <3>1. PICK x \in driven : \E k \in lanes(x) : l = <<x, k>>  BY <2>2
      <3>1a. PICK k \in lanes(x) : l = <<x, k>>  BY <3>1
      <3>2. cells[x].pin["Y"] \in Seq(Wire)  BY DEF Cell, PinName
      <3>3. k # 0  BY <3>2
      <3>4. pb \in LaneList(cells[x], k)  BY <1>1, <3>1a, <3>3 DEF ListBits
      <3>5. PICK p \in PinName : LanePort(cells[x], p)
                 /\ k \in DOMAIN cells[x].pin[p] /\ cells[x].pin[p][k] = pb
        BY <3>4 DEF LaneList
      <3> QED  BY <3>5 DEF Fwd, LaneTargets, ReadAt
    <2> QED  BY <1>1, <2>1, <2>2 DEF RevLists
  <1>2. ASSUME ob \in Fwd(cells, pb)
        PROVE  \E l \in RevLists(cells, ob) : pb \in ListBits(cells, l)
    <2>1. PICK x \in DOMAIN cells, p \in PinName :
              /\ Transit(cells[x])
              /\ \E i \in DOMAIN cells[x].pin[p] :
                    ReadAt(cells[x], pb, p, i) /\ ob \in LaneTargets(cells[x], p, i)
      BY <1>2 DEF Fwd
    <2>2. PICK i \in DOMAIN cells[x].pin[p] :
              ReadAt(cells[x], pb, p, i) /\ ob \in LaneTargets(cells[x], p, i)
      BY <2>1
    <2>3. x \in driven  BY <2>1, <2>2 DEF LaneTargets
    <2>4. CASE LanePort(cells[x], p)
      <3>1. i \in DOMAIN cells[x].pin["Y"]  BY <2>2, <2>4, LanePortDomain
      <3>2. i \in lanes(x)  BY <2>2, <2>4, <3>1 DEF LaneTargets
      <3>3. <<x, i>> \in RevLists(cells, ob)  BY <2>3, <3>2 DEF RevLists
      <3>4. cells[x].pin["Y"] \in Seq(Wire)  BY DEF Cell, PinName
      <3>5. i # 0  BY <3>1, <3>4
      <3>6. pb \in LaneList(cells[x], i)  BY <2>2, <2>4 DEF LaneList, ReadAt
      <3>7. pb \in ListBits(cells, <<x, i>>)  BY <3>5, <3>6 DEF ListBits
      <3> QED  BY <3>3, <3>7
    <2>5. CASE ~LanePort(cells[x], p)
      <3>1. <<x, 0>> \in RevLists(cells, ob)  BY <2>3 DEF RevLists
      <3>2. pb \in SharedList(cells[x])  BY <2>2, <2>5 DEF SharedList, ReadAt
      <3>3. pb \in ListBits(cells, <<x, 0>>)  BY <3>2 DEF ListBits
      <3> QED  BY <3>1, <3>3
    <2> QED  BY <2>4, <2>5
  <1> QED  BY <1>1, <1>2

(* The boundary walk, which ignores lanes, steps wherever the others do. *)
LEMMA FwdWithinFwdAll ==
    ASSUME NEW cells, NEW b \in Bit
    PROVE  Fwd(cells, b) \subseteq FwdAll(cells, b)
  BY DEF Fwd, FwdAll, LaneTargets

(***************************************************************************)
(* _lane_targets loses no path of the silicon, "without dropping any real  *)
(* cross-lane path", as long as no select port is taken for a data lane.   *)
(***************************************************************************)
THEOREM LanesLoseNoPath ==
    ASSUME NEW cells, \A x \in DOMAIN cells : cells[x] \in Cell,
           SelectsStayWide(cells), NEW b \in Bit
    PROVE  Silicon(cells, b) \subseteq Fwd(cells, b)
  <1> SUFFICES ASSUME NEW ob \in Silicon(cells, b)  PROVE ob \in Fwd(cells, b)
    OBVIOUS
  <1>1. PICK x \in DOMAIN cells, p \in PinName :
            /\ Transit(cells[x])
            /\ \E i \in DOMAIN cells[x].pin[p] :
                  /\ cells[x].pin[p][i] = b
                  /\ \E k \in Influences(cells[x], p, i) : cells[x].pin["Y"][k] = ob
    BY DEF Silicon
  <1>2. PICK i \in DOMAIN cells[x].pin[p] :
            /\ cells[x].pin[p][i] = b
            /\ \E k \in Influences(cells[x], p, i) : cells[x].pin["Y"][k] = ob
    BY <1>1
  <1>3. PICK k \in Influences(cells[x], p, i) : cells[x].pin["Y"][k] = ob
    BY <1>2
  <1> DEFINE c == cells[x]
             w == Len(c.pin["Y"])
  <1>4. c \in Cell /\ ob \in Bit  BY DEF Silicon
  <1>5. c.pin[p] \in Seq(Wire) /\ c.pin["Y"] \in Seq(Wire)  BY <1>4 DEF Cell, PinName
  <1>6. w \in Nat /\ DOMAIN c.pin["Y"] = 1..w /\ DOMAIN c.pin[p] = 1..Len(c.pin[p])
    BY <1>5
  <1>7. k \in 1..w /\ p # "Y" /\ i \in 1..Len(c.pin[p])
    BY <1>3, <1>6 DEF Influences
  <1>8. LanePort(c, p) => k = i
    <2>1. CASE p = "S"
      <3>1. LanePort(c, p) => w <= 1 /\ i \in 1..w
        BY <2>1, <1>6, <1>7, LanePortDomain, <1>4 DEF SelectsStayWide, LanePort
      <3> QED  BY <3>1, <1>6, <1>7
    <2>2. CASE p \in {"A", "B"}
      BY <2>2, <1>3 DEF Influences, LanePort
    <2> QED  BY <2>1, <2>2, <1>7 DEF PinName
  <1>9. ob \in Outputs(c)  BY <1>3, <1>4, <1>6, <1>7 DEF Outputs
  <1>10. ob \in LaneTargets(c, p, i)  BY <1>3, <1>8, <1>9 DEF LaneTargets
  <1> QED  BY <1>1, <1>2, <1>4, <1>10 DEF Fwd, ReadAt
------------------------------------------------------------------------------
(* The search. *)

(* The facts about a design the steps use. *)
LEMMA DesignFacts ==
    ASSUME TypeOK
    PROVE  /\ \A x \in DOMAIN net.cells : net.cells[x] \in Cell
           /\ \A s \in Source : /\ net.src[s].kind \in {"flop", "port", "pin"}
                                /\ net.src[s].bits \subseteq Bit
                                /\ net.src[s].clock \in Clock \cup {NoClock}
           /\ \A t \in Sink : net.sink[t].bits \subseteq Bit
           /\ MaxHops \in Nat /\ Far = MaxHops + 1 /\ Hops = 0..(MaxHops + 1)
  BY HopsAssumption DEF TypeOK, IsDesign, SourceRec, SinkRec, Far, Hops

LEMMA InitTypeOK == Init => TypeOK
  <1> SUFFICES ASSUME Init PROVE TypeOK
    OBVIOUS
  <1>1. IsDesign(net)  BY DesignAssumption DEF Init
  <1>2. MaxHops \in Nat /\ Far \in Hops /\ 0 \in Hops /\ 0 \in Nat  BY HopsAssumption DEF Far, Hops
  <1>3. dist \in [Clock -> [Bit -> Hops]] /\ seen \in [Source -> [Bit -> Hops]]
    BY <1>2 DEF Init
  <1>4. grouped \in [Source -> [Sink -> Record]]
    BY <1>2 DEF Init, NoRecord, Record
  <1> QED  BY <1>1, <1>2, <1>3, <1>4 DEF Init, TypeOK, Stage

LEMMA NextTypeOK == TypeOK /\ [Next]_vars => TypeOK'
  <1> SUFFICES ASSUME TypeOK, [Next]_vars PROVE TypeOK'
    OBVIOUS
  <1> USE DEF TypeOK
  <1>0. MaxHops \in Nat /\ Far = MaxHops + 1 /\ Hops = 0..(MaxHops + 1)
    BY DesignFacts
  <1>1. ASSUME NEW c \in Clock, StartClock(c) PROVE TypeOK'
    <2>1. dist' \in [Clock -> [Bit -> Hops]]  BY <1>0, <1>1 DEF StartClock
    <2> QED  BY <1>0, <1>1, <2>1 DEF StartClock, Seeds
  <1>2. CASE BackwardLevel
    <2>1. depth + 1 \in Hops  BY <1>0, <1>2 DEF BackwardLevel
    <2>2. dist' \in [Clock -> [Bit -> Hops]]  BY <1>0, <1>2, <2>1 DEF BackwardLevel
    <2> QED  BY <1>0, <1>2, <2>1, <2>2 DEF BackwardLevel, BackwardReach
  <1>3. CASE ClockDone
    BY <1>3 DEF ClockDone, walk
  <1>4. CASE FilterDone
    BY <1>4 DEF FilterDone, walk, SourcesOf, Stage
  <1>5. ASSUME NEW s \in Source, SkipFlop(s) PROVE TypeOK'
    BY <1>5 DEF SkipFlop, walk
  <1>6. ASSUME NEW s \in Source, StartSource(s) PROVE TypeOK'
    <2>1. seen' \in [Source -> [Bit -> Hops]]  BY <1>0, <1>6 DEF StartSource
    <2>2. frontier' \subseteq Bit  BY <1>6, DesignFacts DEF StartSource
    <2> QED  BY <1>0, <1>6, <2>1, <2>2 DEF StartSource
  <1>7. CASE WalkLevel
    <2>1. cur \in Source /\ frontier # {}  BY <1>7 DEF WalkLevel
    <2>2. \A ob \in ForwardReach(cur) : depth < MaxHops /\ ob \in Bit
      BY DEF ForwardReach, Pushed
    <2>3. seen' \in [Source -> [Bit -> Hops]]
      <3>1. \A b \in Bit : (IF b \in ForwardReach(cur) THEN depth + 1 ELSE seen[cur][b]) \in Hops
        BY <1>0, <2>1, <2>2
      <3> QED  BY <1>7, <3>1 DEF WalkLevel
    <2>4. frontier' \subseteq Bit  BY <1>7, <2>2 DEF WalkLevel
    <2>5. grouped' \in [Source -> [Sink -> Record]]
      <3>1. ASSUME NEW t \in Sink PROVE RecordLanding(cur, t) \in Record
        <4>1. grouped[cur][t] \in Record  BY <2>1
        <4> QED  BY <1>0, <4>1 DEF RecordLanding, Record
      <3> QED  BY <1>7, <3>1 DEF WalkLevel
    <2>6. depth' \in Nat
      BY <1>7, <1>0 DEF WalkLevel
    <2> QED  BY <1>7, <2>3, <2>4, <2>5, <2>6 DEF WalkLevel
  <1>8. CASE SourceDone
    BY <1>8 DEF SourceDone, walk
  <1>9. CASE NextStage
    BY <1>9 DEF NextStage, walk, SourcesOf, Stage
  <1>10. CASE Returned \/ UNCHANGED vars
    BY <1>10 DEF Returned, vars
  <1> QED  BY <1>1, <1>2, <1>3, <1>4, <1>5, <1>6, <1>7, <1>8, <1>9, <1>10 DEF Next

LEMMA InitInvs == Init => FilterInv /\ WalkInv
  <1> SUFFICES ASSUME Init PROVE FilterInv /\ WalkInv
    OBVIOUS
  <1>0. TypeOK  BY InitTypeOK
  <1>1. ASSUME NEW c \in Clock, ClockFinished(c) PROVE DistClosedBelow(c, MaxHops)
    <2>1. c \notin pending  BY <1>1 DEF Init, ClockFinished
    <2>2. Seeds(c) = {}  BY <2>1, <1>1 DEF Init, Seeds
    <2>3. \A b \in Bit : dist[c][b] = Far  BY <1>1 DEF Init
    <2>4. ~(Far < MaxHops)  BY DesignFacts, <1>0
    <2> QED  BY <2>2, <2>3, <2>4 DEF DistClosedBelow
  <1>2. \A c \in Clock, b \in Bit : dist[c][b] = Far  BY DEF Init
  <1>3. cur \notin Clock /\ cur \notin Source  BY NameAssumption DEF Init
  <1>4. FilterInv
    <2>1. \A c \in pending : c \in Clock  BY DEF Init
    <2> QED  BY <1>1, <1>2, <1>3, <2>1 DEF FilterInv
  <1>5. ASSUME NEW s \in Source PROVE ~SourceFinished(s)
    BY DesignFacts, <1>0 DEF Init, SourceFinished, StagesAfter
  <1> QED  BY <1>3, <1>4, <1>5 DEF WalkInv, Init

(* Nothing the invariant says of the filter reads more than these.  The    *)
(* frame of every step that leaves the filter alone.                       *)
LEMMA SameNet ==
    ASSUME net' = net
    PROVE  /\ \A c : Seeds(c)' = Seeds(c)
           /\ \A ob, pb : Pred(ob, pb)' <=> Pred(ob, pb)
           /\ \A s, t : Foreign(s, t)' <=> Foreign(s, t)
           /\ \A s, b : Lands(s, b)' = Lands(s, b)
           /\ \A k : SourcesOf(k)' = SourcesOf(k)
  BY DEF Seeds, Pred, Foreign, Lands, SourcesOf

LEMMA DistClosedFrame ==
    ASSUME net' = net, NEW c, dist'[c] = dist[c], NEW d, DistClosedBelow(c, d)
    PROVE  DistClosedBelow(c, d)'
  BY SameNet DEF DistClosedBelow

------------------------------------------------------------------------------
(* The backward walk. *)

LEMMA FilterStart ==
    ASSUME IInv, NEW k \in Clock, StartClock(k)
    PROVE  FilterInv'
  <1> USE DEF IInv
  <1>0. /\ net' = net /\ cur' = k /\ k \in pending /\ stage = "filter" /\ stage' = stage
        /\ pending' = pending \ {k} /\ cur = Idle /\ depth' = 0 /\ expanded' = {}
        /\ frontier' = Seeds(k)
    BY DEF StartClock
  <1>1. MaxHops \in Nat /\ Far = MaxHops + 1  BY DesignFacts
  <1>2. \A b \in Bit : dist'[k][b] = IF b \in Seeds(k) THEN 0 ELSE Far
    BY <1>0 DEF StartClock, FilterInv, TypeOK
  <1>3. \A c \in Clock \ {k} : dist'[c] = dist[c]  BY DEF StartClock, TypeOK
  <1>4. pending \subseteq Clock \cup Source  BY DEF TypeOK
  <1>5. ASSUME NEW c \in pending' PROVE \A b \in Bit : dist'[c][b] = Far
    <2>1. c # k /\ c \in pending /\ \A b \in Bit : dist[c][b] = Far  BY <1>0, <1>5 DEF FilterInv
    <2>2. dist'[c] = dist[c]  BY <2>1, <1>0 DEF StartClock, TypeOK
    <2> QED  BY <2>1, <2>2
  <1>6. Seeds(k) \subseteq Bit  BY DEF Seeds
  <1>7. DistClosedBelow(k, 0)'
    <2>1. \A b \in Seeds(k)' : dist'[k][b] = 0  BY <1>0, <1>2, <1>6, SameNet
    <2>2. \A b \in Bit : ~(dist'[k][b] < 0)  BY <1>1, <1>2
    <2> QED  BY <2>1, <2>2 DEF DistClosedBelow
  <1>8. ASSUME NEW c \in Clock, ClockFinished(c)' PROVE DistClosedBelow(c, MaxHops)'
    <2>1. c # k /\ c \notin pending  BY <1>0, <1>8 DEF ClockFinished
    <2>2. DistClosedBelow(c, MaxHops)
      BY <1>0, <2>1, NameAssumption DEF FilterInv, ClockFinished
    <2> QED  BY <1>0, <1>3, <2>1, <2>2, DistClosedFrame
  <1>9. /\ \A b \in Bit : dist'[k][b] <= 0 \/ dist'[k][b] = Far
        /\ frontier' = {b \in Bit : dist'[k][b] = 0}
    BY <1>0, <1>1, <1>2, <1>6
  <1> QED  BY <1>0, <1>1, <1>5, <1>7, <1>8, <1>9 DEF FilterInv

LEMMA FilterLevel ==
    ASSUME IInv, BackwardLevel
    PROVE  FilterInv'
  <1>k. PICK k : k = cur  OBVIOUS
  <1>d. PICK d : d = depth + 1  OBVIOUS
  <1> DEFINE R == BackwardReach(k)
  <1> USE <1>k DEF IInv
  <1>0. /\ net' = net /\ cur' = k /\ k \in Clock /\ stage = "filter" /\ stage' = stage
        /\ pending' = pending /\ depth < MaxHops /\ depth' = depth + 1
        /\ expanded' = expanded \cup NewLists /\ frontier' = R
    BY DEF BackwardLevel
  <1>1. MaxHops \in Nat /\ Far = MaxHops + 1 /\ depth \in Nat  BY DesignFacts DEF TypeOK
  <1>2. \A b \in Bit : dist[k][b] \in Nat  BY <1>0, DesignFacts DEF TypeOK
  <1>3. \A b \in Bit : dist'[k][b] = IF b \in R THEN depth + 1 ELSE dist[k][b]
    BY <1>0 DEF BackwardLevel, TypeOK
  <1>4. \A c \in Clock \ {k} : dist'[c] = dist[c]  BY DEF BackwardLevel, TypeOK
  <1>5. \A b \in Bit : b \in R <=> dist[k][b] = Far /\ \E l \in NewLists : b \in ListBits(net.cells, l)
    BY DEF BackwardReach
  <1>6. /\ k \notin pending
        /\ \A b \in Bit : dist[k][b] <= depth \/ dist[k][b] = Far
        /\ frontier = {b \in Bit : dist[k][b] = depth}
        /\ \A l \in expanded : \A b \in Bit :
              b \in ListBits(net.cells, l) => dist[k][b] <= depth
        /\ DistClosedBelow(k, depth)
    BY <1>0 DEF FilterInv
  <1>7. ASSUME NEW c \in pending' PROVE \A b \in Bit : dist'[c][b] = Far
    <2>1. c # k /\ \A b \in Bit : dist[c][b] = Far  BY <1>0, <1>6, <1>7 DEF FilterInv
    <2>2. dist'[c] = dist[c]  BY <2>1, <1>0 DEF BackwardLevel, TypeOK
    <2> QED  BY <2>1, <2>2
  <1>8. \A b \in Bit : dist'[k][b] <= depth + 1 \/ dist'[k][b] = Far
    BY <1>1, <1>2, <1>3, <1>6
  <1>9. R = {b \in Bit : dist'[k][b] = depth + 1}
    <2>1. R \subseteq Bit  BY DEF BackwardReach
    <2>2. \A b \in Bit : b \notin R => dist'[k][b] # depth + 1  BY <1>0, <1>1, <1>2, <1>3, <1>6
    <2> HIDE DEF R
    <2> QED  BY <1>3, <2>1, <2>2
  <1>10. ASSUME NEW l \in expanded', NEW b \in Bit, b \in ListBits(net.cells, l)
         PROVE  dist'[k][b] <= depth + 1
    <2>1. CASE l \in expanded
      <3>1. dist[k][b] <= depth  BY <1>6, <1>10, <2>1
      <3>2. b \notin R  BY <1>5, <3>1, <1>0, <1>1, <1>2
      <3> QED  BY <1>1, <1>2, <1>3, <3>1, <3>2
    <2>2. CASE l \in NewLists
      BY <1>1, <1>2, <1>3, <1>5, <1>6, <1>10, <2>2
    <2> QED  BY <1>0, <1>10, <2>1, <2>2
  <1>11. DistClosedBelow(k, d)'
    <2>1. ASSUME NEW b \in Seeds(k)' PROVE dist'[k][b] = 0
      <3>1. b \in Seeds(k) /\ b \in Bit  BY <1>0, <2>1, SameNet DEF Seeds
      <3>2. dist[k][b] = 0  BY <1>6, <3>1 DEF DistClosedBelow
      <3>3. b \notin R  BY <1>5, <3>1, <3>2, <1>1
      <3> QED  BY <1>3, <3>1, <3>2, <3>3
    <2>2. ASSUME NEW ob \in Bit, NEW pb \in Bit,
                 dist'[k][ob] < depth + 1, dist'[k][ob] < MaxHops, Pred(ob, pb)'
          PROVE  dist'[k][pb] <= dist'[k][ob] + 1
      <3>1. ob \notin R /\ dist'[k][ob] = dist[k][ob]  BY <2>2, <1>1, <1>3
      <3>2. Pred(ob, pb)  BY <1>0, <2>2, SameNet
      <3>3. CASE dist[k][ob] < depth
        <4>1. dist[k][pb] <= dist[k][ob] + 1  BY <1>6, <2>2, <3>1, <3>2, <3>3 DEF DistClosedBelow
        <4>2. pb \notin R  BY <1>5, <4>1, <3>3, <1>0, <1>1, <1>2
        <4> QED  BY <1>3, <3>1, <4>1, <4>2
      <3>4. CASE dist[k][ob] = depth
        <4>1. PICK l \in RevLists(net.cells, ob) : pb \in ListBits(net.cells, l)
          BY <3>2 DEF Pred
        <4>2. ob \in frontier  BY <1>6, <3>4
        <4>3. l \in expanded'  BY <1>0, <4>1, <4>2 DEF NewLists
        <4>4. dist'[k][pb] <= depth + 1  BY <1>10, <4>1, <4>3
        <4> QED  BY <3>1, <3>4, <4>4
      <3> QED  BY <1>1, <1>2, <1>6, <2>2, <3>1, <3>3, <3>4
    <2> QED  BY <1>d, <2>1, <2>2 DEF DistClosedBelow
  <1>12. ASSUME NEW c \in Clock, ClockFinished(c)' PROVE DistClosedBelow(c, MaxHops)'
    <2>1. c # k /\ DistClosedBelow(c, MaxHops)
      BY <1>0, <1>12 DEF ClockFinished, FilterInv
    <2> QED  BY <1>0, <1>4, <2>1, DistClosedFrame
  <1>13. depth + 1 <= MaxHops  BY <1>0, <1>1
  <1> QED
    <2> HIDE DEF R
    <2> QED  BY <1>0, <1>d, <1>6, <1>7, <1>8, <1>9, <1>10, <1>11, <1>12, <1>13 DEF FilterInv

LEMMA FilterClockDone ==
    ASSUME IInv, ClockDone
    PROVE  FilterInv'
  <1>k. PICK k : k = cur  OBVIOUS
  <1> USE <1>k DEF IInv
  <1>0. /\ net' = net /\ cur' = Idle /\ k \in Clock /\ stage = "filter" /\ stage' = stage
        /\ pending' = pending /\ dist' = dist /\ (frontier = {} \/ depth >= MaxHops)
    BY DEF ClockDone
  <1>1. MaxHops \in Nat /\ Far = MaxHops + 1 /\ depth \in Nat  BY DesignFacts DEF TypeOK
  <1>2. \A b \in Bit : dist[k][b] \in Nat  BY <1>0, DesignFacts DEF TypeOK
  <1>3. DistClosedBelow(k, MaxHops)
    <2>1. /\ depth <= MaxHops
          /\ \A b \in Bit : dist[k][b] <= depth \/ dist[k][b] = Far
          /\ frontier = {b \in Bit : dist[k][b] = depth}
          /\ DistClosedBelow(k, depth)
      BY <1>0 DEF FilterInv
    <2>2. \A b \in Bit : dist[k][b] < MaxHops => dist[k][b] < depth
      BY <1>0, <1>1, <1>2, <2>1
    <2> QED  BY <2>1, <2>2 DEF DistClosedBelow
  <1>4. \A c \in Clock : ClockFinished(c)' => DistClosedBelow(c, MaxHops)'
    <2>1. ASSUME NEW c \in Clock, ClockFinished(c)' PROVE DistClosedBelow(c, MaxHops)
      BY <1>0, <1>3, <2>1 DEF ClockFinished, FilterInv
    <2> QED  BY <1>0, <2>1, DistClosedFrame
  <1> QED  BY <1>0, <1>4, NameAssumption DEF FilterInv

(* The steps that touch neither dist nor the walk of a clock. *)
LEMMA FilterFrame ==
    ASSUME IInv, net' = net, dist' = dist,
           \/ stage' = stage /\ stage # "filter"
           \/ FilterDone \/ NextStage,
           cur' \notin Clock
    PROVE  FilterInv'
  <1> USE DEF IInv
  <1>1. stage' # "filter"  BY DEF FilterDone, NextStage
  <1>2. \A c \in Clock : ClockFinished(c)
    BY NameAssumption DEF FilterDone, NextStage, ClockFinished
  <1>3. \A c \in Clock : DistClosedBelow(c, MaxHops)  BY <1>2 DEF FilterInv
  <1>4. \A c \in Clock : DistClosedBelow(c, MaxHops)'  BY <1>3, DistClosedFrame
  <1> QED  BY <1>1, <1>4 DEF FilterInv

LEMMA FilterInvKept == IInv /\ [Next]_vars => FilterInv'
  <1> SUFFICES ASSUME IInv, [Next]_vars PROVE FilterInv'
    OBVIOUS
  <1>1. ASSUME NEW c \in Clock, StartClock(c) PROVE FilterInv'  BY <1>1, FilterStart
  <1>2. CASE BackwardLevel  BY <1>2, FilterLevel
  <1>3. CASE ClockDone  BY <1>3, FilterClockDone
  <1>4. CASE FilterDone
    BY <1>4, FilterFrame, NameAssumption DEF FilterDone
  <1>5. ASSUME NEW s \in Source, SkipFlop(s) \/ StartSource(s) PROVE FilterInv'
    <2>1. net' = net /\ dist' = dist /\ stage' = stage /\ stage # "filter" /\ cur' \notin Clock
      BY <1>5, NameAssumption DEF SkipFlop, StartSource
    <2> QED  BY <2>1, FilterFrame
  <1>6. CASE WalkLevel \/ SourceDone
    <2>1. net' = net /\ dist' = dist /\ stage' = stage /\ stage # "filter" /\ cur' \notin Clock
      BY <1>6, NameAssumption DEF WalkLevel, SourceDone
    <2> QED  BY <2>1, FilterFrame
  <1>7. CASE NextStage
    BY <1>7, FilterFrame, NameAssumption DEF NextStage
  <1>8. CASE Returned \/ UNCHANGED vars
    <2>1. UNCHANGED vars  BY <1>8 DEF Returned
    <2>2. \A c : ClockFinished(c)' <=> ClockFinished(c)  BY <2>1 DEF vars, ClockFinished
    <2>3. \A c, d : DistClosedBelow(c, d) => DistClosedBelow(c, d)'
      BY <2>1, DistClosedFrame DEF vars
    <2> QED  BY <2>1, <2>2, <2>3 DEF vars, IInv, FilterInv
  <1> QED  BY <1>1, <1>2, <1>3, <1>4, <1>5, <1>6, <1>7, <1>8 DEF Next

------------------------------------------------------------------------------
(* The forward walks. *)

LEMMA SeenClosedFrame ==
    ASSUME net' = net, dist' = dist, NEW s, seen'[s] = seen[s], grouped'[s] = grouped[s],
           NEW d, SeenClosedBelow(s, d)
    PROVE  SeenClosedBelow(s, d)'
  <1>1. \A b, h : Pushes(s, b, h)' <=> Pushes(s, b, h)  BY DEF Pushes, Useful
  <1> QED  BY <1>1, SameNet DEF SeenClosedBelow, Step

(* While the filter runs no source has been walked. *)
LEMMA NothingWalked ==
    ASSUME TypeOK, stage = "filter", NEW s \in Source
    PROVE  ~SourceFinished(s)
  BY DesignFacts DEF SourceFinished, StagesAfter

LEMMA WalkDuringFilter ==
    ASSUME IInv, TypeOK', net' = net, stage = "filter", stage' = "filter", cur' \notin Source
    PROVE  WalkInv'
  <1>1. ASSUME NEW s \in Source PROVE ~SourceFinished(s)'
    BY DesignFacts DEF IInv, SourceFinished, StagesAfter
  <1> QED  BY <1>1 DEF WalkInv

LEMMA WalkFilterDone ==
    ASSUME IInv, FilterDone
    PROVE  WalkInv'
  <1> USE DEF IInv
  <1>0. net' = net /\ stage' = "flop" /\ pending' = SourcesOf("flop") /\ cur' = Idle
    BY DEF FilterDone
  <1>1. ASSUME NEW s \in Source PROVE ~SourceFinished(s)'
    BY <1>0, DesignFacts DEF SourceFinished, StagesAfter, SourcesOf
  <1> QED  BY <1>0, <1>1, NameAssumption, SameNet DEF WalkInv

LEMMA WalkSkip ==
    ASSUME IInv, NEW k \in Source, SkipFlop(k)
    PROVE  WalkInv'
  <1> USE DEF IInv
  <1>0. /\ net' = net /\ stage' = stage /\ stage = "flop" /\ cur' = Idle /\ cur = Idle
        /\ pending' = pending \ {k} /\ k \in pending
        /\ dist' = dist /\ seen' = seen /\ grouped' = grouped /\ ~Searched(net, k)
    BY DEF SkipFlop, Searched, WalkInv, SourcesOf
  <1>1. ASSUME NEW s \in Source, Searched(net, s)', SourceFinished(s)'
        PROVE  SeenClosedBelow(s, Far)'
    <2>1. Searched(net, s) /\ s # k  BY <1>0, <1>1 DEF Searched
    <2>2. SourceFinished(s)  BY <1>0, <1>1, <2>1 DEF SourceFinished, StagesAfter
    <2>3. SeenClosedBelow(s, Far)  BY <2>1, <2>2 DEF WalkInv
    <2> QED  BY <1>0, <2>3, SeenClosedFrame DEF Far
  <1> QED  BY <1>0, <1>1, NameAssumption, SameNet DEF WalkInv

LEMMA WalkStart ==
    ASSUME IInv, NEW k \in Source, StartSource(k)
    PROVE  WalkInv'
  <1> USE DEF IInv
  <1>0. /\ net' = net /\ stage' = stage /\ stage \in {"flop", "port", "pin"}
        /\ cur' = k /\ cur = Idle /\ k \in pending /\ pending' = pending \ {k}
        /\ depth' = 0 /\ frontier' = net.src[k].bits /\ dist' = dist /\ grouped' = grouped
    BY DEF StartSource
  <1>1. MaxHops \in Nat /\ Far = MaxHops + 1 /\ net.src[k].bits \subseteq Bit  BY DesignFacts
  <1>2. \A b \in Bit : seen'[k][b] = IF b \in net.src[k].bits THEN 0 ELSE Far
    BY DEF StartSource, TypeOK
  <1>3. stage = net.src[k].kind  BY <1>0 DEF WalkInv, SourcesOf
  <1>4. SeenClosedBelow(k, 0)'
    <2>1. \A b \in Bit : ~(seen'[k][b] < 0)  BY <1>1, <1>2
    <2>2. \A b \in net'.src[k].bits : seen'[k][b] = 0  BY <1>0, <1>1, <1>2
    <2> QED  BY <2>1, <2>2 DEF SeenClosedBelow
  <1>5. ASSUME NEW s \in Source, Searched(net, s)', SourceFinished(s)'
        PROVE  SeenClosedBelow(s, Far)'
    <2>1. s # k
      BY <1>0, <1>3, <1>5 DEF SourceFinished, StagesAfter
    <2>2. Searched(net, s) /\ SourceFinished(s)
      BY <1>0, <1>5, <2>1, NameAssumption DEF Searched, SourceFinished, StagesAfter
    <2>3. seen'[s] = seen[s]  BY <2>1 DEF StartSource, TypeOK
    <2>4. SeenClosedBelow(s, Far)  BY <2>2 DEF WalkInv
    <2> QED  BY <1>0, <2>3, <2>4, SeenClosedFrame DEF Far
  <1>6. frontier' = {b \in Bit : seen'[k][b] = 0 /\ 0 <= MaxHops}
    BY <1>0, <1>1, <1>2
  <1>7. \A b \in Bit : seen'[k][b] <= 0 \/ seen'[k][b] = Far
    BY <1>1, <1>2
  <1>8. stage' \in {"flop", "port", "pin"} => pending' \subseteq SourcesOf(stage)
    BY <1>0 DEF WalkInv
  <1> QED  BY <1>0, <1>3, <1>4, <1>5, <1>6, <1>7, <1>8, SameNet DEF WalkInv, Far

(* A level adds the bits that land and takes the smaller hop count. *)
LEMMA LandingFacts ==
    ASSUME TypeOK, NEW k \in Source, NEW t \in Sink
    PROVE  LET r == RecordLanding(k, t)
               old == grouped[k][t]
           IN  /\ old.bits \subseteq r.bits
               /\ r.hops \in Nat /\ r.hops <= old.hops
               /\ \A b \in frontier : t \in Lands(k, b) => b \in r.bits /\ r.hops <= depth
  <1> DEFINE r == RecordLanding(k, t)
             old == grouped[k][t]
             hit == {b \in frontier : t \in Lands(k, b)}
             near == IF depth < old.hops THEN depth ELSE old.hops
  <1>1. old \in Record /\ depth \in Nat  BY DEF TypeOK
  <1>2. old.hops \in Nat  BY <1>1, DesignFacts DEF Record
  <1>3. CASE hit = {}
    <2>1. r = old  BY <1>3 DEF RecordLanding
    <2> QED  BY <1>2, <1>3, <2>1
  <1>4. CASE hit # {}
    <2>1. r = [hops |-> near, bits |-> old.bits \cup hit]  BY <1>4 DEF RecordLanding
    <2>2. r.hops = near /\ r.bits = old.bits \cup hit
      <3> HIDE DEF near, hit, r
      <3> QED  BY <2>1
    <2>3. near \in Nat /\ near <= old.hops /\ near <= depth  BY <1>1, <1>2
    <2>4. /\ old.bits \subseteq r.bits
          /\ r.hops \in Nat /\ r.hops <= old.hops
          /\ \A b \in frontier : t \in Lands(k, b) => b \in r.bits /\ r.hops <= depth
      <3> HIDE DEF near, r
      <3> QED  BY <2>2, <2>3
    <2> HIDE DEF near
    <2> QED  BY <2>4
  <1> QED  BY <1>3, <1>4

LEMMA WalkOneLevel ==
    ASSUME IInv, WalkLevel
    PROVE  WalkInv'
  <1>k. PICK k : k = cur  OBVIOUS
  <1>d. PICK d : d = depth + 1  OBVIOUS
  <1> DEFINE R == ForwardReach(k)
  <1> USE <1>k DEF IInv
  <1>0. /\ net' = net /\ stage' = stage /\ stage \in {"flop", "port", "pin"}
        /\ cur' = k /\ k \in Source /\ frontier # {} /\ pending' = pending
        /\ depth' = depth + 1 /\ frontier' = R /\ dist' = dist
    BY DEF WalkLevel
  <1>1. MaxHops \in Nat /\ Far = MaxHops + 1 /\ depth \in Nat  BY DesignFacts DEF TypeOK
  <1>2. \A b \in Bit : seen[k][b] \in 0..Far  BY <1>0, <1>1, DesignFacts DEF TypeOK
  <1>3. \A b \in Bit : seen'[k][b] = IF b \in R THEN depth + 1 ELSE seen[k][b]
    BY <1>0 DEF WalkLevel, TypeOK
  <1>4. \A s \in Source \ {k} : seen'[s] = seen[s] /\ grouped'[s] = grouped[s]
    BY DEF WalkLevel, TypeOK
  <1>5. \A t \in Sink : grouped'[k][t] = RecordLanding(k, t)
    BY <1>0 DEF WalkLevel, TypeOK
  <1>6. /\ stage = net.src[k].kind
        /\ k \notin pending
        /\ \A b \in Bit : seen[k][b] <= depth \/ seen[k][b] = Far
        /\ frontier = {b \in Bit : seen[k][b] = depth /\ depth <= MaxHops}
        /\ SeenClosedBelow(k, depth)
    BY <1>0 DEF WalkInv
  <1>7. depth <= MaxHops  BY <1>0, <1>6
  <1>8. \A b \in R : b \in Bit /\ seen[k][b] = Far /\ depth < MaxHops
    BY DEF ForwardReach, Pushed
  <1>9. \A b \in Bit : seen'[k][b] <= depth + 1 \/ seen'[k][b] = Far
    BY <1>1, <1>2, <1>3, <1>6
  <1>10. R = {b \in Bit : seen'[k][b] = depth + 1 /\ depth + 1 <= MaxHops}
    <2>1. \A b \in R : b \in Bit /\ seen'[k][b] = depth + 1 /\ depth + 1 <= MaxHops
      BY <1>1, <1>3, <1>8
    <2>2. \A b \in Bit : b \notin R /\ depth + 1 <= MaxHops => seen'[k][b] # depth + 1
      BY <1>1, <1>2, <1>3, <1>6
    <2> HIDE DEF R
    <2> QED  BY <2>1, <2>2
  <1>11. \A t \in Sink : /\ grouped[k][t].bits \subseteq grouped'[k][t].bits
                        /\ grouped'[k][t].hops \in Nat
                        /\ grouped'[k][t].hops <= grouped[k][t].hops
    BY <1>0, <1>5, LandingFacts
  <1>12. ASSUME NEW b \in frontier, NEW t \in Lands(k, b)
         PROVE  b \in grouped'[k][t].bits /\ grouped'[k][t].hops <= depth
    BY <1>0, <1>5, <1>12, LandingFacts DEF Lands
  <1>13. SeenClosedBelow(k, d)'
    <2>1. ASSUME NEW b \in net'.src[k].bits PROVE seen'[k][b] = 0
      <3>1. b \in net.src[k].bits /\ b \in Bit /\ seen[k][b] = 0
        BY <1>0, <1>6, <2>1, DesignFacts DEF SeenClosedBelow
      <3>2. b \notin R  BY <1>8, <3>1, <1>1
      <3> QED  BY <1>3, <3>1, <3>2
    <2>2. ASSUME NEW b \in Bit, seen'[k][b] < depth + 1, seen'[k][b] <= MaxHops
          PROVE  b \notin R /\ seen'[k][b] = seen[k][b] /\ seen[k][b] <= depth
      BY <1>1, <1>2, <1>3, <2>2
    <2>3. ASSUME NEW b \in Bit, seen'[k][b] < depth + 1, seen'[k][b] <= MaxHops,
                 NEW t \in Lands(k, b)
          PROVE  b \in grouped'[k][t].bits /\ grouped'[k][t].hops <= seen'[k][b]
      <3>1. CASE seen[k][b] < depth
        <4>1. b \in grouped[k][t].bits /\ grouped[k][t].hops <= seen[k][b]
          BY <1>6, <2>2, <2>3, <3>1 DEF SeenClosedBelow
        <4>2. t \in Sink  BY <2>3 DEF Lands
        <4>3. /\ grouped[k][t] \in Record /\ grouped'[k][t].hops <= grouped[k][t].hops
              /\ b \in grouped'[k][t].bits
          BY <1>0, <1>11, <4>1, <4>2 DEF TypeOK
        <4>4. grouped[k][t].hops \in 0..(MaxHops + 1)  BY <4>3, DesignFacts DEF Record
        <4> QED  BY <1>1, <1>2, <1>11, <2>2, <2>3, <4>1, <4>2, <4>3, <4>4
      <3>2. CASE seen[k][b] = depth
        <4>1. b \in frontier  BY <1>6, <1>7, <3>2
        <4> QED  BY <1>12, <2>2, <2>3, <3>2, <4>1
      <3> QED  BY <1>1, <1>2, <2>2, <2>3, <3>1, <3>2
    <2>4. ASSUME NEW b \in Bit, seen'[k][b] < depth + 1, seen'[k][b] <= MaxHops,
                 Pushes(k, b, seen[k][b]), NEW ob \in Step(net, k, b)
          PROVE  seen'[k][ob] <= seen'[k][b] + 1
      <3>0. ob \in Bit  BY <2>4 DEF Step, Fwd, FwdAll
      <3>1. CASE seen[k][b] < depth
        <4>1. seen[k][ob] <= seen[k][b] + 1
          BY <1>6, <2>2, <2>4, <3>1 DEF SeenClosedBelow
        <4>2. ob \notin R  BY <1>1, <1>2, <1>7, <1>8, <3>0, <3>1, <4>1
        <4> QED  BY <1>3, <2>2, <2>4, <3>0, <4>1, <4>2
      <3>2. CASE seen[k][b] = depth
        <4>1. b \in Pushed(k)  BY <1>6, <1>7, <2>4, <3>2 DEF Pushed, Pushes
        <4>2. ob \in R \/ seen[k][ob] # Far  BY <2>4, <3>0, <4>1 DEF ForwardReach
        <4> QED  BY <1>1, <1>2, <1>3, <1>6, <2>2, <2>4, <3>0, <3>2, <4>2
      <3> QED  BY <1>1, <1>2, <2>2, <2>4, <3>1, <3>2
    <2>5. \A b, h : Pushes(k, b, h)' <=> Pushes(k, b, h)  BY <1>0 DEF Pushes, Useful
    <2>6. \A b : Step(net, k, b)' = Step(net, k, b)  BY <1>0 DEF Step
    <2> QED
      <3> HIDE DEF R
      <3>1. ASSUME NEW b \in Bit, seen'[k][b] < d, seen'[k][b] <= MaxHops
            PROVE  /\ Pushes(k, b, seen[k][b])' =>
                         \A ob \in Step(net, k, b)' : seen'[k][ob] <= seen'[k][b] + 1
                   /\ \A t \in Lands(k, b)' :
                         b \in grouped'[k][t].bits /\ grouped'[k][t].hops <= seen'[k][b]
        <4>1. seen'[k][b] = seen[k][b]  BY <1>d, <2>2, <3>1
        <4>2. Lands(k, b)' = Lands(k, b)  BY <1>0, SameNet
        <4>3. Pushes(k, b, seen[k][b])' => Pushes(k, b, seen[k][b])
          BY <4>1, <1>0 DEF Pushes, Useful
        <4> QED  BY <1>d, <2>3, <2>4, <2>6, <3>1, <4>1, <4>2, <4>3
      <3> QED  BY <2>1, <3>1 DEF SeenClosedBelow
  <1>14. ASSUME NEW s \in Source, Searched(net, s)', SourceFinished(s)'
         PROVE  SeenClosedBelow(s, Far)'
    <2>1. s # k  BY <1>0, <1>6, <1>14 DEF SourceFinished, StagesAfter
    <2>2. Searched(net, s) /\ SourceFinished(s)
      BY <1>0, <1>14, <2>1 DEF Searched, SourceFinished, StagesAfter
    <2>3. SeenClosedBelow(s, Far)  BY <2>2 DEF WalkInv
    <2> QED  BY <1>0, <1>4, <2>1, <2>3, SeenClosedFrame DEF Far
  <1>15. stage' \in {"flop", "port", "pin"} => pending' \subseteq SourcesOf(stage)
    BY <1>0 DEF WalkInv
  <1> QED
    <2> HIDE DEF R
    <2> QED  BY <1>0, <1>d, <1>6, <1>9, <1>10, <1>13, <1>14, <1>15, SameNet DEF WalkInv, Far

LEMMA WalkSourceDone ==
    ASSUME IInv, SourceDone
    PROVE  WalkInv'
  <1>k. PICK k : k = cur  OBVIOUS
  <1> USE <1>k DEF IInv
  <1>0. /\ net' = net /\ stage' = stage /\ stage \in {"flop", "port", "pin"}
        /\ cur' = Idle /\ k \in Source /\ frontier = {} /\ pending' = pending
        /\ dist' = dist /\ seen' = seen /\ grouped' = grouped
    BY DEF SourceDone
  <1>1. MaxHops \in Nat /\ Far = MaxHops + 1 /\ depth \in Nat  BY DesignFacts DEF TypeOK
  <1>2. \A b \in Bit : seen[k][b] \in 0..Far  BY <1>0, <1>1, DesignFacts DEF TypeOK
  <1>3. SeenClosedBelow(k, Far)
    <2>1. /\ \A b \in Bit : seen[k][b] <= depth \/ seen[k][b] = Far
          /\ frontier = {b \in Bit : seen[k][b] = depth /\ depth <= MaxHops}
          /\ SeenClosedBelow(k, depth)
      BY <1>0 DEF WalkInv
    <2>2. \A b \in Bit : seen[k][b] <= MaxHops => seen[k][b] < depth
      BY <1>0, <1>1, <1>2, <2>1
    <2> QED  BY <2>1, <2>2 DEF SeenClosedBelow
  <1>4. ASSUME NEW s \in Source, Searched(net, s)', SourceFinished(s)'
        PROVE  SeenClosedBelow(s, Far)'
    <2>1. SeenClosedBelow(s, Far)
      BY <1>0, <1>3, <1>4 DEF Searched, SourceFinished, WalkInv
    <2> QED  BY <1>0, <2>1, SeenClosedFrame DEF Far
  <1> QED  BY <1>0, <1>4, NameAssumption, SameNet DEF WalkInv

LEMMA WalkNextStage ==
    ASSUME IInv, NextStage
    PROVE  WalkInv'
  <1> USE DEF IInv
  <1>0. /\ net' = net /\ cur' = Idle /\ cur = Idle /\ pending = {}
        /\ dist' = dist /\ seen' = seen /\ grouped' = grouped
        /\ \/ stage = "flop" /\ stage' = "port" /\ pending' = SourcesOf("port")
           \/ stage = "port" /\ stage' = "pin" /\ pending' = SourcesOf("pin")
           \/ stage = "pin" /\ stage' = "done" /\ pending' = {}
    BY DEF NextStage
  <1>1. ASSUME NEW s \in Source, Searched(net, s)', SourceFinished(s)'
        PROVE  SeenClosedBelow(s, Far)'
    <2>1. net.src[s].kind \in {"flop", "port", "pin"}  BY DesignFacts
    <2>2. SourceFinished(s)
      BY <1>0, <1>1, <2>1, NameAssumption DEF SourceFinished, StagesAfter, SourcesOf
    <2>3. SeenClosedBelow(s, Far)  BY <1>0, <1>1, <2>2 DEF Searched, WalkInv
    <2> QED  BY <1>0, <2>3, SeenClosedFrame DEF Far
  <1>2. stage' \in {"flop", "port", "pin"} => pending' \subseteq SourcesOf(stage)'
    BY <1>0, SameNet
  <1> QED  BY <1>0, <1>1, <1>2, NameAssumption DEF WalkInv

LEMMA WalkInvKept == IInv /\ [Next]_vars => WalkInv'
  <1> SUFFICES ASSUME IInv, [Next]_vars PROVE WalkInv'
    OBVIOUS
  <1>0. TypeOK'  BY NextTypeOK DEF IInv
  <1>1. ASSUME NEW c \in Clock, StartClock(c) PROVE WalkInv'
    BY <1>0, <1>1, WalkDuringFilter, NameAssumption DEF StartClock
  <1>2. CASE BackwardLevel
    BY <1>0, <1>2, WalkDuringFilter, NameAssumption DEF BackwardLevel
  <1>3. CASE ClockDone
    BY <1>0, <1>3, WalkDuringFilter, NameAssumption DEF ClockDone
  <1>4. CASE FilterDone  BY <1>4, WalkFilterDone
  <1>5. ASSUME NEW s \in Source, SkipFlop(s) PROVE WalkInv'  BY <1>5, WalkSkip
  <1>6. ASSUME NEW s \in Source, StartSource(s) PROVE WalkInv'  BY <1>6, WalkStart
  <1>7. CASE WalkLevel  BY <1>7, WalkOneLevel
  <1>8. CASE SourceDone  BY <1>8, WalkSourceDone
  <1>9. CASE NextStage  BY <1>9, WalkNextStage
  <1>10. CASE Returned \/ UNCHANGED vars
    <2>1. UNCHANGED vars  BY <1>10 DEF Returned
    <2>2. \A s : SourceFinished(s)' <=> SourceFinished(s)  BY <2>1 DEF vars, SourceFinished
    <2>3. \A s, d : SeenClosedBelow(s, d) => SeenClosedBelow(s, d)'
      BY <2>1, SeenClosedFrame DEF vars
    <2> QED  BY <2>1, <2>2, <2>3, SameNet DEF vars, IInv, WalkInv, Searched, Far
  <1> QED  BY <1>1, <1>2, <1>3, <1>4, <1>5, <1>6, <1>7, <1>8, <1>9, <1>10 DEF Next

(* Types are kept by every step of the search, for every design. *)
THEOREM TypeCorrect == Spec => []TypeOK
  BY InitTypeOK, NextTypeOK, PTL DEF Spec

(***************************************************************************)
(* The closure of dist and seen holds throughout the search: no bit that   *)
(* was expanded leaves a neighbour behind, neither on the way back from    *)
(* the D pins nor on the way forward from a source.                        *)
(***************************************************************************)
THEOREM SearchInvariant == Spec => []IInv
  <1>1. Init => IInv  BY InitTypeOK, InitInvs DEF IInv
  <1>2. IInv /\ [Next]_vars => IInv'
    BY NextTypeOK, FilterInvKept, WalkInvKept DEF IInv
  <1> QED  BY <1>1, <1>2, PTL DEF Spec
------------------------------------------------------------------------------
(***************************************************************************)
(* What find_crossings returns is exact: the fanout filter measures the    *)
(* distances of the forward walk, and the records are the crossings within *)
(* the budget, no more and no less.                                        *)
(*                                                                         *)
(* SearchInvariant is one half, nothing within reach is left behind.  The  *)
(* other half is RealInv: nothing is recorded that is not within reach.    *)
(***************************************************************************)

(* The edges of the forward walk, and those a walk from s takes. *)
Forwards == [x \in Bit |-> Fwd(net.cells, x)]
StepsOf(s) == [b \in Bit |-> Step(net, s, b)]

(* A recorded distance is the length of a path to a D pin of that clock. *)
DistReal ==
    \A c \in Clock, b \in Bit :
        dist[c][b] <= MaxHops => Within(Forwards, {b}, dist[c][b]) \cap Seeds(c) # {}

(* A bit was seen no later than it can be reached. *)
SeenReal ==
    \A s \in Source, b \in Bit :
        seen[s][b] <= MaxHops => b \in ReachWithin(net, s, seen[s][b])

(* A record speaks of bits where its source really lands, and its min_hops *)
(* is the length of a path.                                                *)
RecordReal ==
    \A s \in Source, t \in Sink :
        /\ grouped[s][t].bits \subseteq LandingBits(net, s, t, MaxHops)
        /\ grouped[s][t].hops <= MaxHops => LandingBits(net, s, t, grouped[s][t].hops) # {}

(* Only a source whose walk has begun has records, and the records of the  *)
(* walk in progress were made at the depths it has passed.                 *)
Started(s) == SourceFinished(s) \/ cur = s

RecordTimely ==
    \A s \in Source, t \in Sink :
        grouped[s][t].bits # {} =>
            /\ Started(s)
            /\ cur = s => grouped[s][t].hops <= depth

(* No flop without a clock is walked. *)
WalkedIsSearched == cur \in Source => Searched(net, cur)

RealInv == DistReal /\ SeenReal /\ RecordReal /\ RecordTimely /\ WalkedIsSearched

------------------------------------------------------------------------------
(* Reach. *)

LEMMA EdgeTypes ==
    /\ Forwards \in [Bit -> SUBSET Bit]
    /\ \A s : StepsOf(s) \in [Bit -> SUBSET Bit]
  BY DEF Forwards, StepsOf, Step, Fwd, FwdAll

LEMMA ReachFacts ==
    ASSUME TypeOK, NEW s \in Source
    PROVE  /\ ReachWithin(net, s, 0) = net.src[s].bits
           /\ \A k \in Nat :
                /\ ReachWithin(net, s, k) \in SUBSET Bit
                /\ \A b \in ReachWithin(net, s, k) :
                      /\ b \in ReachWithin(net, s, k + 1)
                      /\ Step(net, s, b) \subseteq ReachWithin(net, s, k + 1)
                /\ \A ob \in ReachWithin(net, s, k + 1) :
                      \/ ob \in ReachWithin(net, s, k)
                      \/ \E b \in ReachWithin(net, s, k) : ob \in Step(net, s, b)
           /\ \A j, k \in Nat : j <= k => ReachWithin(net, s, j) \subseteq ReachWithin(net, s, k)
  <1> DEFINE next == StepsOf(s)
             A == net.src[s].bits
  <1>1. next \in [Bit -> SUBSET Bit] /\ A \in SUBSET Bit
    BY EdgeTypes, DesignFacts
  <1>2. \A k : ReachWithin(net, s, k) = Within(next, A, k)
    BY DEF ReachWithin, StepsOf
  <1>3. \A b \in Bit : next[b] = Step(net, s, b)
    BY DEF StepsOf
  <1> HIDE DEF next, A
  <1>4. /\ Within(next, A, 0) = A
        /\ \A k \in Nat :
             /\ Within(next, A, k) \in SUBSET Bit
             /\ Within(next, A, k + 1) =
                   Within(next, A, k) \cup UNION {next[b] : b \in Within(next, A, k)}
    BY <1>1, WithinSteps
  <1>5. ASSUME NEW j \in Nat, NEW k \in Nat, j <= k
        PROVE  Within(next, A, j) \subseteq Within(next, A, k)
    BY <1>1, <1>5, WithinGrows
  <1>6. ASSUME NEW k \in Nat
        PROVE  /\ ReachWithin(net, s, k) \in SUBSET Bit
               /\ \A b \in ReachWithin(net, s, k) :
                      /\ b \in ReachWithin(net, s, k + 1)
                      /\ Step(net, s, b) \subseteq ReachWithin(net, s, k + 1)
               /\ \A ob \in ReachWithin(net, s, k + 1) :
                      \/ ob \in ReachWithin(net, s, k)
                      \/ \E b \in ReachWithin(net, s, k) : ob \in Step(net, s, b)
    <2> DEFINE W == Within(next, A, k)
    <2>1. W \in SUBSET Bit /\ Within(next, A, k + 1) = W \cup UNION {next[b] : b \in W}
      BY <1>4
    <2>2. ReachWithin(net, s, k) = W /\ ReachWithin(net, s, k + 1) = W \cup UNION {next[b] : b \in W}
      BY <1>2, <2>1
    <2> HIDE DEF W
    <2> QED  BY <1>3, <2>1, <2>2
  <1> QED  BY <1>2, <1>4, <1>5, <1>6 DEF A

(* A landing within the budget stays one when the budget grows. *)
LEMMA LandingGrows ==
    ASSUME TypeOK, NEW s \in Source, NEW t \in Sink, NEW j \in Nat, NEW k \in Nat, j <= k
    PROVE  LandingBits(net, s, t, j) \subseteq LandingBits(net, s, t, k)
  <1>1. ReachWithin(net, s, j) \subseteq ReachWithin(net, s, k)  BY ReachFacts
  <1> QED  BY <1>1 DEF LandingBits

(* Nothing of this reads more than the design. *)
LEMMA SameReach ==
    ASSUME net' = net
    PROVE  /\ Forwards' = Forwards
           /\ \A s, k : ReachWithin(net, s, k)' = ReachWithin(net, s, k)
           /\ \A s, t, k : LandingBits(net, s, t, k)' = LandingBits(net, s, t, k)
           /\ \A s : Searched(net, s)' <=> Searched(net, s)
  BY DEF Forwards, ReachWithin, Step, LandingBits, Endpoints, Searched

------------------------------------------------------------------------------
(* Nothing is recorded that is not there. *)

LEMMA RealInit == Init => RealInv
  <1> SUFFICES ASSUME Init PROVE RealInv
    OBVIOUS
  <1>0. TypeOK /\ ~(Far <= MaxHops)  BY InitTypeOK, DesignFacts
  <1>1. DistReal /\ SeenReal  BY <1>0 DEF Init, DistReal, SeenReal
  <1>2. \A s \in Source, t \in Sink : grouped[s][t].bits = {} /\ grouped[s][t].hops = Far
    BY DEF Init, NoRecord
  <1>3. RecordReal /\ RecordTimely  BY <1>0, <1>2 DEF RecordReal, RecordTimely
  <1>4. WalkedIsSearched  BY NameAssumption DEF Init, WalkedIsSearched
  <1> QED  BY <1>1, <1>3, <1>4 DEF RealInv

LEMMA DistRealFrame ==
    ASSUME DistReal, net' = net, dist' = dist
    PROVE  DistReal'
  BY SameNet, SameReach DEF DistReal

LEMMA DistRealStart ==
    ASSUME IInv, DistReal, NEW k \in Clock, StartClock(k)
    PROVE  DistReal'
  <1> USE DEF IInv
  <1>0. net' = net  BY DEF StartClock
  <1>1. ASSUME NEW c \in Clock, NEW b \in Bit, dist'[c][b] <= MaxHops
        PROVE  Within(Forwards, {b}, dist'[c][b]) \cap Seeds(c) # {}
    <2>1. CASE c = k /\ b \in Seeds(k)
      <3>1. dist'[c][b] = 0  BY <2>1 DEF StartClock, TypeOK
      <3>2. Within(Forwards, {b}, 0) = {b}  BY EdgeTypes, WithinSteps
      <3> QED  BY <2>1, <3>1, <3>2
    <2>2. CASE ~(c = k /\ b \in Seeds(k))
      <3>1. dist'[c][b] = dist[c][b]  BY <2>2 DEF StartClock, TypeOK
      <3> QED  BY <1>1, <3>1 DEF DistReal
    <2> QED  BY <2>1, <2>2
  <1> QED  BY <1>0, <1>1, SameNet, SameReach DEF DistReal

LEMMA DistRealLevel ==
    ASSUME IInv, DistReal, BackwardLevel
    PROVE  DistReal'
  <1> USE DEF IInv
  <1>0. net' = net /\ cur \in Clock /\ depth \in Nat /\ MaxHops \in Nat /\ depth < MaxHops
    BY DesignFacts DEF BackwardLevel, TypeOK
  <1>1. ASSUME NEW c \in Clock, NEW b \in Bit, dist'[c][b] <= MaxHops
        PROVE  Within(Forwards, {b}, dist'[c][b]) \cap Seeds(c) # {}
    <2>1. CASE c = cur /\ b \in BackwardReach(cur)
      <3>1. dist'[c][b] = depth + 1  BY <2>1 DEF BackwardLevel, TypeOK
      <3>2. PICK ob \in frontier : \E l \in RevLists(net.cells, ob) : b \in ListBits(net.cells, l)
        BY <2>1 DEF BackwardReach, NewLists
      <3>3. ob \in Bit /\ dist[c][ob] = depth
        BY <1>0, <2>1 DEF FilterInv
      <3>4. ob \in Fwd(net.cells, b)  BY <3>2, <3>3, DesignFacts, ReverseIsExact
      <3>5. Within(Forwards, {ob}, depth) \cap Seeds(c) # {}
        BY <1>0, <3>3 DEF DistReal
      <3>6. ob \in Forwards[b]  BY <3>4 DEF Forwards
      <3>7. Within(Forwards, {ob}, depth) \subseteq Within(Forwards, {b}, depth + 1)
        BY <1>0, <3>6, EdgeTypes, WithinPrepend
      <3> QED  BY <3>1, <3>5, <3>7
    <2>2. CASE ~(c = cur /\ b \in BackwardReach(cur))
      <3>1. dist'[c][b] = dist[c][b]  BY <2>2 DEF BackwardLevel, TypeOK
      <3> QED  BY <1>1, <3>1 DEF DistReal
    <2> QED  BY <2>1, <2>2
  <1> QED  BY <1>0, <1>1, SameNet, SameReach DEF DistReal
(* A walk starts on the bits of its source. *)
LEMMA WalkRealStart ==
    ASSUME IInv, RealInv, NEW k \in Source, StartSource(k)
    PROVE  SeenReal' /\ RecordReal' /\ RecordTimely' /\ WalkedIsSearched'
  <1> USE DEF IInv, RealInv
  <1>0. /\ net' = net /\ stage' = stage /\ cur = Idle /\ cur' = k /\ k \in pending
        /\ pending' = pending \ {k} /\ grouped' = grouped /\ stage = net.src[k].kind
    BY DEF StartSource, WalkInv, SourcesOf
  <1>1. ASSUME NEW s \in Source, NEW b \in Bit, seen'[s][b] <= MaxHops
        PROVE  b \in ReachWithin(net, s, seen'[s][b])
    <2>1. CASE s = k
      <3>1. seen'[s][b] = IF b \in net.src[s].bits THEN 0 ELSE Far
        BY <2>1 DEF StartSource, TypeOK
      <3>2. seen'[s][b] = 0 /\ b \in net.src[s].bits  BY <1>1, <3>1, DesignFacts
      <3> QED  BY <3>2, ReachFacts
    <2>2. CASE s # k
      <3>1. seen'[s] = seen[s]  BY <2>2 DEF StartSource, TypeOK
      <3> QED  BY <1>1, <3>1 DEF SeenReal
    <2> QED  BY <2>1, <2>2
  <1>2. SeenReal'  BY <1>0, <1>1, SameReach DEF SeenReal
  <1>3. RecordReal'  BY <1>0, SameReach DEF RecordReal
  <1>4. ASSUME NEW s \in Source, NEW t \in Sink, grouped'[s][t].bits # {}
        PROVE  Started(s)' /\ cur' # s
    <2>1. SourceFinished(s)
      BY <1>0, <1>4, NameAssumption DEF RecordTimely, Started
    <2>2. s # k  BY <1>0, <2>1, DesignFacts DEF SourceFinished, StagesAfter
    <2>3. SourceFinished(s)'  BY <1>0, <2>1, <2>2 DEF SourceFinished, StagesAfter
    <2> QED  BY <1>0, <2>2, <2>3 DEF Started
  <1>5. RecordTimely'  BY <1>4 DEF RecordTimely
  <1>6. WalkedIsSearched'  BY <1>0 DEF WalkedIsSearched, StartSource, Searched
  <1> QED  BY <1>2, <1>3, <1>5, <1>6

(* What a level adds to a record are bits of the frontier that land, and   *)
(* the record keeps its min_hops or takes the depth.                       *)
LEMMA LandingSource ==
    ASSUME TypeOK, NEW k \in Source, NEW t \in Sink
    PROVE  LET r == RecordLanding(k, t)
               old == grouped[k][t]
           IN  \/ r = old
               \/ /\ \A b \in r.bits : b \in old.bits \/ (b \in frontier /\ t \in Lands(k, b))
                  /\ r.hops = depth \/ (r.hops = old.hops /\ old.hops <= depth)
                  /\ \E b \in frontier : t \in Lands(k, b)
  <1> DEFINE r == RecordLanding(k, t)
             old == grouped[k][t]
             hit == {b \in frontier : t \in Lands(k, b)}
             near == IF depth < old.hops THEN depth ELSE old.hops
  <1>1. old \in Record /\ depth \in Nat  BY DEF TypeOK
  <1>2. old.hops \in Nat  BY <1>1, DesignFacts DEF Record
  <1>3. CASE hit = {}
    <2>1. r = old  BY <1>3 DEF RecordLanding
    <2> QED  BY <2>1
  <1>4. CASE hit # {}
    <2>1. r = [hops |-> near, bits |-> old.bits \cup hit]  BY <1>4 DEF RecordLanding
    <2>2. r.hops = near /\ r.bits = old.bits \cup hit
      <3> HIDE DEF near, hit, r
      <3> QED  BY <2>1
    <2>3. near = depth \/ (near = old.hops /\ old.hops <= depth)  BY <1>1, <1>2
    <2>4. /\ \A b \in r.bits : b \in old.bits \/ (b \in frontier /\ t \in Lands(k, b))
          /\ r.hops = depth \/ (r.hops = old.hops /\ old.hops <= depth)
          /\ \E b \in frontier : t \in Lands(k, b)
      <3> HIDE DEF near, r
      <3> QED  BY <1>4, <2>2, <2>3
    <2> HIDE DEF near
    <2> QED  BY <2>4
  <1> QED  BY <1>3, <1>4

(* A level pushes on from bits within reach and records where they land. *)
LEMMA WalkRealLevel ==
    ASSUME IInv, RealInv, WalkLevel
    PROVE  SeenReal' /\ RecordReal' /\ RecordTimely' /\ WalkedIsSearched'
  <1> USE DEF IInv, RealInv
  <1>0. /\ net' = net /\ stage' = stage /\ cur' = cur /\ cur \in Source
        /\ pending' = pending /\ depth' = depth + 1
        /\ depth \in Nat /\ MaxHops \in Nat /\ Far = MaxHops + 1
    BY DesignFacts DEF WalkLevel, TypeOK
  <1>1. /\ frontier = {b \in Bit : seen[cur][b] = depth /\ depth <= MaxHops}
        /\ frontier # {}
    BY <1>0 DEF WalkInv, WalkLevel
  <1>2. depth <= MaxHops /\ \A b \in frontier : b \in Bit /\ b \in ReachWithin(net, cur, depth)
    BY <1>0, <1>1 DEF SeenReal
  <1>3. ASSUME NEW s \in Source, NEW b \in Bit, seen'[s][b] <= MaxHops
        PROVE  b \in ReachWithin(net, s, seen'[s][b])
    <2>1. CASE s = cur /\ b \in ForwardReach(cur)
      <3>1. seen'[s][b] = depth + 1  BY <2>1 DEF WalkLevel, TypeOK
      <3>2. PICK pb \in frontier : b \in Step(net, cur, pb)
        BY <2>1 DEF ForwardReach, Pushed
      <3>3. b \in ReachWithin(net, cur, depth + 1)
        BY <1>0, <1>2, <3>2, ReachFacts
      <3> QED  BY <2>1, <3>1, <3>3
    <2>2. CASE ~(s = cur /\ b \in ForwardReach(cur))
      <3>1. seen'[s][b] = seen[s][b]  BY <2>2 DEF WalkLevel, TypeOK
      <3> QED  BY <1>3, <3>1 DEF SeenReal
    <2> QED  BY <2>1, <2>2
  <1>4. SeenReal'  BY <1>0, <1>3, SameReach DEF SeenReal
  <1>5. ASSUME NEW b \in frontier, NEW t \in Lands(cur, b)
        PROVE  b \in LandingBits(net, cur, t, depth) /\ t \in Sink
    <2>1. t \in Sink /\ Foreign(cur, t) /\ b \in net.sink[t].bits  BY DEF Lands
    <2>2. Endpoints(net, cur, t)
      BY <1>0, <2>1 DEF Foreign, Endpoints, WalkedIsSearched
    <2> QED  BY <1>2, <2>1, <2>2 DEF LandingBits
  <1>6. ASSUME NEW s \in Source, NEW t \in Sink
        PROVE  /\ grouped'[s][t].bits \subseteq LandingBits(net, s, t, MaxHops)
               /\ grouped'[s][t].hops <= MaxHops =>
                     LandingBits(net, s, t, grouped'[s][t].hops) # {}
    <2>1. /\ grouped[s][t].bits \subseteq LandingBits(net, s, t, MaxHops)
          /\ grouped[s][t].hops <= MaxHops => LandingBits(net, s, t, grouped[s][t].hops) # {}
      BY DEF RecordReal
    <2>2. CASE s # cur \/ RecordLanding(cur, t) = grouped[cur][t]
      <3>1. grouped'[s][t] = grouped[s][t]  BY <2>2 DEF WalkLevel, TypeOK
      <3> QED  BY <2>1, <3>1
    <2>3. CASE s = cur /\ RecordLanding(cur, t) # grouped[cur][t]
      <3> DEFINE r == RecordLanding(cur, t)
                 old == grouped[cur][t]
      <3>1. grouped'[s][t] = r  BY <2>3 DEF WalkLevel, TypeOK
      <3>2. /\ \A b \in r.bits : b \in old.bits \/ (b \in frontier /\ t \in Lands(cur, b))
            /\ r.hops = depth \/ (r.hops = old.hops /\ old.hops <= depth)
            /\ \E b \in frontier : t \in Lands(cur, b)
        BY <1>0, <2>3, LandingSource
      <3> HIDE DEF r
      <3>3. LandingBits(net, cur, t, depth) \subseteq LandingBits(net, cur, t, MaxHops)
        BY <1>0, <1>2, LandingGrows
      <3>4. r.bits \subseteq LandingBits(net, s, t, MaxHops)
        BY <1>5, <2>1, <2>3, <3>2, <3>3
      <3>5. r.hops <= MaxHops => LandingBits(net, s, t, r.hops) # {}
        BY <1>5, <2>1, <2>3, <3>2
      <3> QED  BY <3>1, <3>4, <3>5
    <2> QED  BY <2>2, <2>3
  <1>7. RecordReal'  BY <1>0, <1>6, SameReach DEF RecordReal
  <1>8. ASSUME NEW s \in Source, NEW t \in Sink, grouped'[s][t].bits # {}
        PROVE  Started(s)' /\ (cur' = s => grouped'[s][t].hops <= depth')
    <2>1. CASE s # cur
      <3>1. grouped'[s][t] = grouped[s][t]  BY <2>1 DEF WalkLevel, TypeOK
      <3>2. SourceFinished(s)  BY <1>8, <2>1, <3>1 DEF RecordTimely, Started
      <3>3. SourceFinished(s)'  BY <1>0, <3>2 DEF SourceFinished
      <3> QED  BY <1>0, <2>1, <3>3 DEF Started
    <2>2. CASE s = cur
      <3> DEFINE r == RecordLanding(cur, t)
                 old == grouped[cur][t]
      <3>1. grouped'[s][t] = r  BY <2>2 DEF WalkLevel, TypeOK
      <3>2. \/ r = old
            \/ r.hops = depth \/ (r.hops = old.hops /\ old.hops <= depth)
        BY <1>0, LandingSource
      <3>3. old \in Record  BY <1>0 DEF TypeOK
      <3>4. old.hops \in Nat  BY <3>3, DesignFacts DEF Record
      <3> HIDE DEF r
      <3>5. r = old => old.hops <= depth  BY <1>8, <2>2, <3>1 DEF RecordTimely
      <3>6. r.hops <= depth + 1  BY <1>0, <3>2, <3>4, <3>5
      <3> QED  BY <1>0, <2>2, <3>1, <3>6 DEF Started
    <2> QED  BY <2>1, <2>2
  <1>9. RecordTimely'  BY <1>8 DEF RecordTimely
  <1>10. WalkedIsSearched'  BY <1>0, SameReach DEF WalkedIsSearched
  <1> QED  BY <1>4, <1>7, <1>9, <1>10

(* The steps that take no walk further and leave every record as it was. *)
LEMMA WalkRealFrame ==
    ASSUME IInv, RealInv, net' = net, seen' = seen, grouped' = grouped,
           \A s \in Source : Started(s) => Started(s)',
           cur' \in Source => cur' = cur /\ depth' = depth
    PROVE  SeenReal' /\ RecordReal' /\ RecordTimely' /\ WalkedIsSearched'
  <1>1. SeenReal' /\ RecordReal'  BY SameReach DEF RealInv, SeenReal, RecordReal
  <1>2. RecordTimely'  BY DEF RealInv, RecordTimely
  <1>3. WalkedIsSearched'  BY SameReach DEF RealInv, WalkedIsSearched
  <1> QED  BY <1>1, <1>2, <1>3

LEMMA StartedStays ==
    ASSUME IInv, ClockDone \/ FilterDone \/ SourceDone \/ NextStage
                 \/ (\E c \in Clock : StartClock(c)) \/ BackwardLevel
                 \/ (\E k \in Source : SkipFlop(k)) \/ UNCHANGED vars,
           NEW s \in Source, Started(s)
    PROVE  Started(s)'
  <1> USE DEF IInv
  <1>0. net.src[s].kind \in {"flop", "port", "pin"}  BY DesignFacts
  <1>1. stage # "filter"
    BY <1>0 DEF Started, SourceFinished, StagesAfter, WalkInv
  <1>2. CASE UNCHANGED vars
    BY <1>2 DEF vars, Started, SourceFinished
  <1>3. CASE NextStage
    BY <1>0, <1>1, <1>3, NameAssumption
    DEF NextStage, Started, SourceFinished, StagesAfter, SourcesOf
  <1>4. CASE SourceDone
    BY <1>0, <1>1, <1>4, NameAssumption
    DEF SourceDone, Started, SourceFinished, StagesAfter, WalkInv
  <1>5. CASE \E k \in Source : SkipFlop(k)
    BY <1>0, <1>1, <1>5, NameAssumption
    DEF SkipFlop, Started, SourceFinished, StagesAfter, WalkInv
  <1> QED
    BY <1>1, <1>2, <1>3, <1>4, <1>5 DEF ClockDone, FilterDone, StartClock, BackwardLevel
LEMMA RealKept == IInv /\ RealInv /\ [Next]_vars => RealInv'
  <1> SUFFICES ASSUME IInv, RealInv, [Next]_vars PROVE RealInv'
    OBVIOUS
  <1>1. ASSUME NEW k \in Source, StartSource(k) PROVE RealInv'
    <2>1. net' = net /\ dist' = dist  BY <1>1 DEF StartSource
    <2>2. DistReal'  BY <2>1, DistRealFrame DEF RealInv
    <2> QED  BY <1>1, <2>2, WalkRealStart DEF RealInv
  <1>2. CASE WalkLevel
    <2>1. net' = net /\ dist' = dist  BY <1>2 DEF WalkLevel
    <2>2. DistReal'  BY <2>1, DistRealFrame DEF RealInv
    <2> QED  BY <1>2, <2>2, WalkRealLevel DEF RealInv
  <1>3. ASSUME NEW c \in Clock, StartClock(c) PROVE RealInv'
    <2>1. DistReal'  BY <1>3, DistRealStart DEF RealInv
    <2>2. net' = net /\ seen' = seen /\ grouped' = grouped /\ cur' \notin Source
      BY <1>3, NameAssumption DEF StartClock
    <2>3. \A s \in Source : Started(s) => Started(s)'  BY <1>3, StartedStays
    <2> QED  BY <2>1, <2>2, <2>3, WalkRealFrame DEF RealInv
  <1>4. CASE BackwardLevel
    <2>1. DistReal'  BY <1>4, DistRealLevel DEF RealInv
    <2>2. net' = net /\ seen' = seen /\ grouped' = grouped /\ cur' \notin Source
      BY <1>4, NameAssumption DEF BackwardLevel
    <2>3. \A s \in Source : Started(s) => Started(s)'  BY <1>4, StartedStays
    <2> QED  BY <2>1, <2>2, <2>3, WalkRealFrame DEF RealInv
  <1>5. ASSUME \/ ClockDone \/ FilterDone \/ SourceDone \/ NextStage
               \/ \E k \in Source : SkipFlop(k)
               \/ UNCHANGED vars
        PROVE  RealInv'
    <2>1. /\ net' = net /\ dist' = dist /\ seen' = seen /\ grouped' = grouped
          /\ cur' \in Source => cur' = cur /\ depth' = depth
      BY <1>5, NameAssumption
      DEF ClockDone, FilterDone, SourceDone, NextStage, SkipFlop, vars, walk
    <2>2. DistReal'  BY <2>1, DistRealFrame DEF RealInv
    <2>3. \A s \in Source : Started(s) => Started(s)'  BY <1>5, StartedStays
    <2> QED  BY <2>1, <2>2, <2>3, WalkRealFrame DEF RealInv
  <1> QED  BY <1>1, <1>2, <1>3, <1>4, <1>5 DEF Next, Returned

LEMMA FullInvariant == Spec => [](IInv /\ RealInv)
  <1>1. Init => IInv /\ RealInv  BY InitTypeOK, InitInvs, RealInit DEF IInv
  <1>2. (IInv /\ RealInv) /\ [Next]_vars => (IInv /\ RealInv)'
    BY NextTypeOK, FilterInvKept, WalkInvKept, RealKept DEF IInv
  <1> QED  BY <1>1, <1>2, PTL DEF Spec

------------------------------------------------------------------------------
(* The filter is exact. *)

(* A clock closed up to the budget: whoever reaches one of its D pins in k *)
(* steps is within k.  Induction on the steps taken from b, with the       *)
(* distance still to go.                                                   *)
LEMMA ReachedIsMeasured ==
    ASSUME TypeOK, NEW c \in Clock, DistClosedBelow(c, MaxHops),
           NEW b \in Bit, NEW k \in 0..MaxHops, NEW j \in 0..k,
           NEW x \in Within(Forwards, {b}, j), dist[c][x] <= k - j
    PROVE  dist[c][b] <= k
  <1>0. /\ MaxHops \in Nat /\ Far = MaxHops + 1
        /\ \A y \in Bit : dist[c][y] \in 0..Far
    BY DesignFacts DEF TypeOK
  <1> DEFINE W(i) == Within(Forwards, {b}, i)
             bad == {i \in 0..k : \E y \in W(i) : dist[c][y] <= k - i /\ ~(dist[c][b] <= k)}
  <1>1. /\ W(0) = {b}
        /\ \A i \in Nat : /\ W(i) \in SUBSET Bit
                          /\ W(i + 1) = W(i) \cup UNION {Forwards[y] : y \in W(i)}
    <2>1. {b} \in SUBSET Bit  OBVIOUS
    <2>2. /\ Within(Forwards, {b}, 0) = {b}
          /\ \A i \in Nat :
                /\ Within(Forwards, {b}, i) \in SUBSET Bit
                /\ Within(Forwards, {b}, i + 1) =
                      Within(Forwards, {b}, i)
                      \cup UNION {Forwards[y] : y \in Within(Forwards, {b}, i)}
      BY <2>1, EdgeTypes, WithinSteps
    <2> QED  BY <2>2
  <1> SUFFICES ASSUME bad # {} PROVE FALSE
    BY <1>0
  <1>2. PICK i \in bad : \A m \in bad : i <= m
    <2>1. bad \in SUBSET Nat  OBVIOUS
    <2> QED  BY <2>1, LeastNat
  <1>3. PICK y \in W(i) : dist[c][y] <= k - i /\ ~(dist[c][b] <= k)
    BY <1>2
  <1> HIDE DEF W
  <1>4. i # 0
    BY <1>1, <1>3
  <1>5. PICK m \in Nat : i = m + 1 /\ m \in 0..k /\ ~(i <= m)
    <2>1. i - 1 \in Nat /\ i = (i - 1) + 1 /\ i - 1 \in 0..k /\ ~(i <= i - 1)  BY <1>4
    <2> QED  BY <2>1
  <1>6. \A z \in W(m) : ~(dist[c][z] <= k - m)
    BY <1>2, <1>3, <1>5
  <1>7. y \in W(m) \/ \E z \in W(m) : y \in Forwards[z]
    BY <1>1, <1>3, <1>5
  <1>8. W(m) \in SUBSET Bit /\ W(i) \in SUBSET Bit /\ y \in Bit
    BY <1>1, <1>3, <1>5
  <1>9. CASE y \in W(m)
    <2>1. k - i <= k - m /\ dist[c][y] \in Nat  BY <1>0, <1>5, <1>8
    <2>2. dist[c][y] <= k - m  BY <1>3, <1>5, <2>1
    <2> QED  BY <1>6, <1>9, <2>2
  <1>10. ASSUME NEW z \in W(m), y \in Forwards[z] PROVE FALSE
    <2>1. z \in Bit  BY <1>8
    <2>2. Pred(y, z)  BY <1>8, <1>10, <2>1, DesignFacts, ReverseIsExact DEF Forwards, Pred
    <2>3. dist[c][y] \in Nat /\ dist[c][z] \in Nat /\ dist[c][y] < MaxHops
      BY <1>0, <1>3, <1>5, <1>8, <2>1
    <2>4. dist[c][z] <= dist[c][y] + 1  BY <1>8, <2>1, <2>2, <2>3 DEF DistClosedBelow
    <2>5. dist[c][z] <= k - m  BY <1>3, <1>5, <2>3, <2>4
    <2> QED  BY <1>6, <2>5
  <1> QED  BY <1>7, <1>9, <1>10

LEMMA FilterIsExact == IInv /\ RealInv => FilterExact
  <1> SUFFICES ASSUME IInv, RealInv, stage = "done",
                      NEW c \in Clock, NEW b \in Bit, NEW k \in 0..MaxHops
               PROVE  dist[c][b] <= k
                      <=> Within(Forwards, {b}, k) \cap Seeds(c) # {}
    BY DEF FilterExact, Forwards
  <1> USE DEF IInv
  <1>0. MaxHops \in Nat /\ dist[c][b] \in 0..Far /\ Far = MaxHops + 1  BY DesignFacts DEF TypeOK
  <1>1. ASSUME dist[c][b] <= k PROVE Within(Forwards, {b}, k) \cap Seeds(c) # {}
    <2>1. Within(Forwards, {b}, dist[c][b]) \cap Seeds(c) # {}
      BY <1>0, <1>1 DEF RealInv, DistReal
    <2>2. Within(Forwards, {b}, dist[c][b]) \subseteq Within(Forwards, {b}, k)
      BY <1>0, <1>1, EdgeTypes, WithinGrows
    <2> QED  BY <2>1, <2>2
  <1>2. ASSUME NEW x \in Within(Forwards, {b}, k), x \in Seeds(c) PROVE dist[c][b] <= k
    <2>1. DistClosedBelow(c, MaxHops)  BY DEF FilterInv, ClockFinished
    <2>2. dist[c][x] = 0  BY <1>2, <2>1 DEF DistClosedBelow
    <2>3. k \in 0..k /\ dist[c][x] <= k - k  BY <2>2
    <2> QED  BY <2>1, <2>3, ReachedIsMeasured
  <1> QED  BY <1>1, <1>2

(***************************************************************************)
(* The fanout filter of every run measures, for every clock and bit, the   *)
(* fewest cells of a forward path to a D pin in that clock, as far as the  *)
(* budget goes ("the exact reverse of the forward walk's edges").          *)
(***************************************************************************)
THEOREM FilterMeasuresPaths == Spec => []FilterExact
  BY FullInvariant, FilterIsExact, PTL
------------------------------------------------------------------------------
(* The records are exact. *)

(* A bit within k cells was seen by then, or the filter has shown that no  *)
(* foreign D pin is left within the budget.                                *)
LEMMA ReachedIsSeen ==
    ASSUME IInv, stage = "done", NEW s \in Source, Searched(net, s),
           NEW k \in 0..MaxHops, NEW b \in ReachWithin(net, s, k)
    PROVE  \/ seen[s][b] <= k
           \/ net.src[s].kind = "flop" /\ ~Useful(b, k, net.src[s].clock)
  <1> USE DEF IInv
  <1>0. /\ MaxHops \in Nat /\ Far = MaxHops + 1
        /\ \A x \in Bit : seen[s][x] \in 0..Far
        /\ \A c \in Clock, x \in Bit : dist[c][x] \in 0..Far
        /\ net.src[s].kind \in {"flop", "port", "pin"}
    BY DesignFacts DEF TypeOK
  <1>1. SeenClosedBelow(s, Far)
    BY <1>0 DEF SourceFinished, StagesAfter, WalkInv
  <1> DEFINE R(i) == ReachWithin(net, s, i)
             Lost(x, i) == ~(\/ seen[s][x] <= i
                             \/ net.src[s].kind = "flop" /\ ~Useful(x, i, net.src[s].clock))
             bad == {i \in 0..MaxHops : \E x \in R(i) : Lost(x, i)}
  <1> SUFFICES ASSUME bad # {} PROVE FALSE
    OBVIOUS
  <1>2. PICK i \in bad : \A m \in bad : i <= m
    <2>1. bad \in SUBSET Nat  BY <1>0
    <2> QED  BY <2>1, LeastNat
  <1>3. PICK x \in R(i) : Lost(x, i)
    BY <1>2
  <1>4. i # 0
    BY <1>1, <1>3, ReachFacts DEF SeenClosedBelow
  <1>5. PICK m \in Nat : i = m + 1 /\ m \in 0..MaxHops /\ m < MaxHops /\ ~(i <= m)
    <2>1. i - 1 \in Nat /\ i = (i - 1) + 1 /\ i - 1 \in 0..MaxHops /\ i - 1 < MaxHops /\ ~(i <= i - 1)
      BY <1>0, <1>4
    <2> QED  BY <2>1
  <1>6. \A y \in R(m) : ~Lost(y, m)
    BY <1>2, <1>5
  <1>7. R(m) \in SUBSET Bit /\ R(m + 1) \in SUBSET Bit
    <2>1. m + 1 \in Nat  BY <1>5
    <2> QED  BY <1>5, <2>1, ReachFacts
  <1>8. x \in R(m) \/ \E y \in R(m) : x \in Step(net, s, y)
    BY <1>3, <1>5, ReachFacts
  <1>9. x \in Bit  BY <1>3, <1>5, <1>7
  (* No further from the source, no nearer to the D pins. *)
  <1>10. ASSUME NEW y \in Bit, seen[s][y] <= m,
                net.src[s].kind = "flop" => Useful(y, m, net.src[s].clock)
         PROVE  Pushes(s, y, seen[s][y]) /\ seen[s][y] < Far /\ seen[s][y] <= MaxHops
    <2>1. seen[s][y] \in Nat /\ seen[s][y] < MaxHops  BY <1>0, <1>5, <1>10
    <2>2. ASSUME NEW c \in Clock, dist[c][y] <= MaxHops - m
          PROVE  dist[c][y] <= MaxHops - seen[s][y]
      BY <1>0, <1>5, <1>10, <2>1, <2>2
    <2>3. net.src[s].kind = "flop" => Useful(y, seen[s][y], net.src[s].clock)
      BY <1>10, <2>2 DEF Useful
    <2> QED  BY <1>0, <2>1, <2>3 DEF Pushes
  <1>11. ASSUME NEW c \in Clock, dist[c][x] <= MaxHops - i PROVE dist[c][x] <= MaxHops - m
    BY <1>0, <1>5, <1>9, <1>11
  <1>12. CASE x \in R(m)
    <2>1. ~Lost(x, m)  BY <1>6, <1>12
    <2>2. CASE seen[s][x] <= m  BY <1>0, <1>3, <1>5, <1>9, <2>2
    <2>3. CASE net.src[s].kind = "flop" /\ ~Useful(x, m, net.src[s].clock)
      <3>1. ~Useful(x, i, net.src[s].clock)  BY <1>11, <2>3 DEF Useful
      <3> QED  BY <1>3, <2>3, <3>1
    <2> QED  BY <2>1, <2>2, <2>3
  <1>13. ASSUME NEW y \in R(m), x \in Step(net, s, y) PROVE FALSE
    <2>0. y \in Bit  BY <1>7
    <2>1. ~Lost(y, m)  BY <1>6
    <2>2. CASE net.src[s].kind = "flop" /\ ~Useful(y, m, net.src[s].clock)
      <3>1. x \in Fwd(net.cells, y)  BY <1>13, <2>2 DEF Step
      <3>2. ASSUME NEW c \in Clock, dist[c][x] <= MaxHops - i PROVE dist[c][y] <= MaxHops - m
        <4>1. DistClosedBelow(c, MaxHops)  BY DEF FilterInv, ClockFinished
        <4>2. Pred(x, y)  BY <1>9, <2>0, <3>1, DesignFacts, ReverseIsExact DEF Pred
        <4>3. dist[c][x] < MaxHops /\ dist[c][x] \in Nat /\ dist[c][y] \in Nat
          BY <1>0, <1>5, <1>9, <2>0, <3>2
        <4>4. dist[c][y] <= dist[c][x] + 1  BY <1>9, <2>0, <4>1, <4>2, <4>3 DEF DistClosedBelow
        <4> QED  BY <1>0, <1>5, <3>2, <4>3, <4>4
      <3>3. ~Useful(x, i, net.src[s].clock)  BY <2>2, <3>2 DEF Useful
      <3> QED  BY <1>3, <2>2, <3>3
    <2>3. CASE /\ seen[s][y] <= m
               /\ net.src[s].kind = "flop" => Useful(y, m, net.src[s].clock)
      <3>1. Pushes(s, y, seen[s][y]) /\ seen[s][y] < Far /\ seen[s][y] <= MaxHops
        BY <1>10, <2>0, <2>3
      <3>2. seen[s][x] <= seen[s][y] + 1
        BY <1>1, <1>13, <2>0, <3>1 DEF SeenClosedBelow
      <3>3. seen[s][x] <= i  BY <1>0, <1>5, <1>9, <2>0, <2>3, <3>2
      <3> QED  BY <1>3, <3>3
    <2> QED  BY <2>1, <2>2, <2>3
  <1> QED  BY <1>8, <1>12, <1>13

(* So a landing within the budget was recorded, at no greater a depth. *)
LEMMA LandingIsRecorded ==
    ASSUME IInv, stage = "done", NEW s \in Source, NEW t \in Sink,
           NEW k \in 0..MaxHops, NEW b \in LandingBits(net, s, t, k)
    PROVE  b \in grouped[s][t].bits /\ grouped[s][t].hops <= k
  <1> USE DEF IInv
  <1> DEFINE c == net.sink[t].clock
  <1>0. /\ MaxHops \in Nat /\ Far = MaxHops + 1
        /\ net.src[s].kind \in {"flop", "port", "pin"}
    BY DesignFacts
  <1>1. /\ Endpoints(net, s, t) /\ b \in ReachWithin(net, s, k) /\ b \in net.sink[t].bits
    BY DEF LandingBits
  <1>2. b \in Bit  BY <1>1, DesignFacts
  <1>3. c \in Clock /\ c # net.src[s].clock /\ Searched(net, s)
    BY <1>1 DEF Endpoints, TypeOK, IsDesign, SinkRec
  <1>4. t # s
    BY <1>3 DEF TypeOK, IsDesign
  <1>5. t \in Lands(s, b)
    BY <1>1, <1>3, <1>4 DEF Lands, Foreign, Endpoints
  <1>6. dist[c][b] = 0
    <2>1. DistClosedBelow(c, MaxHops)  BY <1>3 DEF FilterInv, ClockFinished
    <2> QED  BY <1>1, <1>2, <2>1 DEF DistClosedBelow, Seeds
  <1>7. Useful(b, k, net.src[s].clock)
    BY <1>0, <1>3, <1>6 DEF Useful
  <1>8. seen[s][b] <= k  BY <1>1, <1>3, <1>7, ReachedIsSeen
  <1>9. SeenClosedBelow(s, Far)
    BY <1>0, <1>3 DEF SourceFinished, StagesAfter, WalkInv
  <1>10. seen[s][b] \in 0..Far  BY <1>0, <1>2, DesignFacts DEF TypeOK
  <1>11. seen[s][b] < Far /\ seen[s][b] <= MaxHops  BY <1>0, <1>8, <1>10
  <1>12. b \in grouped[s][t].bits /\ grouped[s][t].hops <= seen[s][b]
    BY <1>2, <1>5, <1>9, <1>11 DEF SeenClosedBelow
  <1>13. grouped[s][t].hops \in Nat
    <2>1. grouped[s][t] \in Record  BY DEF TypeOK
    <2> QED  BY <2>1, DesignFacts DEF Record
  <1> QED  BY <1>0, <1>8, <1>10, <1>12, <1>13

LEMMA RecordsAreExact == IInv /\ RealInv => RecordsExact
  <1> SUFFICES ASSUME IInv, RealInv, stage = "done", NEW s \in Source, NEW t \in Sink
               PROVE  /\ grouped[s][t].bits = LandingBits(net, s, t, MaxHops)
                      /\ \A k \in 0..MaxHops :
                            grouped[s][t].hops <= k <=> LandingBits(net, s, t, k) # {}
    BY DEF RecordsExact
  <1>0. MaxHops \in Nat /\ MaxHops \in 0..MaxHops /\ TypeOK  BY HopsAssumption DEF IInv
  <1>1. grouped[s][t].bits \subseteq LandingBits(net, s, t, MaxHops)
    BY DEF RealInv, RecordReal
  <1>2. LandingBits(net, s, t, MaxHops) \subseteq grouped[s][t].bits
    BY <1>0, LandingIsRecorded
  <1>3. ASSUME NEW k \in 0..MaxHops, grouped[s][t].hops <= k
        PROVE  LandingBits(net, s, t, k) # {}
    <2>1. grouped[s][t] \in Record  BY <1>0 DEF TypeOK
    <2>2. grouped[s][t].hops \in Nat /\ grouped[s][t].hops <= MaxHops
      BY <1>0, <1>3, <2>1, DesignFacts DEF Record
    <2>3. LandingBits(net, s, t, grouped[s][t].hops) # {}
      BY <2>2 DEF RealInv, RecordReal
    <2>4. LandingBits(net, s, t, grouped[s][t].hops) \subseteq LandingBits(net, s, t, k)
      BY <1>0, <1>3, <2>2, LandingGrows
    <2> QED  BY <2>3, <2>4
  <1>4. ASSUME NEW k \in 0..MaxHops, LandingBits(net, s, t, k) # {}
        PROVE  grouped[s][t].hops <= k
    BY <1>4, LandingIsRecorded
  <1> QED  BY <1>1, <1>2, <1>3, <1>4

(***************************************************************************)
(* find_crossings is exact: for every netlist, clocks and budget a pair is *)
(* recorded iff its clocks are known and differ and a D bit lies within    *)
(* max_hops cells, with every such bit and with the length of the shortest *)
(* path, whatever the filter, the levels and the visited sets skipped.     *)
(***************************************************************************)
THEOREM CrossingsAreExact == Spec => []RecordsExact
  BY FullInvariant, RecordsAreExact, PTL

(***************************************************************************)
(* The first landing of a pair is its nearest: "hops < min_hops" never     *)
(* holds of a record that is there, and no bit is taken out of a record.   *)
(***************************************************************************)
THEOREM NearestComesFirst == Spec => FirstLandingIsNearest
  <1> DEFINE Kept(s, t) == grouped[s][t].bits # {} =>
                              /\ grouped'[s][t].hops = grouped[s][t].hops
                              /\ grouped[s][t].bits \subseteq grouped'[s][t].bits
  <1>1. ASSUME IInv, RealInv, [Next]_vars, NEW s \in Source, NEW t \in Sink
        PROVE  Kept(s, t)
    <2>0. TypeOK /\ grouped[s][t] \in Record  BY <1>1 DEF IInv, TypeOK
    <2>1. CASE WalkLevel /\ s = cur
      <3> DEFINE r == RecordLanding(s, t)
                 old == grouped[s][t]
      <3>1. grouped'[s][t] = r  BY <2>0, <2>1 DEF WalkLevel, TypeOK
      <3>2. /\ old.bits \subseteq r.bits
            /\ r = old \/ r.hops = depth \/ r.hops = old.hops
            /\ r.hops <= old.hops
        BY <2>0, LandingFacts, LandingSource
      <3>3. old.bits # {} => old.hops <= depth
        BY <1>1, <2>1 DEF RealInv, RecordTimely
      <3>4. old.hops \in Nat /\ depth \in Nat /\ r.hops \in Nat
        BY <2>0, DesignFacts, LandingFacts DEF Record, TypeOK
      <3> HIDE DEF r
      <3> QED  BY <3>1, <3>2, <3>3, <3>4
    <2>2. CASE ~(WalkLevel /\ s = cur)
      <3>1. grouped'[s][t] = grouped[s][t]
        BY <1>1, <2>0, <2>2
        DEF Next, vars, StartClock, BackwardLevel, ClockDone, FilterDone, SkipFlop,
            StartSource, WalkLevel, SourceDone, NextStage, Returned, TypeOK
      <3> QED  BY <3>1
    <2> QED  BY <2>1, <2>2
  <1>2. IInv /\ RealInv /\ [Next]_vars =>
            [\A s \in Source, t \in Sink : Kept(s, t)]_vars
    BY <1>1
  <1>3. Spec => [][\A s \in Source, t \in Sink : Kept(s, t)]_vars
    BY <1>2, FullInvariant, PTL DEF Spec
  <1> QED  BY <1>3 DEF FirstLandingIsNearest
------------------------------------------------------------------------------
(***************************************************************************)
(* The search ends: every step leaves fewer walks to begin, or as many and *)
(* fewer levels of the one in progress.  Loops of the netlist do not       *)
(* matter, only the budget does.                                           *)
(***************************************************************************)
Count(kind) == Cardinality(SourcesOf(kind))

(* The walks of the stages to come, and the stages themselves. *)
Ahead(s) ==
    IF s = "filter" THEN Count("flop") + Count("port") + Count("pin") + 4
    ELSE IF s = "flop" THEN Count("port") + Count("pin") + 3
    ELSE IF s = "port" THEN Count("pin") + 2
    ELSE IF s = "pin" THEN 1 ELSE 0

Starts == Cardinality(pending) + Ahead(stage)
Levels == IF cur = Idle THEN 0 ELSE MaxHops + 2 - depth

(* What a stage may have before it, and how far a walk may have come. *)
BudgetInv ==
    /\ stage = "filter" => pending \subseteq Clock
    /\ stage = "done" => pending = {}
    /\ cur \in Source => depth <= MaxHops + 1

LEMMA BudgetKept == IInv /\ BudgetInv /\ [Next]_vars => BudgetInv'
  <1> SUFFICES ASSUME IInv, BudgetInv, [Next]_vars PROVE BudgetInv'
    OBVIOUS
  <1>0. MaxHops \in Nat /\ depth \in Nat /\ Clock \cap Source = {} /\ Idle \notin Source
    BY HopsAssumption, NameAssumption DEF IInv, TypeOK
  <1>1. ASSUME NEW c \in Clock, StartClock(c) PROVE BudgetInv'
    BY <1>0, <1>1 DEF StartClock, BudgetInv
  <1>2. CASE BackwardLevel
    BY <1>0, <1>2 DEF BackwardLevel, BudgetInv
  <1>3. CASE ClockDone
    BY <1>0, <1>3 DEF ClockDone, walk, BudgetInv
  <1>4. CASE FilterDone
    BY <1>0, <1>4 DEF FilterDone, walk, BudgetInv
  <1>5. ASSUME NEW s \in Source, SkipFlop(s) PROVE BudgetInv'
    BY <1>0, <1>5 DEF SkipFlop, walk, BudgetInv
  <1>6. ASSUME NEW s \in Source, StartSource(s) PROVE BudgetInv'
    BY <1>0, <1>6 DEF StartSource, BudgetInv
  <1>7. CASE WalkLevel
    <2>1. depth <= MaxHops  BY <1>7 DEF WalkLevel, IInv, WalkInv
    <2> QED  BY <1>0, <1>7, <2>1 DEF WalkLevel, BudgetInv
  <1>8. CASE SourceDone
    BY <1>0, <1>8 DEF SourceDone, walk, BudgetInv
  <1>9. CASE NextStage
    BY <1>0, <1>9 DEF NextStage, walk, BudgetInv
  <1>10. CASE Returned \/ UNCHANGED vars
    BY <1>10 DEF Returned, vars, BudgetInv
  <1> QED  BY <1>1, <1>2, <1>3, <1>4, <1>5, <1>6, <1>7, <1>8, <1>9, <1>10 DEF Next

LEMMA CountsAreNatural ==
    ASSUME IsFiniteSet(Clock), IsFiniteSet(Source), TypeOK
    PROVE  /\ Count("flop") \in Nat /\ Count("port") \in Nat /\ Count("pin") \in Nat
           /\ Ahead(stage) \in Nat /\ Cardinality(pending) \in Nat
           /\ \A x \in pending : Cardinality(pending \ {x}) = Cardinality(pending) - 1
  <1>1. IsFiniteSet(pending)
    <2>1. IsFiniteSet(Clock \cup Source)  BY FS_Union
    <2> QED  BY <2>1, FS_Subset DEF TypeOK
  <1>2. ASSUME NEW kind PROVE Count(kind) \in Nat
    <2>1. IsFiniteSet(SourcesOf(kind))
      <3>1. SourcesOf(kind) \in SUBSET Source  BY DEF SourcesOf
      <3> QED  BY <3>1, FS_Subset
    <2> QED  BY <2>1, FS_CardinalityType DEF Count
  <1>3. Ahead(stage) \in Nat  BY <1>2 DEF Ahead
  <1>4. Cardinality(pending) \in Nat  BY <1>1, FS_CardinalityType
  <1>5. \A x \in pending : Cardinality(pending \ {x}) = Cardinality(pending) - 1
    BY <1>1, FS_RemoveElement
  <1> QED  BY <1>2, <1>3, <1>4, <1>5

Shrinks == Starts' < Starts \/ (Starts' = Starts /\ Levels' < Levels)

LEMMA StepShrinks ==
    ASSUME IsFiniteSet(Clock), IsFiniteSet(Source), IInv, BudgetInv, Next, vars' # vars
    PROVE  Shrinks
  <1>0. /\ MaxHops \in Nat /\ depth \in Nat /\ Idle \notin Clock \cup Source
        /\ TypeOK
    BY HopsAssumption, NameAssumption DEF IInv, TypeOK
  <1>1. /\ Count("flop") \in Nat /\ Count("port") \in Nat /\ Count("pin") \in Nat
        /\ Ahead(stage) \in Nat /\ Cardinality(pending) \in Nat
        /\ \A x \in pending : Cardinality(pending \ {x}) = Cardinality(pending) - 1
    BY <1>0, CountsAreNatural
  <1>2. ASSUME net' = net
        PROVE  \A k : Count(k)' = Count(k)
    BY <1>2 DEF Count, SourcesOf
  <1>3. ASSUME net' = net, stage' = stage
        PROVE  Ahead(stage)' = Ahead(stage)
    BY <1>2, <1>3 DEF Ahead
  <1>4. ASSUME net' = net, stage' = stage, NEW x \in pending, pending' = pending \ {x}
        PROVE  Starts' < Starts
    BY <1>1, <1>3, <1>4 DEF Starts
  <1>5. ASSUME net' = net, stage' = stage, pending' = pending
        PROVE  Starts' = Starts
    BY <1>3, <1>5 DEF Starts
  <1>6. ASSUME NEW c \in Clock, StartClock(c) PROVE Shrinks
    BY <1>4, <1>6 DEF StartClock, Shrinks
  <1>7. CASE BackwardLevel
    <2>1. Starts' = Starts  BY <1>5, <1>7 DEF BackwardLevel
    <2>2. Levels' < Levels  BY <1>0, <1>7 DEF BackwardLevel, Levels
    <2> QED  BY <2>1, <2>2 DEF Shrinks
  <1>8. CASE ClockDone
    <2>1. Starts' = Starts  BY <1>5, <1>8 DEF ClockDone
    <2>2. depth <= MaxHops  BY <1>8 DEF ClockDone, IInv, FilterInv
    <2>3. Levels' < Levels  BY <1>0, <1>8, <2>2 DEF ClockDone, walk, Levels
    <2> QED  BY <2>1, <2>3 DEF Shrinks
  <1>9. CASE FilterDone
    <2>1. pending = {} /\ pending' = SourcesOf("flop") /\ stage = "filter" /\ stage' = "flop"
          /\ net' = net
      BY <1>9 DEF FilterDone
    <2>2. Starts = Count("flop") + Count("port") + Count("pin") + 4
      BY <1>1, <2>1, FS_EmptySet DEF Starts, Ahead
    <2>3. Starts' = Count("flop") + (Count("port") + Count("pin") + 3)
      BY <1>2, <2>1 DEF Starts, Ahead, Count
    <2> QED  BY <1>1, <2>2, <2>3 DEF Shrinks
  <1>10. ASSUME NEW s \in Source, SkipFlop(s) PROVE Shrinks
    BY <1>4, <1>10 DEF SkipFlop, Shrinks
  <1>11. ASSUME NEW s \in Source, StartSource(s) PROVE Shrinks
    BY <1>4, <1>11 DEF StartSource, Shrinks
  <1>12. CASE WalkLevel
    <2>1. Starts' = Starts  BY <1>5, <1>12 DEF WalkLevel
    <2>2. Levels' < Levels  BY <1>0, <1>12 DEF WalkLevel, Levels
    <2> QED  BY <2>1, <2>2 DEF Shrinks
  <1>13. CASE SourceDone
    <2>1. Starts' = Starts  BY <1>5, <1>13 DEF SourceDone
    <2>2. Levels' < Levels  BY <1>0, <1>13 DEF SourceDone, walk, Levels, BudgetInv
    <2> QED  BY <2>1, <2>2 DEF Shrinks
  <1>14. CASE NextStage
    <2>1. pending = {} /\ net' = net  BY <1>14 DEF NextStage
    <2>2. Starts = Ahead(stage)  BY <1>1, <2>1, FS_EmptySet DEF Starts
    <2>3. CASE stage = "flop"
      <3>1. stage' = "port" /\ pending' = SourcesOf("port")  BY <1>14, <2>3 DEF NextStage
      <3>2. Starts' = Count("port") + (Count("pin") + 2)
        BY <1>2, <2>1, <3>1 DEF Starts, Ahead, Count
      <3> QED  BY <1>1, <2>2, <2>3, <3>2 DEF Shrinks, Ahead
    <2>4. CASE stage = "port"
      <3>1. stage' = "pin" /\ pending' = SourcesOf("pin")  BY <1>14, <2>4 DEF NextStage
      <3>2. Starts' = Count("pin") + 1
        BY <1>2, <2>1, <3>1 DEF Starts, Ahead, Count
      <3> QED  BY <1>1, <2>2, <2>4, <3>2 DEF Shrinks, Ahead
    <2>5. CASE stage = "pin"
      <3>1. stage' = "done" /\ pending' = {}  BY <1>14, <2>5 DEF NextStage
      <3>2. Starts' = 0  BY <3>1, FS_EmptySet DEF Starts, Ahead
      <3> QED  BY <2>2, <2>5, <3>2 DEF Shrinks, Ahead
    <2> QED  BY <1>14, <2>3, <2>4, <2>5 DEF NextStage
  <1>15. ~Returned  BY DEF Returned
  <1> QED  BY <1>6, <1>7, <1>8, <1>9, <1>10, <1>11, <1>12, <1>13, <1>14, <1>15 DEF Next

(* What lets one of the actions be taken. *)
CanMove ==
    \/ stage = "filter" /\ cur = Idle /\ (pending = {} \/ \E c \in Clock : c \in pending)
    \/ stage = "filter" /\ cur \in Clock
    \/ /\ stage \in {"flop", "port", "pin"} /\ cur = Idle
       /\ pending = {} \/ \E s \in Source : s \in pending
    \/ stage \in {"flop", "port", "pin"} /\ cur \in Source

(***************************************************************************)
(* For every design with finitely many clocks and sources, whatever loops  *)
(* it has: find_crossings returns after boundedly many steps.  What is     *)
(* left of the search is a pair of naturals that every step makes smaller, *)
(* and until it returns there is a step to take.                           *)
(***************************************************************************)
THEOREM SearchEnds ==
    ASSUME IsFiniteSet(Clock), IsFiniteSet(Source)
    PROVE  Spec => /\ [](Starts \in Nat /\ Levels \in Nat)
                   /\ [][Shrinks]_vars
                   /\ [](stage # "done" => CanMove)
  <1>1. Init => BudgetInv
    BY HopsAssumption, NameAssumption DEF Init, BudgetInv
  <1>2. IInv /\ BudgetInv /\ [Next]_vars => BudgetInv'  BY BudgetKept
  <1>3. IInv /\ BudgetInv => Starts \in Nat /\ Levels \in Nat
    <2> SUFFICES ASSUME IInv, BudgetInv PROVE Starts \in Nat /\ Levels \in Nat
      OBVIOUS
    <2>1. TypeOK /\ MaxHops \in Nat /\ depth \in Nat  BY HopsAssumption DEF IInv, TypeOK
    <2>2. Starts \in Nat  BY <2>1, CountsAreNatural DEF Starts
    <2>3. cur \in Clock => depth <= MaxHops  BY DEF IInv, FilterInv
    <2>4. cur \in Clock \cup Source \cup {Idle}  BY <2>1 DEF TypeOK
    <2>5. Levels \in Nat  BY <2>1, <2>3, <2>4 DEF Levels, BudgetInv
    <2> QED  BY <2>2, <2>5
  <1>4. IInv /\ BudgetInv /\ [Next]_vars => [Shrinks]_vars
    BY StepShrinks
  <1>5. IInv /\ BudgetInv => (stage # "done" => CanMove)
    <2> SUFFICES ASSUME IInv, BudgetInv, stage # "done" PROVE CanMove
      OBVIOUS
    <2>1. cur \in Clock \cup Source \cup {Idle} /\ stage \in Stage /\ TypeOK  BY DEF IInv, TypeOK
    <2>2. cur \in Clock => stage = "filter"  BY DEF IInv, FilterInv
    <2>3. cur \in Source => stage \in {"flop", "port", "pin"}
      BY <2>1, DesignFacts DEF IInv, WalkInv
    <2>4. stage \in {"flop", "port", "pin"} => pending \subseteq Source
      BY DEF IInv, WalkInv, SourcesOf
    <2> QED  BY <2>1, <2>2, <2>3, <2>4 DEF CanMove, BudgetInv, Stage
  <1> QED  BY <1>1, <1>2, <1>3, <1>4, <1>5, SearchInvariant, PTL DEF Spec
------------------------------------------------------------------------------
(* The promise to the callers. *)

Reported == {p \in Source \X Sink : grouped[p[1]][p[2]].bits # {}}

(* What a step of the search looks like in the abstract list. *)
LEMMA StepReports ==
    ASSUME IInv, RealInv', RecordsExact', [Next]_vars
    PROVE  [Promise!Report \/ Promise!Return]_(Promise!reportVars)
  <1>1. net' = net
    BY DEF Next, vars, StartClock, BackwardLevel, ClockDone, FilterDone, SkipFlop,
           StartSource, WalkLevel, SourceDone, NextStage, Returned
  <1>2. CrossingPairs(net)' = CrossingPairs(net)
    BY <1>1, SameReach DEF CrossingPairs
  <1>3. CASE WalkLevel
    <2>1. stage # "done" /\ stage' = stage  BY <1>3 DEF WalkLevel
    <2>2. Reported' \subseteq CrossingPairs(net)'  BY DEF RealInv, RecordReal, Reported, CrossingPairs
    <2>3. Reported \subseteq Reported'
      <3>1. ASSUME NEW s \in Source, NEW t \in Sink
            PROVE  grouped[s][t].bits \subseteq grouped'[s][t].bits
        <4>1. CASE s = cur
          <5>1. grouped'[s][t] = RecordLanding(s, t)
            BY <1>3, <4>1 DEF WalkLevel, IInv, TypeOK
          <5> QED  BY <5>1, LandingFacts DEF IInv
        <4>2. CASE s # cur
          BY <1>3, <4>2 DEF WalkLevel, IInv, TypeOK
        <4> QED  BY <4>1, <4>2
      <3> QED  BY <3>1 DEF Reported
    <2> QED
      BY <1>1, <1>2, <2>1, <2>2, <2>3
      DEF Promise!Report, Promise!reportVars, Reported
  <1>4. CASE ~WalkLevel /\ stage' # "done"
    <2>1. grouped' = grouped /\ stage # "done"
      BY <1>4 DEF Next, vars, StartClock, BackwardLevel, ClockDone, FilterDone, SkipFlop,
           StartSource, SourceDone, NextStage, Returned
    <2> QED  BY <1>1, <1>4, <2>1 DEF Promise!reportVars
  <1>5. CASE stage = "done"
    <2>1. grouped' = grouped /\ stage' = "done"
      <3>1. cur = Idle  BY <1>5 DEF IInv, WalkInv
      <3> QED  BY <1>5, <3>1, NameAssumption
               DEF Next, vars, StartClock, BackwardLevel, ClockDone, FilterDone, SkipFlop,
                   StartSource, WalkLevel, SourceDone, NextStage, Returned
    <2> QED  BY <1>1, <1>5, <2>1 DEF Promise!reportVars
  <1>6. CASE stage # "done" /\ stage' = "done"
    <2>1. grouped' = grouped
      BY <1>6 DEF Next, vars, StartClock, BackwardLevel, ClockDone, FilterDone, SkipFlop,
           StartSource, WalkLevel, SourceDone, NextStage, Returned
    <2>2. \A s \in Source, t \in Sink : grouped[s][t].bits = LandingBits(net, s, t, MaxHops)
      BY <1>1, <1>6, <2>1, SameReach DEF RecordsExact
    <2>3. Reported = CrossingPairs(net)  BY <2>2 DEF Reported, CrossingPairs
    <2> QED  BY <1>1, <1>6, <2>1, <2>3 DEF Promise!Return, Promise!reportVars, Reported
  <1> QED  BY <1>3, <1>4, <1>5, <1>6

(***************************************************************************)
(* The search implements the safety half of the promise, for every design: *)
(* the list starts empty, grows with pairs that really cross, and is whole *)
(* when it is returned.  That it is returned (<>returned) is liveness.     *)
(***************************************************************************)
THEOREM KeepsThePromise ==
    Spec => Promise!ReportInit /\ [][Promise!Report \/ Promise!Return]_(Promise!reportVars)
  <1>1. Init => Promise!ReportInit
    BY DEF Init, NoRecord, Promise!ReportInit
  <1>2. IInv /\ RealInv /\ (IInv /\ RealInv)' /\ RecordsExact' /\ [Next]_vars
            => [Promise!Report \/ Promise!Return]_(Promise!reportVars)
    BY StepReports
  <1> QED  BY <1>1, <1>2, FullInvariant, CrossingsAreExact, PTL DEF Spec

------------------------------------------------------------------------------
(* The search beside the hardware: nothing within the budget is lost. *)

LEMMA DataInit == HwInit => HwTypeOK /\ DataInv
  <1> SUFFICES ASSUME HwInit PROVE HwTypeOK /\ DataInv
    OBVIOUS
  <1>1. TypeOK  BY InitTypeOK DEF HwInit
  <1>2. 0 \in 0..MaxHops  BY HopsAssumption
  <1> QED  BY <1>1, <1>2 DEF HwInit, HwTypeOK, DataInv

LEMMA LaunchKeepsInv ==
    ASSUME IInv, HwTypeOK, NEW s \in Source, Launch(s)
    PROVE  HwTypeOK' /\ DataInv'
  <1>1. /\ TypeOK /\ UNCHANGED vars /\ stage = "done" /\ Searched(net, s)
        /\ launched' = s /\ at' \in net.src[s].bits /\ crossed' = 0 /\ s # NoData
    BY NoDataAssumption DEF Launch, HwTypeOK
  <1>2. TypeOK'  BY <1>1, NextTypeOK
  <1>3. at' \in Bit /\ at' # NoData  BY <1>1, DesignFacts, NoDataAssumption
  <1>4. 0 \in 0..MaxHops  BY HopsAssumption
  <1>5. HwTypeOK'  BY <1>1, <1>2, <1>3, <1>4 DEF HwTypeOK
  <1>6. SourceFinished(s)  BY <1>1, DesignFacts DEF SourceFinished, StagesAfter
  <1>7. SeenClosedBelow(s, Far)  BY <1>1, <1>6 DEF IInv, WalkInv
  <1>8. seen[s][at'] = 0  BY <1>1, <1>7 DEF SeenClosedBelow
  <1>9. seen'[s][at'] <= 0 /\ stage' = "done" /\ Searched(net, s)'
    BY <1>1, <1>8 DEF vars, Searched
  <1> QED  BY <1>1, <1>5, <1>9 DEF DataInv

(***************************************************************************)
(* One cell further: either the walk had pushed the bit through that cell, *)
(* or the filter had shown the bit useless, and then so is the next one.   *)
(***************************************************************************)
LEMMA TravelKeepsInv ==
    ASSUME IInv, HwTypeOK, DataInv, SelectsStayWide(net.cells), Travel
    PROVE  HwTypeOK' /\ DataInv'
  <1>s. PICK s : s = launched  OBVIOUS
  <1>b. PICK b : b = at  OBVIOUS
  <1>h. PICK h : h = crossed  OBVIOUS
  <1>o. PICK ob : ob = at'  OBVIOUS
  <1> USE <1>s, <1>b, <1>h, <1>o
  <1>1. /\ TypeOK /\ UNCHANGED vars /\ s \in Source /\ s # NoData /\ b \in Bit
        /\ h \in 0..MaxHops /\ h < MaxHops /\ crossed' = h + 1 /\ launched' = s
        /\ ob \in Silicon(net.cells, b)
    BY DEF Travel, HwTypeOK
  <1>2. TypeOK'  BY <1>1, NextTypeOK
  <1>3. MaxHops \in Nat /\ Far = MaxHops + 1  BY <1>1, DesignFacts
  <1>4. ob \in Fwd(net.cells, b)  BY <1>1, DesignFacts, LanesLoseNoPath
  <1>5. ob \in Bit /\ ob # NoData  BY <1>4, NoDataAssumption DEF Fwd
  <1>6. HwTypeOK'  BY <1>1, <1>2, <1>3, <1>5 DEF HwTypeOK
  <1>7. /\ stage = "done" /\ Searched(net, s)
        /\ \/ seen[s][b] <= h
           \/ net.src[s].kind = "flop" /\ ~Useful(b, h, net.src[s].clock)
    BY <1>1 DEF DataInv
  <1>8. SeenClosedBelow(s, Far)
    BY <1>1, <1>7, DesignFacts DEF SourceFinished, StagesAfter, IInv, WalkInv
  <1>9. /\ \A x \in Bit : seen[s][x] \in 0..Far
        /\ \A c \in Clock, x \in Bit : dist[c][x] \in 0..Far
    BY <1>1, <1>3, DesignFacts DEF TypeOK
  <1>10. ob \in Step(net, s, b)  BY <1>1, <1>4, FwdWithinFwdAll DEF Step
  <1>11. ASSUME NEW c \in Clock, dist[c][ob] <= MaxHops - (h + 1)
         PROVE  dist[c][b] <= MaxHops - h
    <2>1. DistClosedBelow(c, MaxHops)
      BY <1>7 DEF IInv, FilterInv, ClockFinished
    <2>2. Pred(ob, b)  BY <1>1, <1>4, <1>5, DesignFacts, ReverseIsExact DEF Pred
    <2>3. dist[c][ob] < MaxHops  BY <1>1, <1>3, <1>5, <1>9, <1>11
    <2>4. dist[c][b] <= dist[c][ob] + 1  BY <1>1, <1>5, <2>1, <2>2, <2>3 DEF DistClosedBelow
    <2> QED  BY <1>1, <1>3, <1>5, <1>9, <1>11, <2>4
  <1>12. \/ seen[s][ob] <= h + 1
         \/ net.src[s].kind = "flop" /\ ~Useful(ob, h + 1, net.src[s].clock)
    <2>1. CASE net.src[s].kind = "flop" /\ ~Useful(b, h, net.src[s].clock)
      <3>1. ~Useful(ob, h + 1, net.src[s].clock)  BY <1>11, <2>1 DEF Useful
      <3> QED  BY <2>1, <3>1
    <2>2. CASE seen[s][b] <= h /\ (net.src[s].kind = "flop" => Useful(b, h, net.src[s].clock))
      <3>1. seen[s][b] \in 0..Far /\ seen[s][b] < MaxHops  BY <1>1, <1>3, <1>9, <2>2
      <3>2. net.src[s].kind = "flop" => Useful(b, seen[s][b], net.src[s].clock)
        <4>1. ASSUME NEW c \in Clock, dist[c][b] <= MaxHops - h
              PROVE  dist[c][b] <= MaxHops - seen[s][b]
          BY <1>1, <1>3, <1>9, <2>2, <3>1, <4>1
        <4> QED  BY <2>2, <4>1 DEF Useful
      <3>3. Pushes(s, b, seen[s][b])  BY <3>1, <3>2 DEF Pushes
      <3>4. seen[s][b] < Far /\ seen[s][b] <= MaxHops  BY <1>3, <3>1
      <3>5. seen[s][ob] <= seen[s][b] + 1
        BY <1>1, <1>8, <1>10, <3>3, <3>4 DEF SeenClosedBelow
      <3> QED  BY <1>1, <1>3, <1>5, <1>9, <2>2, <3>1, <3>5
    <2> QED  BY <1>7, <2>1, <2>2
  <1>13. /\ stage' = "done" /\ Searched(net, s)'
         /\ seen'[s][ob] = seen[s][ob] /\ net' = net
         /\ Useful(ob, h + 1, net.src[s].clock)' <=> Useful(ob, h + 1, net.src[s].clock)
    BY <1>1, <1>7 DEF vars, Searched, Useful
  <1> QED
    <2>1. DataInv'
      BY <1>1, <1>12, <1>13 DEF DataInv, Useful
    <2> QED  BY <1>6, <2>1

(* A finished search keeps still while the data travels. *)
LEMMA SearchKeepsInv ==
    ASSUME IInv, IInv', HwTypeOK, DataInv, Search
    PROVE  HwTypeOK' /\ DataInv'
  <1>1. UNCHANGED data /\ TypeOK' /\ Next  BY DEF Search, IInv
  <1>2. HwTypeOK'  BY <1>1 DEF HwTypeOK, data
  <1>3. stage = "done" => UNCHANGED vars
    <2>1. stage = "done" => cur = Idle  BY DEF IInv, WalkInv
    <2> QED
      BY <1>1 DEF Next, StartClock, BackwardLevel, ClockDone, FilterDone, SkipFlop,
                  StartSource, WalkLevel, SourceDone, NextStage, Returned
  <1>4. DataInv'
    <2>1. CASE launched = NoData  BY <1>1, <2>1 DEF DataInv, data
    <2>2. CASE launched # NoData
      <3>1. UNCHANGED vars  BY <1>3, <2>2 DEF DataInv
      <3> QED  BY <1>1, <3>1 DEF DataInv, data, vars, Searched, Useful
    <2> QED  BY <2>1, <2>2
  <1> QED  BY <1>2, <1>4

(* A change that lands within the budget was recorded. *)
LEMMA DataImpliesReported ==
    ASSUME IInv, HwTypeOK, DataInv
    PROVE  NoSilentCrossing
  <1> SUFFICES ASSUME launched # NoData, NEW t \in Sink, t \in Lands(launched, at)
               PROVE  /\ at \in grouped[launched][t].bits
                      /\ grouped[launched][t].hops <= crossed
    BY DEF NoSilentCrossing
  <1> DEFINE s == launched
             c == net.sink[t].clock
  <1>1. TypeOK /\ s \in Source /\ at \in Bit /\ crossed \in 0..MaxHops
    BY DEF HwTypeOK
  <1>2. MaxHops \in Nat /\ Far = MaxHops + 1  BY <1>1, DesignFacts
  <1>3. c \in Clock /\ c # net.src[s].clock /\ at \in net.sink[t].bits
    BY <1>1 DEF Lands, Foreign, TypeOK, IsDesign, SinkRec
  <1>4. stage = "done" /\ Searched(net, s)  BY DEF DataInv
  <1>5. dist[c][at] = 0
    <2>1. at \in Seeds(c)  BY <1>1, <1>3 DEF Seeds
    <2>2. DistClosedBelow(c, MaxHops)  BY <1>3, <1>4 DEF IInv, FilterInv, ClockFinished
    <2> QED  BY <2>1, <2>2 DEF DistClosedBelow
  <1>6. Useful(at, crossed, net.src[s].clock)
    BY <1>1, <1>2, <1>3, <1>5 DEF Useful
  <1>7. seen[s][at] <= crossed  BY <1>6 DEF DataInv
  <1>8. SeenClosedBelow(s, Far)
    BY <1>1, <1>4, DesignFacts DEF SourceFinished, StagesAfter, IInv, WalkInv
  <1>9. seen[s][at] \in 0..Far  BY <1>1, <1>2, DesignFacts DEF TypeOK
  <1>10. seen[s][at] < Far /\ seen[s][at] <= MaxHops  BY <1>1, <1>2, <1>7, <1>9
  <1>11. at \in grouped[s][t].bits /\ grouped[s][t].hops <= seen[s][at]
    BY <1>1, <1>8, <1>10 DEF SeenClosedBelow
  <1>12. grouped[s][t].hops \in Nat
    <2>1. grouped[s][t] \in Record  BY <1>1 DEF TypeOK
    <2> QED  BY <1>1, <2>1, DesignFacts DEF Record
  <1> QED  BY <1>1, <1>2, <1>7, <1>9, <1>11, <1>12

LEMMA NetStays == [HwNext]_hwVars => net' = net
  BY DEF HwNext, hwVars, vars, Search, Launch, Travel, Next, StartClock, BackwardLevel,
         ClockDone, FilterDone, SkipFlop, StartSource, WalkLevel, SourceDone, NextStage, Returned

(***************************************************************************)
(* The travelling change is never ahead of the walk, unless the filter has *)
(* shown that nothing foreign is left within its budget.  The one          *)
(* condition on the designs is that _lane_targets does not take a select   *)
(* port for a data lane.                                                   *)
(***************************************************************************)
THEOREM DataNeverAhead ==
    ASSUME \A n \in Design : SelectsStayWide(n.cells)
    PROVE  HwSpec => []HwInv
  <1> DEFINE Inv == IInv /\ HwTypeOK /\ DataInv /\ SelectsStayWide(net.cells)
  <1>1. HwInit => Inv
    BY InitTypeOK, InitInvs, DataInit DEF HwInit, IInv, Init
  <1>2. Inv /\ [HwNext]_hwVars => Inv'
    <2> SUFFICES ASSUME Inv, [HwNext]_hwVars PROVE Inv'
      OBVIOUS
    <2>1. SelectsStayWide(net.cells)'  BY NetStays DEF SelectsStayWide
    <2>2. [Next]_vars
      BY DEF HwNext, hwVars, Search, Launch, Travel
    <2>3. IInv'  BY <2>2, NextTypeOK, FilterInvKept, WalkInvKept DEF IInv
    <2>4. CASE Search  BY <2>1, <2>3, <2>4, SearchKeepsInv
    <2>5. ASSUME NEW s \in Source, Launch(s) PROVE Inv'
      BY <2>1, <2>3, <2>5, LaunchKeepsInv
    <2>6. CASE Travel  BY <2>1, <2>3, <2>6, TravelKeepsInv
    <2>7. CASE UNCHANGED hwVars
      <3>1. HwTypeOK'  BY <2>3, <2>7 DEF hwVars, data, HwTypeOK, IInv
      <3>2. DataInv'
        BY <2>7 DEF hwVars, vars, data, DataInv, Searched, Useful
      <3> QED  BY <2>1, <2>3, <3>1, <3>2
    <2> QED  BY <2>4, <2>5, <2>6, <2>7 DEF HwNext
  <1> QED  BY <1>1, <1>2, PTL DEF HwSpec, HwInv

(***************************************************************************)
(* NoSilentCrossing, for any netlists, clocks, sources, sinks and budget:  *)
(* data that physically reaches a flop of another clock within MaxHops     *)
(* cells was reported by find_crossings, under the same condition.         *)
(***************************************************************************)
THEOREM NothingSilent ==
    ASSUME \A n \in Design : SelectsStayWide(n.cells)
    PROVE  HwSpec => []NoSilentCrossing
  <1>1. HwInv => NoSilentCrossing  BY DataImpliesReported DEF HwInv
  <1>2. HwSpec => []HwInv  BY DataNeverAhead
  <1> QED  BY <1>1, <1>2, PTL
=============================================================================
