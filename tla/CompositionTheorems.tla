------------------------ MODULE CompositionTheorems ------------------------
(***************************************************************************)
(* What composition promises, for every design, every set of sanctioned    *)
(* primitives and every clock-trace budget: the cache is not visible, a    *)
(* proven depth is a synchronizer of the flat design, no path between      *)
(* asynchronous registers is severed, and no reconvergence is.             *)
(*                                                                         *)
(* The argument, in this order: where the clock of a flat register comes   *)
(* from; that a route is an alternation of wires and instances; what a     *)
(* chain of registers is; what a summary says; the invariant of the walk   *)
(* (ComposeInv); and, from the invariant at the end of the walk, the four  *)
(* promises.                                                               *)
(***************************************************************************)
EXTENDS CompositionFlat, Induction, FiniteSetTheorems, SequenceTheorems, TLAPS

----------------------------------------------------------------------------
(* Where a clock comes from                                                *)

Origin(d) == [root : Root(d) \cup {None}, hops : Nat, via : SUBSET Insts(d)]

(* What a clock pin of a design is fed by.                                 *)
LEMMA ClockPinFed ==
    ASSUME NEW d, IsDesign(d), NEW c \in DOMAIN d.clk
    PROVE  /\ d.clk[c].hops \in Nat
           /\ \/ d.clk[c].from \in Root(d) \/ d.clk[c].from = None
              \/ /\ d.clk[c].from \in OutPins(d) /\ d.clk[c].from[1] \in Insts(d)
                 /\ d.clk[c].from[2] \in Body(d, d.clk[c].from[1]).out
                 /\ d.clk[c].from = <<d.clk[c].from[1], d.clk[c].from[2]>>
<1>1. d.clk[c].from \in Root(d) \cup OutPins(d) \cup {None} /\ d.clk[c].hops \in Nat
  BY DEF IsDesign
<1>2. ASSUME NEW p \in OutPins(d)
      PROVE  p[1] \in Insts(d) /\ p[2] \in Body(d, p[1]).out /\ p = <<p[1], p[2]>>
  <2>1. PICK i \in Insts(d) : p \in {i} \X Body(d, i).out
    BY DEF OutPins
  <2> QED  BY <2>1
<1> QED  BY <1>1, <1>2

(* The first step is typed.                                                *)
LEMMA NearTyped ==
    ASSUME NEW d, IsDesign(d)
    PROVE  Near(d) \in [DOMAIN d.clk -> Origin(d)]
<1> SUFFICES ASSUME NEW c \in DOMAIN d.clk PROVE Near(d)[c] \in Origin(d)
  BY DEF Near
<1> DEFINE from == d.clk[c].from
<1>1. Near(d)[c] = IF from \in Root(d)
                   THEN [root |-> from, hops |-> d.clk[c].hops, via |-> {}]
                   ELSE [root |-> None, hops |-> 0,
                         via |-> IF from = None THEN {} ELSE {from[1]}]
  BY DEF Near
<1> QED  BY <1>1, ClockPinFed DEF Origin

(* And every further one keeps the type.                                   *)
LEMMA FurtherTyped ==
    ASSUME NEW d, IsDesign(d), NEW o \in [DOMAIN d.clk -> Origin(d)]
    PROVE  Further(d, o) \in [DOMAIN d.clk -> Origin(d)]
<1> SUFFICES ASSUME NEW c \in DOMAIN d.clk PROVE Further(d, o)[c] \in Origin(d)
  BY DEF Further
<1> DEFINE from == d.clk[c].from
           up == Body(d, from[1]).forward[from[2]]
           rest == o[<<from[1], up.pin>>]
<1>1. Further(d, o)[c] =
          IF Carried(d, from)
          THEN [root |-> rest.root, hops |-> rest.hops + d.clk[c].hops + up.hops,
                via |-> rest.via \cup {from[1]}]
          ELSE Near(d)[c]
  BY DEF Further
<1>2. CASE ~Carried(d, from)
  BY <1>1, <1>2, NearTyped
<1>3. CASE Carried(d, from)
  <2>1. from[1] \in Insts(d) /\ from[2] \in DOMAIN Body(d, from[1]).forward
    BY <1>3, ClockPinFed DEF Carried
  <2>2. <<from[1], up.pin>> \in DOMAIN d.clk /\ up.hops \in Nat
    BY <2>1 DEF IsDesign
  <2>3. rest \in Origin(d) /\ d.clk[c].hops \in Nat
    BY <2>2, ClockPinFed
  <2> HIDE DEF from, up, rest
  <2> QED  BY <1>1, <1>3, <2>1, <2>2, <2>3 DEF Origin
<1> QED  BY <1>2, <1>3

(* The origins are the last of the repeated looks behind the outputs that  *)
(* carry a clock.                                                          *)
LEMMA OriginsAre ==
    ASSUME NEW d, IsDesign(d)
    PROVE  \/ Origins(d) = Near(d)
           \/ \E o \in [DOMAIN d.clk -> Origin(d)] : Origins(d) = Further(d, o)
<1> DEFINE K == Cardinality(Insts(d))
           S == [DOMAIN d.clk -> Origin(d)]
           step == [o \in S |-> Further(d, o)]
           Upto[n \in 0..K] == IF n = 0 THEN Near(d) ELSE Further(d, Upto[n - 1])
<1>1. K \in Nat
  BY FS_CardinalityType DEF IsDesign
<1>2. step \in [S -> S] /\ Near(d) \in S
  BY NearTyped, FurtherTyped
<1>3. PICK f \in [0..K -> S] : f = [n \in 0..K |-> IF n = 0 THEN Near(d) ELSE step[f[n - 1]]]
  <2> HIDE DEF K, S, step
  <2>1. \E f \in [0..K -> S] : Recurs(f, Near(d), step, 0, K)
    BY <1>1, <1>2, RecursionExists
  <2> QED  BY <2>1 DEF Recurs
<1>4. f = [n \in 0..K |-> IF n = 0 THEN Near(d) ELSE Further(d, f[n - 1])]
  <2>1. \A n \in 0..K : n # 0 => step[f[n - 1]] = Further(d, f[n - 1])
    <3> SUFFICES ASSUME NEW n \in 0..K, n # 0 PROVE step[f[n - 1]] = Further(d, f[n - 1])
      OBVIOUS
    <3>1. n - 1 \in 0..K
      BY <1>1
    <3>2. f[n - 1] \in S
      BY <3>1
    <3> HIDE DEF S
    <3> QED  BY <3>2
  <2> HIDE DEF step
  <2> QED  BY <1>3, <2>1
<1>5. Upto = [n \in 0..K |-> IF n = 0 THEN Near(d) ELSE Further(d, Upto[n - 1])]
  BY <1>4
<1>6. Origins(d) = Upto[K]
  BY DEF Origins
<1> HIDE DEF Upto
<1>7. \A n \in 0..K : Upto[n] \in S
  <2> DEFINE bad == {n \in Nat : n \in 0..K /\ Upto[n] \notin S}
  <2> SUFFICES ASSUME bad # {} PROVE FALSE
    OBVIOUS
  <2>1. PICK n \in bad : \A k \in bad : n <= k
    BY LeastNat
  <2>2. n # 0
    BY <1>2, <1>5, <2>1
  <2>3. n - 1 \in Nat /\ n - 1 \in 0..K /\ ~(n <= n - 1)
    BY <1>1, <2>1, <2>2
  <2>4. Upto[n - 1] \in S
    BY <2>1, <2>3
  <2>5. Upto[n] = Further(d, Upto[n - 1])
    BY <1>5, <2>1, <2>2
  <2> HIDE DEF S
  <2> QED  BY <1>2, <2>1, <2>4, <2>5, FurtherTyped DEF S
<1>8. CASE K = 0
  BY <1>1, <1>5, <1>6, <1>8
<1>9. CASE K # 0
  <2>1. K - 1 \in 0..K /\ K \in 0..K
    BY <1>1, <1>9
  <2> QED  BY <1>5, <1>6, <1>7, <1>9, <2>1
<1> QED  BY <1>8, <1>9

(* A root feeds its pins; a clock that comes out of an instance passes it. *)
LEMMA OriginOf ==
    ASSUME NEW d, IsDesign(d), NEW c \in DOMAIN d.clk
    PROVE  LET o == Origins(d)[c] IN
           /\ o.hops \in Nat
           /\ d.clk[c].from \in Root(d) =>
                  o = [root |-> d.clk[c].from, hops |-> d.clk[c].hops, via |-> {}]
           /\ d.clk[c].from \notin Root(d) /\ o.root # None =>
                  /\ d.clk[c].from \in OutPins(d) /\ d.clk[c].from[1] \in o.via
                  /\ d.clk[c].hops <= o.hops
<1> DEFINE from == d.clk[c].from
<1>1. Near(d)[c] = IF from \in Root(d)
                   THEN [root |-> from, hops |-> d.clk[c].hops, via |-> {}]
                   ELSE [root |-> None, hops |-> 0,
                         via |-> IF from = None THEN {} ELSE {from[1]}]
  BY DEF Near
<1>2. CASE Origins(d) = Near(d)
  BY <1>1, <1>2, ClockPinFed
<1>3. ASSUME NEW o \in [DOMAIN d.clk -> Origin(d)], Origins(d) = Further(d, o)
      PROVE  LET q == Origins(d)[c] IN
             /\ q.hops \in Nat
             /\ from \in Root(d) => q = [root |-> from, hops |-> d.clk[c].hops, via |-> {}]
             /\ from \notin Root(d) /\ q.root # None =>
                    from \in OutPins(d) /\ from[1] \in q.via /\ d.clk[c].hops <= q.hops
  <2> DEFINE up == Body(d, from[1]).forward[from[2]]
             rest == o[<<from[1], up.pin>>]
  <2>1. Further(d, o)[c] =
            IF Carried(d, from)
            THEN [root |-> rest.root, hops |-> rest.hops + d.clk[c].hops + up.hops,
                  via |-> rest.via \cup {from[1]}]
            ELSE Near(d)[c]
    BY DEF Further
  <2>2. CASE ~Carried(d, from)
    <3>1. Origins(d)[c] = Near(d)[c] /\ d.clk[c].hops \in Nat
      BY <1>3, <2>1, <2>2, ClockPinFed
    <3> HIDE DEF from, up, rest
    <3>2. CASE from \in Root(d)
      BY <1>1, <3>1, <3>2 DEF from
    <3>3. CASE from \notin Root(d)
      BY <1>1, <3>1, <3>3 DEF from
    <3> QED  BY <3>2, <3>3
  <2>3. CASE Carried(d, from)
    <3>1. /\ from \notin Root(d) /\ from \in OutPins(d) /\ from[1] \in Insts(d)
          /\ from[2] \in DOMAIN Body(d, from[1]).forward
      BY <2>3, ClockPinFed DEF Carried
    <3>2. <<from[1], up.pin>> \in DOMAIN d.clk /\ up.hops \in Nat
      BY <3>1 DEF IsDesign
    <3>3. rest.hops \in Nat /\ d.clk[c].hops \in Nat
      BY <3>2, ClockPinFed DEF Origin
    <3> HIDE DEF from, up, rest
    <3> QED  BY <1>3, <2>1, <2>3, <3>1, <3>2, <3>3
  <2> QED  BY <2>2, <2>3
<1> QED  BY <1>2, <1>3, OriginsAre

IsRegister(d, r) ==
    r[1] = "top" \/ (r[1] \in Insts(d) /\ r[2] \in Flops(Body(d, r[1])))

(* The clock of a register is traced in the parent, or lost in it.         *)
LEMMA FlatClockIs ==
    ASSUME NEW d, IsDesign(d), NEW r, IsRegister(d, r),
           ClockPinOf(d, r) \in DOMAIN d.clk, FlatClock(d, r) # None
    PROVE  LET c == ClockPinOf(d, r) IN
           \/ Trace(d, c) # None /\ Trace(d, c) = FlatClock(d, r)
           \/ /\ d.clk[c].from \in OutPins(d) /\ d.clk[c].from[1] \in ClockVia(d, r)
              /\ d.clk[c].hops <= MaxDepth
<1> DEFINE c == ClockPinOf(d, r)
           o == Origins(d)[c]
<1>1. HopsInside(d, r) \in Nat
  <2>1. CASE r[1] = "top"
    BY <2>1 DEF HopsInside
  <2>2. CASE r[1] # "top"
    <3>1. r[1] \in Insts(d) /\ r[2] \in Flops(Body(d, r[1]))
      BY <2>2 DEF IsRegister
    <3> QED  BY <2>2, <3>1 DEF HopsInside, IsDesign, IsBody
  <2> QED  BY <2>1, <2>2
<1>2. o.hops + HopsInside(d, r) < MaxDepth /\ FlatClock(d, r) = o.root
  BY DEF FlatClock
<1>3. ClockVia(d, r) = o.via
  BY DEF ClockVia
<1>4. /\ o.hops \in Nat /\ d.clk[c].hops \in Nat
      /\ d.clk[c].from \in Root(d) =>
             o = [root |-> d.clk[c].from, hops |-> d.clk[c].hops, via |-> {}]
      /\ d.clk[c].from \notin Root(d) /\ o.root # None =>
             /\ d.clk[c].from \in OutPins(d) /\ d.clk[c].from[1] \in o.via
             /\ d.clk[c].hops <= o.hops
  BY OriginOf, ClockPinFed
<1> HIDE DEF c, o
<1>5. CASE d.clk[c].from \in Root(d)
  <2>1. o.root = d.clk[c].from /\ o.hops = d.clk[c].hops
    BY <1>4, <1>5
  <2>2. d.clk[c].hops < MaxDepth
    BY <1>1, <1>2, <1>4, <2>1, MaxDepthAssumption
  <2>3. Trace(d, c) = d.clk[c].from
    BY <1>5, <2>2 DEF Trace
  <2> QED  BY <1>2, <2>1, <2>3 DEF c
<1>6. CASE d.clk[c].from \notin Root(d)
  <2>1. /\ d.clk[c].from \in OutPins(d) /\ d.clk[c].from[1] \in o.via
        /\ d.clk[c].hops <= o.hops
    BY <1>2, <1>4, <1>6
  <2>2. d.clk[c].hops <= MaxDepth
    BY <1>1, <1>2, <1>4, <2>1, MaxDepthAssumption
  <2> QED  BY <1>3, <2>1, <2>2 DEF c
<1> QED  BY <1>5, <1>6

(* What the trace of the parent finds is the root.                         *)
LEMMA TracedRoot ==
    ASSUME NEW d, IsDesign(d), NEW r, ClockPinOf(d, r) \in DOMAIN d.clk,
           Trace(d, ClockPinOf(d, r)) # None
    PROVE  /\ Trace(d, ClockPinOf(d, r)) = RootOf(d, r)
           /\ FlatClock(d, r) # None => FlatClock(d, r) = Trace(d, ClockPinOf(d, r))
<1> DEFINE c == ClockPinOf(d, r)
<1>1. d.clk[c].from \in Root(d) /\ Trace(d, c) = d.clk[c].from
  BY DEF Trace
<1>2. Origins(d)[c] = [root |-> d.clk[c].from, hops |-> d.clk[c].hops, via |-> {}]
  BY <1>1, OriginOf
<1>3. Origins(d)[c].root = d.clk[c].from
  BY <1>2
<1> QED  BY <1>1, <1>3 DEF RootOf, FlatClock

(* The only member of a set.                                               *)
LEMMA OnlyOf ==
    ASSUME NEW S, IsFiniteSet(S), NEW x \in S
    PROVE  /\ Cardinality(S) <= 1 => Only(S) = x
           /\ Only(S) # None => Only(S) = x
           /\ S = {x} => Only(S) = x
<1>1. Cardinality(S) \in Nat /\ Cardinality(S) # 0
  BY FS_CardinalityType, FS_EmptySet
<1>2. Cardinality(S) = 1 => S = {x}
  BY FS_Singleton
<1>3. S = {x} => Cardinality(S) = 1
  BY FS_Singleton
<1>4. S = {x} => Only(S) = x
  BY <1>3 DEF Only
<1>5. Only(S) # None => Cardinality(S) = 1
  BY DEF Only
<1> QED  BY <1>1, <1>2, <1>4, <1>5

----------------------------------------------------------------------------
(* Routes                                                                  *)

Pin(d) == TopRegisters(d) \cup InPins(d) \cup OutPins(d)

(* From the pin of an instance where data comes in to one where it leaves. *)
Through(d, z, a) ==
    z[1] # "top" /\ z[1] = a[1] /\ <<z[2], a[2]>> \in Data(Body(d, z[1]))

(* m wires, and between them m - 1 ways through instances.                 *)
Alternates(d, r, m) ==
    /\ Len(r) = 2 * m
    /\ \A k \in 1..m : <<r[2 * k - 1], r[2 * k]>> \in d.wire
    /\ \A k \in 1..m : k < m => Through(d, r[2 * k], r[2 * k + 1])

Ways(d) == {r \in Seq(Pin(d)) : \E m \in Nat \ {0} : Alternates(d, r, m)}

(* A wire goes from where data leaves to where it comes in.                *)
LEMMA WireEnds ==
    ASSUME NEW d, IsDesign(d), NEW w \in d.wire
    PROVE  /\ w = <<w[1], w[2]>> /\ w \in Seq(Pin(d)) /\ Len(w) = 2
           /\ w[1] \in TopRegisters(d) \cup OutPins(d)
           /\ w[2] \in TopRegisters(d) \cup (InPins(d) \ DOMAIN d.clk)
<1>1. w \in (TopRegisters(d) \cup OutPins(d))
               \X (TopRegisters(d) \cup (InPins(d) \ DOMAIN d.clk))
  BY DEF IsDesign
<1>2. /\ w = <<w[1], w[2]>>
      /\ w[1] \in TopRegisters(d) \cup OutPins(d)
      /\ w[2] \in TopRegisters(d) \cup (InPins(d) \ DOMAIN d.clk)
  BY <1>1
<1>3. w[1] \in Pin(d) /\ w[2] \in Pin(d)
  BY <1>2 DEF Pin
<1>4. <<w[1], w[2]>> \in Seq(Pin(d)) /\ Len(<<w[1], w[2]>>) = 2
  BY <1>3
<1> QED  BY <1>2, <1>4

(* One wire is a way.                                                      *)
LEMMA WireIsWay ==
    ASSUME NEW d, IsDesign(d), NEW w \in d.wire
    PROVE  w \in Ways(d)
<1>1. \A k \in 1..1 : k = 1
  OBVIOUS
<1>2. Alternates(d, w, 1)
  <2>1. ASSUME NEW k \in 1..1 PROVE <<w[2 * k - 1], w[2 * k]>> \in d.wire
    BY <2>1, WireEnds
  <2> QED  BY <2>1, <1>1, WireEnds DEF Alternates
<1>3. w \in Seq(Pin(d))
  BY WireEnds
<1> QED  BY <1>2, <1>3 DEF Ways

(* A way goes on through the instance it ends at.                          *)
LEMMA WayOnward ==
    ASSUME NEW d, IsDesign(d), NEW r \in Ways(d), NEW w \in d.wire,
           Through(d, r[Len(r)], w[1])
    PROVE  r \o w \in Ways(d)
<1>1. PICK m \in Nat \ {0} : Alternates(d, r, m)
  BY DEF Ways
<1>2. r \in Seq(Pin(d)) /\ w \in Seq(Pin(d)) /\ Len(w) = 2 /\ Len(r) = 2 * m
  BY <1>1, WireEnds DEF Ways, Alternates
<1> DEFINE q == r \o w
<1>3. /\ q \in Seq(Pin(d)) /\ Len(q) = 2 * (m + 1)
      /\ \A k \in 1..2 * m : q[k] = r[k]
      /\ q[2 * m + 1] = w[1] /\ q[2 * m + 2] = w[2]
  <2>1. /\ q \in Seq(Pin(d)) /\ Len(q) = Len(r) + Len(w)
        /\ \A k \in 1..Len(r) + Len(w) :
               q[k] = IF k <= Len(r) THEN r[k] ELSE w[k - Len(r)]
    <3> r \in Seq(Pin(d)) /\ w \in Seq(Pin(d))
      BY <1>2
    <3> QED  BY ConcatProperties
  <2> HIDE DEF q
  <2>3. \A k \in 1..2 * m : q[k] = r[k]
    BY <1>2, <2>1
  <2>4. /\ 2 * m + 1 \in 1..Len(r) + Len(w) /\ 2 * m + 2 \in 1..Len(r) + Len(w)
        /\ (2 * m + 1) - Len(r) = 1 /\ (2 * m + 2) - Len(r) = 2
        /\ ~(2 * m + 1 <= Len(r)) /\ ~(2 * m + 2 <= Len(r))
    BY <1>2
  <2> QED  BY <1>2, <2>1, <2>3, <2>4
<1> HIDE DEF q
<1>4. ASSUME NEW k \in 1..(m + 1)
      PROVE  <<q[2 * k - 1], q[2 * k]>> \in d.wire
  <2>1. CASE k = m + 1
    <3>1. 2 * k - 1 = 2 * m + 1 /\ 2 * k = 2 * m + 2
      BY <2>1
    <3>2. w = <<w[1], w[2]>>
      BY WireEnds
    <3> QED  BY <1>3, <3>1, <3>2
  <2>2. CASE k # m + 1
    <3>1. k \in 1..m /\ 2 * k - 1 \in 1..2 * m /\ 2 * k \in 1..2 * m
      BY <2>2
    <3> QED  BY <1>1, <1>3, <3>1 DEF Alternates
  <2> QED  BY <2>1, <2>2
<1>5. ASSUME NEW k \in 1..(m + 1), k < m + 1
      PROVE  Through(d, q[2 * k], q[2 * k + 1])
  <2>1. CASE k = m
    <3>1. 2 * k \in 1..2 * m /\ 2 * k + 1 = 2 * m + 1 /\ 2 * k = 2 * m
      BY <2>1
    <3>2. q[2 * k] = r[Len(r)] /\ q[2 * k + 1] = w[1]
      BY <1>2, <1>3, <3>1
    <3> QED  BY <3>2
  <2>2. CASE k # m
    <3>1. k \in 1..m /\ k < m /\ 2 * k \in 1..2 * m /\ 2 * k + 1 \in 1..2 * m
      BY <1>5, <2>2
    <3>2. q[2 * k] = r[2 * k] /\ q[2 * k + 1] = r[2 * k + 1]
      BY <1>3, <3>1
    <3> QED  BY <1>1, <3>1, <3>2 DEF Alternates
  <2> QED  BY <2>1, <2>2
<1>6. m + 1 \in Nat \ {0} /\ Alternates(d, q, m + 1)
  BY <1>3, <1>4, <1>5 DEF Alternates
<1> QED  BY <1>3, <1>6 DEF Ways, q

(* A step of Routes makes ways of ways.                                    *)
LEMMA OnwardIsWays ==
    ASSUME NEW d, IsDesign(d), NEW ways \in SUBSET Ways(d)
    PROVE  Onward(d, ways) \in SUBSET Ways(d)
<1>1. ASSUME NEW p \in ways \X d.wire, Through(d, p[1][Len(p[1])], p[2][1])
      PROVE  p[1] \o p[2] \in Ways(d)
  BY <1>1, WayOnward
<1>2. \A p \in ways \X d.wire :
          (LET z == p[1][Len(p[1])]
           IN  /\ z[1] # "top" /\ z[1] = p[2][1][1]
               /\ <<z[2], p[2][1][2]>> \in Data(Body(d, z[1])))
          => Through(d, p[1][Len(p[1])], p[2][1])
  BY DEF Through
<1> QED  BY <1>1, <1>2 DEF Onward

(* Every route alternates between wires and instances.                     *)
LEMMA RoutesAreWays ==
    ASSUME NEW d, IsDesign(d)
    PROVE  Routes(d) \in SUBSET Ways(d)
<1> DEFINE K == Cardinality(Insts(d))
           S == SUBSET Ways(d)
           step == [ways \in S |-> Onward(d, ways)]
           Upto[n \in 0..K] == IF n = 0 THEN d.wire ELSE Onward(d, Upto[n - 1])
<1>1. K \in Nat
  BY FS_CardinalityType DEF IsDesign
<1>2. step \in [S -> S] /\ d.wire \in S
  BY WireIsWay, OnwardIsWays
<1>3. PICK f \in [0..K -> S] : f = [n \in 0..K |-> IF n = 0 THEN d.wire ELSE step[f[n - 1]]]
  <2> HIDE DEF K, S, step
  <2>1. \E f \in [0..K -> S] : Recurs(f, d.wire, step, 0, K)
    BY <1>1, <1>2, RecursionExists
  <2> QED  BY <2>1 DEF Recurs
<1>4. f = [n \in 0..K |-> IF n = 0 THEN d.wire ELSE Onward(d, f[n - 1])]
  <2>1. \A n \in 0..K : n # 0 => step[f[n - 1]] = Onward(d, f[n - 1])
    <3> SUFFICES ASSUME NEW n \in 0..K, n # 0 PROVE step[f[n - 1]] = Onward(d, f[n - 1])
      OBVIOUS
    <3>1. n - 1 \in 0..K
      BY <1>1
    <3>2. f[n - 1] \in S
      BY <3>1
    <3> HIDE DEF S
    <3> QED  BY <3>2
  <2> HIDE DEF step
  <2> QED  BY <1>3, <2>1
<1>5. Upto = [n \in 0..K |-> IF n = 0 THEN d.wire ELSE Onward(d, Upto[n - 1])]
  BY <1>4
<1>6. Routes(d) = Upto[K]
  BY DEF Routes
<1> HIDE DEF Upto
<1>7. \A n \in 0..K : Upto[n] \in S
  <2> DEFINE bad == {n \in Nat : n \in 0..K /\ Upto[n] \notin S}
  <2> SUFFICES ASSUME bad # {} PROVE FALSE
    OBVIOUS
  <2>1. PICK n \in bad : \A k \in bad : n <= k
    BY LeastNat
  <2>2. n # 0
    BY <1>2, <1>5, <2>1
  <2>3. n - 1 \in Nat /\ n - 1 \in 0..K /\ ~(n <= n - 1)
    BY <1>1, <2>1, <2>2
  <2>4. Upto[n - 1] \in S
    BY <2>1, <2>3
  <2>5. Upto[n] = Onward(d, Upto[n - 1])
    BY <1>5, <2>1, <2>2
  <2> QED  BY <2>1, <2>4, <2>5, OnwardIsWays
<1> QED  BY <1>1, <1>6, <1>7

----------------------------------------------------------------------------
(* The inside of a block                                                   *)

(* A net that one cell reads, a register on its D, is seen by nothing else *)
(* than that register and the outputs it is wired to.                      *)
LEMMA OneReader ==
    ASSUME NEW b, IsBody(b), NEW s, NEW f \in Flops(b), Readers(b, s) = 1,
           <<s, f>> \in b.wire
    PROVE  /\ \A e \in Feeds(b) : e[1] = s => e[2] = f \/ (e[2] \in b.out /\ e \in b.wire)
           /\ \A g \in Flops(b) : <<s, g>> \in Feeds(b) => g = f
<1> DEFINE W == {g \in Flops(b) : <<s, g>> \in b.wire}
           C == {g \in Flops(b) : <<s, g>> \in b.ctl}
           L == {t \in Flops(b) \cup b.out : <<s, t>> \in b.logic}
<1>1. IsFiniteSet(Flops(b)) /\ IsFiniteSet(b.out) /\ IsFiniteSet(Flops(b) \cup b.out)
  BY FS_Union DEF IsBody
<1>2. IsFiniteSet(W) /\ IsFiniteSet(C) /\ IsFiniteSet(L)
  <2>1. W \subseteq Flops(b) /\ C \subseteq Flops(b) /\ L \subseteq Flops(b) \cup b.out
    OBVIOUS
  <2> HIDE DEF W, C, L
  <2> QED  BY <1>1, <2>1, FS_Subset
<1>3. Cardinality(W) + Cardinality(C) + Cardinality(L) = 1
  BY DEF Readers
<1>4. f \in W
  OBVIOUS
<1> HIDE DEF W, C, L
<1>5. /\ Cardinality(W) \in Nat /\ Cardinality(C) \in Nat /\ Cardinality(L) \in Nat
      /\ Cardinality(W) # 0
  BY <1>2, <1>4, FS_CardinalityType, FS_EmptySet
<1>6. Cardinality(W) = 1 /\ Cardinality(C) = 0 /\ Cardinality(L) = 0
  BY <1>3, <1>5
<1>7. W = {f} /\ C = {} /\ L = {}
  BY <1>2, <1>4, <1>6, FS_Singleton, FS_EmptySet
<1>8. ASSUME NEW e \in Feeds(b), e[1] = s
      PROVE  e[2] = f \/ (e[2] \in b.out /\ e \in b.wire)
  <2>1. e = <<s, e[2]>> /\ e[2] \in Flops(b) \cup b.out
    BY <1>8 DEF Feeds, Data, IsBody
  <2>2. CASE e \in b.wire
    <3>1. CASE e[2] \in Flops(b)
      BY <1>7, <2>1, <2>2, <3>1 DEF W
    <3>2. CASE e[2] \notin Flops(b)
      BY <2>1, <2>2, <3>2
    <3> QED  BY <3>1, <3>2
  <2>3. CASE e \in b.logic
    BY <1>7, <2>1, <2>3 DEF L
  <2>4. CASE e \in b.ctl
    <3>1. e[2] \in Flops(b)
      BY <2>4 DEF IsBody
    <3> QED  BY <1>7, <2>1, <2>4, <3>1 DEF C
  <2> QED  BY <2>2, <2>3, <2>4 DEF Feeds, Data
<1>9. ASSUME NEW g \in Flops(b), <<s, g>> \in Feeds(b) PROVE g = f
  <2>1. g \notin b.out
    BY DEF IsBody
  <2> QED  BY <1>8, <1>9, <2>1
<1> QED  BY <1>8, <1>9

(* What the proof of a port finds: the register on whose D alone it is.    *)
LEMMA FirstStageIs ==
    ASSUME NEW b, IsBody(b), NEW p, FirstStage(b, p) # None
    PROVE  /\ FirstStage(b, p) \in Flops(b) /\ <<p, FirstStage(b, p)>> \in b.wire
           /\ Readers(b, p) = 1
           /\ \A o \in b.out : <<p, o>> \notin b.wire
<1> DEFINE W == {f \in Flops(b) : <<p, f>> \in b.wire}
<1>1. /\ FirstStage(b, p) = Only(W) /\ Readers(b, p) = 1
      /\ \A o \in b.out : <<p, o>> \notin b.wire
  BY DEF FirstStage
<1>2. IsFiniteSet(W)
  BY FS_Subset DEF IsBody
<1>3. Cardinality(W) = 1
  BY <1>1 DEF Only
<1>4. PICK x : W = {x}
  <2> HIDE DEF W
  <2> QED  BY <1>2, <1>3, FS_Singleton
<1>5. Only(W) = x
  <2> HIDE DEF W
  <2> QED  BY <1>2, <1>4, OnlyOf
<1> QED  BY <1>1, <1>4, <1>5

(* It is the one head of the port.                                         *)
LEMMA HeadAlone ==
    ASSUME NEW b, IsBody(b), NEW p, FirstStage(b, p) # None
    PROVE  Heads(b, p) = {FirstStage(b, p)}
<1> DEFINE h == FirstStage(b, p)
<1>1. h \in Flops(b) /\ <<p, h>> \in b.wire /\ Readers(b, p) = 1
  BY FirstStageIs
<1> HIDE DEF h
<1>2. \A g \in Flops(b) : <<p, g>> \in Feeds(b) => g = h
  BY <1>1, OneReader
<1>3. <<p, h>> \in Feeds(b)
  BY <1>1 DEF Feeds, Data
<1> QED  BY <1>1, <1>2, <1>3 DEF Heads, h

NonEmpty(S) == Seq(S) \ {<<>>}

(* A chain that gets longer keeps its head, and found a next stage.        *)
LEMMA LongerTyped ==
    ASSUME NEW b, NEW pr, NEW clock, NEW c \in NonEmpty(Flops(b))
    PROVE  /\ Longer(b, pr, clock, c) \in NonEmpty(Flops(b))
           /\ Longer(b, pr, clock, c)[1] = c[1]
           /\ Len(Longer(b, pr, clock, c)) >= Len(c)
           /\ Longer(b, pr, clock, c) # c =>
                  NextStage(b, pr, c[Len(c)], clock) \ Range(c) # {}
<1> DEFINE next == NextStage(b, pr, c[Len(c)], clock) \ Range(c)
<1>1. Longer(b, pr, clock, c) = IF next = {} THEN c ELSE Append(c, CHOOSE k \in next : TRUE)
  BY DEF Longer
<1>2. next \subseteq Flops(b)
  BY DEF NextStage
<1>3. c \in Seq(Flops(b)) /\ Len(c) \in Nat \ {0}
  BY DEF NonEmpty
<1> HIDE DEF next
<1>4. CASE next = {}
  BY <1>1, <1>3, <1>4
<1>5. CASE next # {}
  <2>1. PICK k \in Flops(b) : Longer(b, pr, clock, c) = Append(c, k)
    BY <1>1, <1>2, <1>5
  <2>2. Append(c, k) \in Seq(Flops(b)) /\ Len(Append(c, k)) = Len(c) + 1
    BY <1>3
  <2>3. Append(c, k)[1] = c[1] /\ Append(c, k) # <<>>
    BY <1>3
  <2> QED  BY <1>3, <1>5, <2>1, <2>2, <2>3 DEF NonEmpty, next
<1> QED  BY <1>4, <1>5

(* A chain is what its stages make it, one after the other.                *)
Grows(b, pr, h, g) ==
    LET K == Cardinality(Flops(b))
    IN  /\ g \in [0..K -> NonEmpty(Flops(b))]
        /\ g[0] = <<h>>
        /\ \A n \in 1..K : g[n] = Longer(b, pr, InnerClock(b, pr, h), g[n - 1])

(* Chain is grown stage by stage.                                          *)
LEMMA ChainGrows ==
    ASSUME NEW b, IsBody(b), NEW pr, NEW h \in Flops(b)
    PROVE  /\ Cardinality(Flops(b)) \in Nat
           /\ \E g : Grows(b, pr, h, g) /\ Chain(b, pr, h) = g[Cardinality(Flops(b))]
<1> DEFINE K == Cardinality(Flops(b))
           S == NonEmpty(Flops(b))
           more(c) == Longer(b, pr, InnerClock(b, pr, h), c)
           step == [c \in S |-> more(c)]
           Upto[n \in 0..K] ==
               IF n = 0 THEN <<h>> ELSE Longer(b, pr, InnerClock(b, pr, h), Upto[n - 1])
<1>1. K \in Nat
  BY FS_CardinalityType DEF IsBody
<1>2. step \in [S -> S] /\ <<h>> \in S
  <2>1. \A c \in S : more(c) \in S
    BY LongerTyped
  <2>2. <<h>> \in S
    BY DEF NonEmpty
  <2> HIDE DEF S, more
  <2> QED  BY <2>1, <2>2
<1>3. PICK f \in [0..K -> S] : f = [n \in 0..K |-> IF n = 0 THEN <<h>> ELSE step[f[n - 1]]]
  <2> HIDE DEF K, S, step
  <2>1. \E f \in [0..K -> S] : Recurs(f, <<h>>, step, 0, K)
    BY <1>1, <1>2, RecursionExists
  <2> QED  BY <2>1 DEF Recurs
<1>4. f = [n \in 0..K |-> IF n = 0 THEN <<h>>
                          ELSE Longer(b, pr, InnerClock(b, pr, h), f[n - 1])]
  <2>1. \A n \in 0..K : n # 0 => step[f[n - 1]] = more(f[n - 1])
    <3> SUFFICES ASSUME NEW n \in 0..K, n # 0 PROVE step[f[n - 1]] = more(f[n - 1])
      OBVIOUS
    <3>1. n - 1 \in 0..K
      BY <1>1
    <3>2. f[n - 1] \in S
      BY <3>1
    <3> HIDE DEF S, more
    <3> QED  BY <3>2
  <2> HIDE DEF step
  <2> QED  BY <1>3, <2>1
<1>5. Upto = [n \in 0..K |-> IF n = 0 THEN <<h>>
                             ELSE Longer(b, pr, InnerClock(b, pr, h), Upto[n - 1])]
  BY <1>4
<1>6. Chain(b, pr, h) = Upto[K]
  BY DEF Chain
<1> HIDE DEF Upto
<1>7. \A n \in 0..K : Upto[n] \in S
  <2> DEFINE bad == {n \in Nat : n \in 0..K /\ Upto[n] \notin S}
  <2> SUFFICES ASSUME bad # {} PROVE FALSE
    OBVIOUS
  <2>1. PICK n \in bad : \A k \in bad : n <= k
    BY LeastNat
  <2>2. n # 0
    BY <1>2, <1>5, <2>1
  <2>3. n - 1 \in Nat /\ n - 1 \in 0..K /\ ~(n <= n - 1)
    BY <1>1, <2>1, <2>2
  <2>4. Upto[n - 1] \in S
    BY <2>1, <2>3
  <2>5. Upto[n] = more(Upto[n - 1])
    BY <1>5, <2>1, <2>2
  <2>6. more(Upto[n - 1]) \in S
    BY <2>4, LongerTyped
  <2> HIDE DEF S, more
  <2> QED  BY <2>1, <2>5, <2>6
<1>8. Grows(b, pr, h, Upto)
  <2>1. Upto \in [0..K -> S]
    <3> HIDE DEF S
    <3> QED  BY <1>5, <1>7
  <2>2. Upto[0] = <<h>>
    BY <1>1, <1>5
  <2>3. \A n \in 1..K : Upto[n] = more(Upto[n - 1])
    <3> SUFFICES ASSUME NEW n \in 1..K PROVE Upto[n] = more(Upto[n - 1])
      OBVIOUS
    <3>1. n \in 0..K /\ n # 0
      BY <1>1
    <3> QED  BY <1>5, <3>1
  <2> QED  BY <2>1, <2>2, <2>3 DEF Grows
<1> QED  BY <1>1, <1>6, <1>8

(* A chain starts at its head, and has a second stage only where the head  *)
(* has one.                                                                *)
LEMMA ChainStarts ==
    ASSUME NEW b, IsBody(b), NEW pr, NEW h \in Flops(b)
    PROVE  /\ Chain(b, pr, h) \in NonEmpty(Flops(b)) /\ Chain(b, pr, h)[1] = h
           /\ Len(Chain(b, pr, h)) >= 2 =>
                  NextStage(b, pr, h, InnerClock(b, pr, h)) \ {h} # {}
<1> DEFINE K == Cardinality(Flops(b))
           clock == InnerClock(b, pr, h)
           Good(c) == /\ c \in NonEmpty(Flops(b)) /\ c[1] = h
                      /\ Len(c) >= 2 => NextStage(b, pr, h, clock) \ {h} # {}
<1>1. K \in Nat
  BY ChainGrows
<1>2. PICK g : Grows(b, pr, h, g) /\ Chain(b, pr, h) = g[K]
  BY ChainGrows
<1>3. /\ g[0] = <<h>>
      /\ \A n \in 1..K : g[n] = Longer(b, pr, clock, g[n - 1])
  BY <1>2 DEF Grows
<1>4. Good(<<h>>)
  BY DEF NonEmpty
<1>5. ASSUME NEW c, Good(c) PROVE Good(Longer(b, pr, clock, c))
  <2> DEFINE e == Longer(b, pr, clock, c)
  <2>1. c \in NonEmpty(Flops(b)) /\ c[1] = h
    BY <1>5
  <2>2. e \in NonEmpty(Flops(b)) /\ e[1] = h
    BY <2>1, LongerTyped
  <2>3. CASE e = c
    BY <1>5, <2>3
  <2>4. CASE e # c /\ Len(c) >= 2
    BY <1>5, <2>2, <2>4
  <2>5. CASE e # c /\ ~(Len(c) >= 2)
    <3>1. Len(c) = 1 /\ c \in Seq(Flops(b))
      BY <2>1, <2>5 DEF NonEmpty
    <3>2. Range(c) = {h}
      BY <2>1, <3>1 DEF Range
    <3>3. NextStage(b, pr, c[Len(c)], clock) \ Range(c) # {}
      BY <2>1, <2>5, LongerTyped
    <3>4. c[Len(c)] = h
      BY <2>1, <3>1
    <3> QED  BY <2>2, <3>2, <3>3, <3>4
  <2> QED  BY <2>3, <2>4, <2>5
<1> HIDE DEF Good, clock
<1>6. \A n \in 0..K : Good(g[n])
  <2> DEFINE bad == {n \in Nat : n \in 0..K /\ ~Good(g[n])}
  <2> SUFFICES ASSUME bad # {} PROVE FALSE
    OBVIOUS
  <2>1. PICK n \in bad : \A k \in bad : n <= k
    BY LeastNat
  <2>2. n # 0
    BY <1>3, <1>4, <2>1
  <2>3. n - 1 \in Nat /\ n - 1 \in 0..K /\ ~(n <= n - 1) /\ n \in 1..K
    BY <1>1, <2>1, <2>2
  <2>4. Good(g[n - 1])
    BY <2>1, <2>3
  <2> QED  BY <1>3, <1>5, <2>1, <2>3, <2>4
<1> QED  BY <1>1, <1>2, <1>6 DEF Good, clock

(* A chain is the same under any roots that give the registers the same    *)
(* clocks.                                                                 *)
LEMMA ChainSame ==
    ASSUME NEW b, IsBody(b), NEW pr, NEW qr, NEW h \in Flops(b),
           \A f \in Flops(b) : InnerClock(b, pr, f) = InnerClock(b, qr, f)
    PROVE  Chain(b, pr, h) = Chain(b, qr, h)
<1> DEFINE K == Cardinality(Flops(b))
           clock == InnerClock(b, pr, h)
<1>1. K \in Nat
  BY ChainGrows
<1>2. PICK g : Grows(b, pr, h, g) /\ Chain(b, pr, h) = g[K]
  BY ChainGrows
<1>3. PICK e : Grows(b, qr, h, e) /\ Chain(b, qr, h) = e[K]
  BY ChainGrows
<1>4. \A c : Longer(b, pr, clock, c) = Longer(b, qr, clock, c)
  <2>1. ASSUME NEW f PROVE NextStage(b, pr, f, clock) = NextStage(b, qr, f, clock)
    <3>1. {k \in Flops(b) : <<f, k>> \in b.wire /\ InnerClock(b, pr, k) = clock}
          = {k \in Flops(b) : <<f, k>> \in b.wire /\ InnerClock(b, qr, k) = clock}
      OBVIOUS
    <3> QED  BY <3>1 DEF NextStage
  <2> SUFFICES ASSUME NEW c PROVE Longer(b, pr, clock, c) = Longer(b, qr, clock, c)
    OBVIOUS
  <2>2. NextStage(b, pr, c[Len(c)], clock) = NextStage(b, qr, c[Len(c)], clock)
    BY <2>1
  <2> HIDE DEF clock
  <2> QED  BY <2>2 DEF Longer
<1>5. InnerClock(b, qr, h) = clock
  OBVIOUS
<1>6. g[0] = e[0] /\ \A n \in 1..K : g[n - 1] = e[n - 1] => g[n] = e[n]
  BY <1>2, <1>3, <1>4, <1>5 DEF Grows
<1>7. \A n \in 0..K : g[n] = e[n]
  <2> DEFINE bad == {n \in Nat : n \in 0..K /\ g[n] # e[n]}
  <2> SUFFICES ASSUME bad # {} PROVE FALSE
    OBVIOUS
  <2>1. PICK n \in bad : \A k \in bad : n <= k
    BY LeastNat
  <2>2. n # 0
    BY <1>6, <2>1
  <2>3. n - 1 \in Nat /\ n - 1 \in 0..K /\ ~(n <= n - 1) /\ n \in 1..K
    BY <1>1, <2>1, <2>2
  <2> QED  BY <1>6, <2>1, <2>3
<1> QED  BY <1>1, <1>2, <1>3, <1>7

----------------------------------------------------------------------------
(* The summaries of an instance                                            *)

OnClock(d, b, pr, clk) ==
    [ports |-> [o \in b.out |-> clk],
     inputs |-> [p \in b.in \ DOMAIN pr |-> InputFacts(b, pr, p, clk)],
     analysed |-> b.grey,
     found |-> IF b.grey THEN InnerCrossings(d, b, pr) ELSE {},
     reconvergent |-> IF b.grey THEN ReconvergentInputs(b, pr) ELSE {}]

IsSingle(d, b, pr, s) ==
    /\ SingleClock(d, pr) /\ (b.grey => Resolved(b, pr))
    /\ \E clk \in IF RootsOf(pr) = {} THEN {None} ELSE RootsOf(pr) :
           s = OnClock(d, b, pr, clk)

IsMulti(d, b, pr, s) ==
    /\ b.grey /\ Resolved(b, pr) /\ ~SingleClock(d, pr) /\ ~Ambiguous(b, pr)
    /\ s = MultiClockSummary(d, b, pr)

(* A summary is one of the two kinds, or the module is declined.           *)
LEMMA SummaryCases ==
    ASSUME NEW d, NEW t, IsBody(d.body[t]), NEW pr, NEW s \in Summaries(d, t, pr), s # None
    PROVE  IsSingle(d, d.body[t], pr, s) \/ IsMulti(d, d.body[t], pr, s)
<1> DEFINE b == d.body[t]
<1>1. b.grey \in BOOLEAN /\ Resolved(b, pr) \in BOOLEAN /\ SingleClock(d, pr) \in BOOLEAN
  BY DEF IsBody, Resolved, SingleClock
<1>2. CASE b.grey /\ ~Resolved(b, pr)
  BY <1>2 DEF Summaries
<1>3. CASE SingleClock(d, pr) /\ (b.grey => Resolved(b, pr))
  <2>1. Summaries(d, t, pr) = SingleClockSummaries(d, b, pr)
    BY <1>3 DEF Summaries
  <2>2. s \in {OnClock(d, b, pr, clk) :
                   clk \in IF RootsOf(pr) = {} THEN {None} ELSE RootsOf(pr)}
    BY <2>1 DEF SingleClockSummaries, OnClock
  <2> QED  BY <1>3, <2>2 DEF IsSingle
<1>4. CASE ~SingleClock(d, pr) /\ b.grey /\ Resolved(b, pr)
  <2>1. Summaries(d, t, pr) = IF Flops(b) = {} \/ Ambiguous(b, pr) THEN {None}
                              ELSE {MultiClockSummary(d, b, pr)}
    BY <1>4 DEF Summaries
  <2> QED  BY <1>4, <2>1 DEF IsMulti
<1>5. CASE ~SingleClock(d, pr) /\ ~b.grey
  BY <1>5 DEF Summaries
<1> QED  BY <1>1, <1>2, <1>3, <1>4, <1>5

(* In an analysed summary every register has one of the clocks of the pins. *)
LEMMA AnalysedResolved ==
    ASSUME NEW d, NEW b, IsBody(b), NEW pr, NEW s,
           IsSingle(d, b, pr, s) \/ IsMulti(d, b, pr, s), s.analysed
    PROVE  /\ b.grey /\ Resolved(b, pr)
           /\ \A f \in Flops(b) :
                  /\ b.flop[f].pin \in DOMAIN pr /\ InnerClock(b, pr, f) = pr[b.flop[f].pin]
                  /\ InnerClock(b, pr, f) \in RootsOf(pr)
<1>1. b.grey /\ Resolved(b, pr)
  <2>1. CASE IsMulti(d, b, pr, s)
    BY <2>1 DEF IsMulti
  <2>2. CASE IsSingle(d, b, pr, s)
    <3>1. s.analysed = b.grey
      <4>1. PICK clk : s = OnClock(d, b, pr, clk)
        BY <2>2 DEF IsSingle
      <4> QED  BY <4>1 DEF OnClock
    <3> QED  BY <2>2, <3>1 DEF IsSingle
  <2> QED  BY <2>1, <2>2
<1>2. ASSUME NEW f \in Flops(b)
      PROVE  /\ b.flop[f].pin \in DOMAIN pr /\ InnerClock(b, pr, f) = pr[b.flop[f].pin]
             /\ InnerClock(b, pr, f) # None
  BY <1>1 DEF Resolved, InnerClock
<1>3. ASSUME NEW f \in Flops(b) PROVE InnerClock(b, pr, f) \in RootsOf(pr)
  BY <1>2 DEF RootsOf, Range
<1> QED  BY <1>1, <1>2, <1>3

(* A proven depth is the proof of the block, whatever clock it is told of. *)
LEMMA DepthIsProven ==
    ASSUME NEW d, NEW b, IsBody(b), NEW pr, NEW s,
           IsSingle(d, b, pr, s) \/ IsMulti(d, b, pr, s), NEW p \in DOMAIN s.inputs
    PROVE  /\ s.inputs[p].depth >= 2 => s.analysed /\ SyncDepth(b, pr, p) >= 2
           /\ s.analysed => s.inputs[p].user = UserSynchronised(b, p)
           /\ p \in b.in \ DOMAIN pr
<1>1. CASE IsSingle(d, b, pr, s)
  <2>1. PICK clk : s = OnClock(d, b, pr, clk)
    BY <1>1 DEF IsSingle
  <2>2. s.analysed = b.grey /\ s.inputs = [q \in b.in \ DOMAIN pr |-> InputFacts(b, pr, q, clk)]
    BY <2>1 DEF OnClock
  <2>3. p \in b.in \ DOMAIN pr /\ s.inputs[p] = InputFacts(b, pr, p, clk)
    BY <2>2
  <2>4. CASE b.grey
    <3>1. s.analysed
      BY <2>2, <2>4
    <3>2. s.inputs[p] = [clock |-> clk, depth |-> SyncDepth(b, pr, p),
                         user |-> UserSynchronised(b, p)]
      BY <2>3, <2>4 DEF InputFacts
    <3> QED  BY <2>3, <3>1, <3>2
  <2>5. CASE ~b.grey
    <3>1. ~s.analysed
      BY <2>2, <2>5
    <3>2. s.inputs[p] = [clock |-> clk, depth |-> 0, user |-> FALSE]
      BY <2>3, <2>5 DEF InputFacts
    <3>3. s.inputs[p].depth = 0
      BY <3>2
    <3> QED  BY <2>3, <3>1, <3>3
  <2> QED  BY <2>4, <2>5
<1>2. CASE IsMulti(d, b, pr, s)
  <2>1. /\ s.analysed = TRUE /\ b.grey
        /\ s.inputs = [q \in {q \in b.in \ DOMAIN pr : Heads(b, q) # {}} |->
                           InputFacts(b, pr, q, Only(Domains(b, pr, Heads(b, q))))]
    BY <1>2 DEF IsMulti, MultiClockSummary
  <2>2. /\ p \in b.in \ DOMAIN pr
        /\ s.inputs[p] = InputFacts(b, pr, p, Only(Domains(b, pr, Heads(b, p))))
    BY <2>1
  <2> QED  BY <2>1, <2>2 DEF InputFacts
<1> QED  BY <1>1, <1>2

(* A depth of two is two registers in a row on one clock.                  *)
LEMMA TwoStages ==
    ASSUME NEW b, IsBody(b), NEW pr, NEW p, SyncDepth(b, pr, p) >= 2
    PROVE  \E h, k \in Flops(b) :
               /\ {e[2] : e \in {f \in Feeds(b) : f[1] = p}} = {h} /\ <<p, h>> \in b.wire
               /\ {e[2] : e \in {f \in Feeds(b) : f[1] = h}}
                      \ {o \in b.out : <<h, o>> \in b.wire} = {k}
               /\ h # k /\ InnerClock(b, pr, h) = InnerClock(b, pr, k)
<1> DEFINE h == FirstStage(b, p)
           clock == InnerClock(b, pr, h)
<1>1. FirstStage(b, p) # None /\ Len(Chain(b, pr, h)) >= 2
  BY DEF SyncDepth
<1>2. /\ h \in Flops(b) /\ <<p, h>> \in b.wire /\ Readers(b, p) = 1
      /\ \A o \in b.out : <<p, o>> \notin b.wire
  BY <1>1, FirstStageIs
<1> HIDE DEF h
<1>3. PICK k \in NextStage(b, pr, h, clock) : k # h
  BY <1>1, <1>2, ChainStarts
<1>4. Readers(b, h) = 1 /\ k \in Flops(b) /\ <<h, k>> \in b.wire /\ InnerClock(b, pr, k) = clock
  BY <1>3 DEF NextStage
<1>5. {e[2] : e \in {f \in Feeds(b) : f[1] = p}} = {h}
  <2>1. ASSUME NEW e \in Feeds(b), e[1] = p PROVE e[2] = h
    <3>1. e[2] = h \/ (e[2] \in b.out /\ e \in b.wire)
      BY <1>2, <2>1, OneReader
    <3>2. e = <<e[1], e[2]>>
      BY DEF Feeds, Data, IsBody
    <3> QED  BY <1>2, <2>1, <3>1, <3>2
  <2>2. <<p, h>> \in Feeds(b)
    BY <1>2 DEF Feeds, Data
  <2>3. <<p, h>>[1] = p /\ <<p, h>>[2] = h
    OBVIOUS
  <2> QED  BY <2>1, <2>2, <2>3
<1>6. {e[2] : e \in {f \in Feeds(b) : f[1] = h}} \ {o \in b.out : <<h, o>> \in b.wire} = {k}
  <2>1. ASSUME NEW e \in Feeds(b), e[1] = h PROVE e[2] = k \/ e[2] \in {o \in b.out : <<h, o>> \in b.wire}
    <3>1. e[2] = k \/ (e[2] \in b.out /\ e \in b.wire)
      BY <1>4, <2>1, OneReader
    <3>2. e = <<h, e[2]>>
      BY <2>1 DEF Feeds, Data, IsBody
    <3> QED  BY <3>1, <3>2
  <2>2. <<h, k>> \in Feeds(b) /\ <<h, k>>[1] = h /\ <<h, k>>[2] = k
    BY <1>4 DEF Feeds, Data
  <2>3. k \notin b.out
    BY <1>4 DEF IsBody
  <2> DEFINE S == {e[2] : e \in {f \in Feeds(b) : f[1] = h}}
             T == {o \in b.out : <<h, o>> \in b.wire}
  <2>4. k \in S /\ k \notin T
    BY <2>2, <2>3
  <2>5. \A x \in S : x = k \/ x \in T
    BY <2>1
  <2> HIDE DEF S, T
  <2>6. S \ T = {k}
    BY <2>4, <2>5
  <2> QED  BY <2>6 DEF S, T
<1> QED  BY <1>2, <1>3, <1>4, <1>5, <1>6

----------------------------------------------------------------------------
(* The invariant                                                           *)

(* What the cache holds for a module in a clock context is a summary of    *)
(* that module in that context.                                            *)
CacheInv ==
    \A k \in DOMAIN seen : seen[k] \in Summaries(design, k[1], k[2])

(* What an instance was given is its own.                                  *)
Owns(d, i, s) ==
    IF IsPrimitive(d, i) THEN s = PrimitiveSummary(Body(d, i), PinRoots(d, i))
    ELSE s \in Summaries(d, d.type[i], PinRoots(d, i)) /\ s # None

OwnInv ==
    /\ boundaries = [i \in DOMAIN boundaries |-> boundaries[i]]
    /\ \A i \in DOMAIN boundaries : Owns(design, i, boundaries[i])

(* No instance is forgotten, and none that carries a clock trusted.        *)
LookedInv ==
    /\ todo \subseteq Insts(design) /\ DOMAIN boundaries \subseteq Insts(design)
    /\ \A i \in Insts(design) \ todo :
           /\ i \in DOMAIN boundaries \cup told \/ design.type[i] \in declined
           /\ ForwardsClock(design, design.type[i]) => design.type[i] \in declined

(* What each phase has made sure of.                                       *)
PhaseInv ==
    /\ phase \in {"compose", "searched", "refused", "done"}
    /\ phase \in {"compose", "searched"} => told = {}
    /\ phase # "compose" => todo = {} /\ crossings = CrossingsOf(design, boundaries)
    /\ phase \in {"refused", "done"} => Unsafe(boundaries, crossings) = {}
    /\ phase = "done" =>
           \A i \in Insts(design) : design.type[i] \in declined => i \in told

ComposeInv == design \in Design /\ CacheInv /\ OwnInv /\ LookedInv /\ PhaseInv

(* The walk begins with nothing looked at.                                 *)
LEMMA InitComposes == Init => ComposeInv
<1> SUFFICES ASSUME Init PROVE ComposeInv
  OBVIOUS
<1> USE DEF Init
<1>1. CacheInv
  BY DEF CacheInv
<1>2. OwnInv
  BY DEF OwnInv
<1>3. LookedInv
  BY DEF LookedInv
<1>4. PhaseInv
  BY DEF PhaseInv
<1> QED  BY <1>1, <1>2, <1>3, <1>4 DEF ComposeInv

(* The two parts of a key (compose_boundaries, cache_key).                 *)
LEMMA KeyParts ==
    ASSUME NEW d, NEW i
    PROVE  Key(d, i)[1] = d.type[i] /\ Key(d, i)[2] = PinRoots(d, i)
  BY DEF Key

(* An instance that is looked at is given what it owns, or its type is     *)
(* declined.                                                               *)
Gives(i) ==
    \/ \E s : /\ Owns(design, i, s) /\ ~ForwardsClock(design, design.type[i])
              /\ boundaries' = Put(boundaries, i, s) /\ UNCHANGED declined
    \/ declined' = declined \cup {design.type[i]} /\ UNCHANGED boundaries

(* An instance that is looked at as it should be keeps the invariant.      *)
LEMMA LookKeeps ==
    ASSUME ComposeInv, NEW i \in todo, Looked(i), Gives(i), CacheInv'
    PROVE  ComposeInv'
<1>1. /\ UNCHANGED <<design, phase, crossings, told>> /\ todo' = todo \ {i}
      /\ i \in Insts(design) /\ phase = "compose"
  BY DEF ComposeInv, LookedInv, PhaseInv, Looked
<1>2. CASE declined' = declined \cup {design.type[i]} /\ UNCHANGED boundaries
  <2>1. OwnInv'
    BY <1>1, <1>2 DEF ComposeInv, OwnInv, Owns
  <2>2. LookedInv'
    BY <1>1, <1>2 DEF ComposeInv, LookedInv
  <2>3. PhaseInv'
    BY <1>1, <1>2 DEF ComposeInv, PhaseInv
  <2> QED  BY <1>1, <2>1, <2>2, <2>3 DEF ComposeInv
<1>3. ASSUME NEW s, Owns(design, i, s), ~ForwardsClock(design, design.type[i]),
             boundaries' = Put(boundaries, i, s), UNCHANGED declined
      PROVE  ComposeInv'
  <2>1. /\ DOMAIN boundaries' = DOMAIN boundaries \cup {i} /\ boundaries'[i] = s
        /\ \A j \in DOMAIN boundaries : j # i => boundaries'[j] = boundaries[j]
        /\ boundaries' = [j \in DOMAIN boundaries' |-> boundaries'[j]]
    BY <1>3 DEF Put
  <2>2. OwnInv'
    <3>1. ASSUME NEW j \in DOMAIN boundaries' PROVE Owns(design', j, boundaries'[j])
      <4>1. Owns(design, j, boundaries'[j])
        BY <1>3, <2>1 DEF ComposeInv, OwnInv
      <4> QED  BY <1>1, <4>1
    <3> QED  BY <2>1, <3>1 DEF OwnInv
  <2>3. LookedInv'
    BY <1>1, <1>3, <2>1 DEF ComposeInv, LookedInv
  <2>4. PhaseInv'
    BY <1>1, <1>3 DEF ComposeInv, PhaseInv
  <2> QED  BY <1>1, <2>2, <2>3, <2>4 DEF ComposeInv
<1> QED  BY <1>2, <1>3 DEF Gives

(* A summary of the context of an instance is the one it owns.             *)
LEMMA SummaryGives ==
    ASSUME NEW i, Generic(i), NEW s, Use(i, s),
           s \in Summaries(design, design.type[i], PinRoots(design, i))
    PROVE  Gives(i)
<1>1. CASE s = None
  BY <1>1 DEF Use, Gives
<1>2. CASE s # None
  BY <1>2 DEF Use, Gives, Owns, Generic
<1> QED  BY <1>1, <1>2

(* Taking boundaries back adds no crossing, and leaves no unsafe one.      *)
LEMMA FewerCrossings ==
    ASSUME NEW d, NEW B, NEW D
    PROVE  \A x \in CrossingsOf(d, Restrict(B, DOMAIN B \ D)) : x \in CrossingsOf(d, B)
<1> DEFINE R == Restrict(B, DOMAIN B \ D)
           record(C, w) == [src |-> w[1], dst |-> w[2],
                            from |-> Launch(d, C, w[1]), to |-> Capture(d, C, w[2])]
<1>1. DOMAIN R = DOMAIN B \ D /\ \A i \in DOMAIN R : R[i] = B[i] /\ i \in DOMAIN B
  BY DEF Restrict
<1> HIDE DEF R
<1>2. ASSUME NEW a, IsSource(d, R, a)
      PROVE  IsSource(d, B, a) /\ Launch(d, B, a) = Launch(d, R, a)
  BY <1>1, <1>2 DEF IsSource, Launch
<1>3. ASSUME NEW z, IsSink(d, R, z)
      PROVE  IsSink(d, B, z) /\ Capture(d, B, z) = Capture(d, R, z)
  BY <1>1, <1>3 DEF IsSink, Capture
<1>4. ASSUME NEW w \in d.wire, IsSource(d, R, w[1]), IsSink(d, R, w[2]),
             ~SameName(d, R, w[1], w[2])
      PROVE  record(R, w) \in CrossingsOf(d, B)
  <2>1. /\ IsSource(d, B, w[1]) /\ Launch(d, B, w[1]) = Launch(d, R, w[1])
        /\ IsSink(d, B, w[2]) /\ Capture(d, B, w[2]) = Capture(d, R, w[2])
    BY <1>2, <1>3, <1>4
  <2>2. ~SameName(d, B, w[1], w[2])
    BY <1>4, <2>1 DEF SameName
  <2>3. record(R, w) = record(B, w)
    BY <2>1
  <2> QED  BY <2>1, <2>2, <2>3 DEF CrossingsOf
<1> SUFFICES ASSUME NEW x \in CrossingsOf(d, R) PROVE x \in CrossingsOf(d, B)
  BY DEF R
<1>5. PICK w \in d.wire : /\ IsSource(d, R, w[1]) /\ IsSink(d, R, w[2])
                          /\ ~SameName(d, R, w[1], w[2]) /\ x = record(R, w)
  BY DEF CrossingsOf
<1> QED  BY <1>4, <1>5

(* Crossings are as finite as wires are.                                   *)
LEMMA CrossingsFinite ==
    ASSUME NEW d, IsDesign(d), NEW B
    PROVE  IsFiniteSet(CrossingsOf(d, B))
<1> DEFINE record(w) == [src |-> w[1], dst |-> w[2],
                         from |-> Launch(d, B, w[1]), to |-> Capture(d, B, w[2])]
           W == {v \in d.wire : /\ IsSource(d, B, v[1]) /\ IsSink(d, B, v[2])
                                /\ ~SameName(d, B, v[1], v[2])}
<1>1. IsFiniteSet(W)
  BY FS_Subset DEF IsDesign
<1> DEFINE X == {record(w) : w \in W}
           f == [w \in W |-> record(w)]
<1>2. X = CrossingsOf(d, B)
  BY DEF CrossingsOf
<1>3. f \in Surjection(W, X)
  BY DEF Surjection
<1> HIDE DEF X, W, f
<1>4. IsFiniteSet(X)
  BY <1>1, <1>3, FS_Surjection
<1> QED  BY <1>2, <1>4

(* The ports of an instance that crossings come to.                        *)
Entered(X, i) == {x.dst[2] : x \in {y \in X : y.dst[1] = i}}

(* And so are the ports they enter.                                        *)
LEMMA EnteredFinite ==
    ASSUME NEW X, IsFiniteSet(X), NEW i
    PROVE  IsFiniteSet(Entered(X, i))
<1> DEFINE W == {y \in X : y.dst[1] = i}
           f == [x \in W |-> x.dst[2]]
<1>1. IsFiniteSet(W)
  BY FS_Subset
<1>2. f \in Surjection(W, Entered(X, i))
  BY DEF Surjection, Entered
<1> HIDE DEF W, f
<1> QED  BY <1>1, <1>2, FS_Surjection

(* The second search leaves nothing to refuse: a block that is kept has no *)
(* port entered that the first search did not see.                         *)
LEMMA RefusalSettles ==
    ASSUME NEW d, IsDesign(d), NEW B, NEW D,
           D = Unsafe(B, CrossingsOf(d, B))
    PROVE  LET R == Restrict(B, DOMAIN B \ D) IN Unsafe(R, CrossingsOf(d, R)) = {}
<1> DEFINE R == Restrict(B, DOMAIN B \ D)
           X == CrossingsOf(d, B)
           Y == CrossingsOf(d, R)
<1>1. DOMAIN R = DOMAIN B \ D /\ \A i \in DOMAIN R : R[i] = B[i] /\ i \in DOMAIN B
  BY DEF Restrict
<1>2. Y \subseteq X /\ IsFiniteSet(X)
  BY FewerCrossings, CrossingsFinite
<1> HIDE DEF R, X, Y
<1>3. SUFFICES ASSUME NEW i \in Unsafe(R, Y) PROVE FALSE
  BY DEF R, Y
<1>4. /\ i \in DOMAIN R /\ ~R[i].analysed /\ Cardinality(Entered(Y, i)) >= 2
  BY DEF Unsafe, Entered
<1>5. Entered(Y, i) \subseteq Entered(X, i)
  BY <1>2 DEF Entered
<1>6. /\ Cardinality(Entered(Y, i)) <= Cardinality(Entered(X, i))
      /\ Cardinality(Entered(X, i)) \in Nat /\ Cardinality(Entered(Y, i)) \in Nat
  BY <1>2, <1>5, EnteredFinite, FS_Subset, FS_CardinalityType
<1>7. Cardinality(Entered(X, i)) >= 2 /\ ~B[i].analysed /\ i \in DOMAIN B
  BY <1>1, <1>4, <1>6
<1>8. i \in D
  BY <1>7 DEF Unsafe, Entered, X
<1> QED  BY <1>1, <1>4, <1>8

(* Every step keeps the invariant.                                         *)
LEMMA StepComposes ==
    ASSUME ComposeInv, [Next]_vars
    PROVE  ComposeInv'
<1>1. CASE UNCHANGED vars
  BY <1>1 DEF vars, ComposeInv, CacheInv, OwnInv, Owns, LookedInv, PhaseInv
<1>2. ASSUME NEW i \in todo, DeclineForwarder(i) PROVE ComposeInv'
  <2>1. Looked(i) /\ Gives(i) /\ UNCHANGED seen
    BY <1>2 DEF DeclineForwarder, Gives
  <2>2. CacheInv'
    BY <2>1 DEF ComposeInv, CacheInv, Looked
  <2> QED  BY <2>1, <2>2, LookKeeps
<1>3. ASSUME NEW i \in todo, AcceptPrimitive(i) PROVE ComposeInv'
  <2>1. Looked(i) /\ Gives(i) /\ UNCHANGED seen
    BY <1>3 DEF AcceptPrimitive, Gives, Owns
  <2>2. CacheInv'
    BY <2>1 DEF ComposeInv, CacheInv, Looked
  <2> QED  BY <2>1, <2>2, LookKeeps
<1>4. ASSUME NEW i \in todo, Summarise(i) PROVE ComposeInv'
  <2>1. PICK s \in Summaries(design, design.type[i], PinRoots(design, i)) :
            seen' = Put(seen, Key(design, i), s) /\ Use(i, s)
    BY <1>4 DEF Summarise
  <2>2. Looked(i) /\ Generic(i)
    BY <1>4 DEF Summarise
  <2>3. Gives(i)
    BY <2>1, <2>2, SummaryGives
  <2>4. CacheInv'
    <3>1. ASSUME NEW k \in DOMAIN seen' PROVE seen'[k] \in Summaries(design, k[1], k[2])
      <4>1. \/ k \in DOMAIN seen /\ seen'[k] = seen[k]
            \/ k = Key(design, i) /\ seen'[k] = s
        <5>1. seen' = Put(seen, Key(design, i), s)
          BY <2>1
        <5>2. /\ DOMAIN seen' = DOMAIN seen \cup {Key(design, i)} /\ seen'[Key(design, i)] = s
              /\ \A y \in DOMAIN seen : y # Key(design, i) => seen'[y] = seen[y]
          BY <5>1 DEF Put
        <5> QED  BY <5>2
      <4> QED  BY <2>1, <4>1, KeyParts DEF ComposeInv, CacheInv
    <3> QED  BY <2>2, <3>1 DEF CacheInv, Looked
  <2> QED  BY <2>2, <2>3, <2>4, LookKeeps
<1>5. ASSUME NEW i \in todo, Reuse(i) PROVE ComposeInv'
  <2>1. /\ Key(design, i) \in DOMAIN seen /\ Use(i, seen[Key(design, i)])
        /\ UNCHANGED seen /\ Looked(i) /\ Generic(i)
    BY <1>5 DEF Reuse
  <2>2. seen[Key(design, i)] \in Summaries(design, design.type[i], PinRoots(design, i))
    BY <2>1, KeyParts DEF ComposeInv, CacheInv
  <2>3. Gives(i)
    BY <2>1, <2>2, SummaryGives
  <2>4. CacheInv'
    BY <2>1 DEF ComposeInv, CacheInv, Looked
  <2> QED  BY <2>1, <2>3, <2>4, LookKeeps
<1>6. CASE Search
  <2>1. /\ phase = "compose" /\ todo = {} /\ phase' = "searched"
        /\ crossings' = CrossingsOf(design, boundaries)
        /\ UNCHANGED <<design, todo, seen, boundaries, declined, told>>
    BY <1>6 DEF Search
  <2>2. PhaseInv'
    BY <2>1 DEF ComposeInv, PhaseInv
  <2> QED  BY <2>1, <2>2 DEF ComposeInv, CacheInv, OwnInv, Owns, LookedInv
<1>7. CASE Refuse
  <2>1. /\ phase = "searched" /\ phase' = "refused" /\ told = {}
        /\ told' = Unsafe(boundaries, crossings)
        /\ boundaries' = Restrict(boundaries, DOMAIN boundaries \ told')
        /\ crossings' = IF told' = {} THEN crossings ELSE CrossingsOf(design, boundaries')
        /\ UNCHANGED <<design, todo, seen, declined>>
        /\ todo = {} /\ crossings = CrossingsOf(design, boundaries)
    BY <1>7 DEF Refuse, ComposeInv, PhaseInv
  <2>2. /\ DOMAIN boundaries' = DOMAIN boundaries \ told'
        /\ boundaries' = [i \in DOMAIN boundaries' |-> boundaries'[i]]
        /\ \A i \in DOMAIN boundaries' : boundaries'[i] = boundaries[i]
    BY <2>1 DEF Restrict
  <2>3. OwnInv'
    <3>1. ASSUME NEW i \in DOMAIN boundaries' PROVE Owns(design', i, boundaries'[i])
      <4>1. Owns(design, i, boundaries'[i])
        BY <2>2 DEF ComposeInv, OwnInv
      <4> QED  BY <2>1, <4>1
    <3> QED  BY <2>2, <3>1 DEF OwnInv
  <2>4. LookedInv'
    BY <2>1, <2>2 DEF ComposeInv, LookedInv
  <2>5. crossings' = CrossingsOf(design, boundaries')
    <3>1. CASE told' = {}
      <4>1. boundaries = [i \in DOMAIN boundaries |-> boundaries[i]]
        BY DEF ComposeInv, OwnInv
      <4>2. boundaries' = [i \in DOMAIN boundaries |-> boundaries[i]]
        BY <2>1, <3>1 DEF Restrict
      <4>3. boundaries' = boundaries
        BY <4>1, <4>2
      <4> QED  BY <2>1, <3>1, <4>3
    <3>2. CASE told' # {}
      BY <2>1, <3>2
    <3> QED  BY <3>1, <3>2
  <2>6. Unsafe(boundaries', crossings') = {}
    <3>1. IsDesign(design)
      BY DesignAssumption DEF ComposeInv
    <3> QED  BY <2>1, <2>5, <3>1, RefusalSettles
  <2>7. PhaseInv'
    BY <2>1, <2>5, <2>6 DEF PhaseInv
  <2>8. CacheInv'
    BY <2>1 DEF ComposeInv, CacheInv
  <2> QED  BY <2>1, <2>3, <2>4, <2>7, <2>8 DEF ComposeInv
<1>8. CASE Cover
  <2>1. /\ phase = "refused" /\ phase' = "done"
        /\ told' = told \cup {i \in Insts(design) : design.type[i] \in declined}
        /\ UNCHANGED <<design, todo, seen, boundaries, declined, crossings>>
    BY <1>8 DEF Cover
  <2>2. PhaseInv'
    BY <2>1 DEF ComposeInv, PhaseInv
  <2>3. LookedInv'
    BY <2>1 DEF ComposeInv, LookedInv
  <2> QED  BY <2>1, <2>2, <2>3 DEF ComposeInv, CacheInv, OwnInv, Owns
<1> QED  BY <1>1, <1>2, <1>3, <1>4, <1>5, <1>6, <1>7, <1>8 DEF Next

(***************************************************************************)
(* The invariant of the walk: the cache is true, an instance is given what *)
(* its own wiring leads to, none is forgotten, and after the refusal no    *)
(* opaque block is entered by two crossings (compose_boundaries,           *)
(* reconvergence_unsafe_instances).                                        *)
(***************************************************************************)
THEOREM Composes == Spec => []ComposeInv
  BY InitComposes, StepComposes, PTL DEF Spec

(* The pin that clocks a register of an instance, and what the parent      *)
(* traces there.                                                           *)
LEMMA PinTraced ==
    ASSUME NEW d, IsDesign(d), NEW i \in Insts(d), NEW f \in Flops(Body(d, i))
    PROVE  LET pin == Body(d, i).flop[f].pin
               pr == PinRoots(d, i)
               r == <<i, f>>
           IN  /\ ClockPinOf(d, r) = <<i, pin>> /\ IsRegister(d, r)
               /\ pin \in DOMAIN pr =>
                      /\ <<i, pin>> \in DOMAIN d.clk /\ pr[pin] = Trace(d, <<i, pin>>)
                      /\ pr[pin] # None =>
                             /\ RootOf(d, r) = pr[pin]
                             /\ FlatClock(d, r) # None => FlatClock(d, r) = pr[pin]
<1> DEFINE pin == Body(d, i).flop[f].pin
           pr == PinRoots(d, i)
           r == <<i, f>>
<1>1. i # "top" /\ r[1] = i /\ r[2] = f
  BY DEF IsDesign
<1>2. ClockPinOf(d, r) = <<i, pin>> /\ IsRegister(d, r)
  BY <1>1 DEF ClockPinOf, IsRegister
<1>3. ASSUME pin \in DOMAIN pr
      PROVE  <<i, pin>> \in DOMAIN d.clk /\ pr[pin] = Trace(d, <<i, pin>>)
  BY <1>3 DEF PinRoots, ClockPins
<1>4. ASSUME pin \in DOMAIN pr, pr[pin] # None
      PROVE  /\ RootOf(d, r) = pr[pin]
             /\ FlatClock(d, r) # None => FlatClock(d, r) = pr[pin]
  <2> HIDE DEF pin, pr, r
  <2> QED  BY <1>2, <1>3, <1>4, TracedRoot
<1> QED  BY <1>2, <1>3, <1>4

(* An instance that is trusted has its own summary, of a known kind.       *)
LEMMA OwnSummary ==
    ASSUME ComposeInv, NEW i \in DOMAIN boundaries
    PROVE  /\ IsDesign(design) /\ KeepsConvention(design) /\ i \in Insts(design)
           /\ i # "top" /\ IsBody(Body(design, i))
           /\ IF IsPrimitive(design, i)
              THEN boundaries[i] = PrimitiveSummary(Body(design, i), PinRoots(design, i))
              ELSE \/ IsSingle(design, Body(design, i), PinRoots(design, i), boundaries[i])
                   \/ IsMulti(design, Body(design, i), PinRoots(design, i), boundaries[i])
<1>1. IsDesign(design) /\ KeepsConvention(design) /\ i \in Insts(design)
  BY DesignAssumption DEF ComposeInv, LookedInv
<1>2. i # "top" /\ IsBody(Body(design, i))
  BY <1>1 DEF IsDesign
<1>3. Owns(design, i, boundaries[i])
  BY DEF ComposeInv, OwnInv
<1>4. CASE ~IsPrimitive(design, i)
  <2>1. /\ boundaries[i] \in Summaries(design, design.type[i], PinRoots(design, i))
        /\ boundaries[i] # None
    BY <1>3, <1>4 DEF Owns
  <2>2. IsBody(design.body[design.type[i]])
    BY <1>2 DEF Body
  <2> QED  BY <1>1, <1>2, <1>4, <2>1, <2>2, SummaryCases DEF Body
<1>5. CASE IsPrimitive(design, i)
  BY <1>1, <1>2, <1>3, <1>5 DEF Owns
<1> QED  BY <1>4, <1>5

(***************************************************************************)
(* The summary an instance ends up with is one its own wiring leads to,    *)
(* whichever instances of its module were looked at before it.             *)
(***************************************************************************)
THEOREM CacheInvisible == Spec => []SummaryIsItsOwn
<1>1. ComposeInv => SummaryIsItsOwn
  BY DEF ComposeInv, OwnInv, Owns, SummaryIsItsOwn
<1> QED  BY <1>1, Composes, PTL

(***************************************************************************)
(* Where CDC-001 is quiet because of a proven depth, two registers of one  *)
(* root follow each other and nothing else sees the port.                  *)
(***************************************************************************)
THEOREM QuietForAReason == Spec => []QuietIsSynchronised
<1>1. ComposeInv => QuietIsSynchronised
  <2> SUFFICES ASSUME ComposeInv, NEW i \in DOMAIN boundaries,
                      NEW p \in DOMAIN boundaries[i].inputs,
                      boundaries[i].inputs[p].depth >= 2
               PROVE  LET b == Body(design, i)
                          seenBy(n) == {e[2] : e \in {f \in Feeds(b) : f[1] = n}}
                          leaving(n) == {o \in b.out : <<n, o>> \in b.wire}
                      IN  \E h, k \in Flops(b) :
                            /\ seenBy(p) = {h} /\ <<p, h>> \in b.wire
                            /\ seenBy(h) \ leaving(h) = {k} /\ h # k
                            /\ RootOf(design, <<i, h>>) = RootOf(design, <<i, k>>)
                            /\ RootOf(design, <<i, h>>) # None
    BY DEF QuietIsSynchronised
  <2> DEFINE b == Body(design, i)
             pr == PinRoots(design, i)
             s == boundaries[i]
  <2>1. IsDesign(design) /\ i \in Insts(design) /\ IsBody(b)
    BY OwnSummary
  <2>2. ~IsPrimitive(design, i)
    <3> SUFFICES ASSUME IsPrimitive(design, i) PROVE FALSE
      OBVIOUS
    <3>1. s = PrimitiveSummary(b, pr)
      BY OwnSummary
    <3>2. s.inputs = <<>>
      BY <3>1 DEF PrimitiveSummary
    <3> QED  BY <3>2
  <2>3. IsSingle(design, b, pr, s) \/ IsMulti(design, b, pr, s)
    BY <2>2, OwnSummary
  <2>4. p \in DOMAIN s.inputs /\ s.inputs[p].depth >= 2
    OBVIOUS
  <2> HIDE DEF b, pr, s
  <2>5. s.analysed /\ SyncDepth(b, pr, p) >= 2
    BY <2>1, <2>3, <2>4, DepthIsProven
  <2>6. \A f \in Flops(b) : RootOf(design, <<i, f>>) = InnerClock(b, pr, f)
                            /\ InnerClock(b, pr, f) # None
    <3> SUFFICES ASSUME NEW f \in Flops(b)
                 PROVE  RootOf(design, <<i, f>>) = InnerClock(b, pr, f)
                        /\ InnerClock(b, pr, f) # None
      OBVIOUS
    <3>1. /\ b.flop[f].pin \in DOMAIN pr /\ InnerClock(b, pr, f) = pr[b.flop[f].pin]
          /\ InnerClock(b, pr, f) # None
      <4>1. /\ b.flop[f].pin \in DOMAIN pr /\ InnerClock(b, pr, f) = pr[b.flop[f].pin]
            /\ InnerClock(b, pr, f) \in RootsOf(pr)
        BY <2>1, <2>3, <2>5, AnalysedResolved
      <4> QED  BY <4>1 DEF RootsOf
    <3> QED  BY <2>1, <3>1, PinTraced DEF b, pr
  <2>7. PICK h, k \in Flops(b) :
               /\ {e[2] : e \in {f \in Feeds(b) : f[1] = p}} = {h} /\ <<p, h>> \in b.wire
               /\ {e[2] : e \in {f \in Feeds(b) : f[1] = h}}
                      \ {o \in b.out : <<h, o>> \in b.wire} = {k}
               /\ h # k /\ InnerClock(b, pr, h) = InnerClock(b, pr, k)
    BY <2>1, <2>5, TwoStages
  <2>8. RootOf(design, <<i, h>>) = RootOf(design, <<i, k>>) /\ RootOf(design, <<i, h>>) # None
    BY <2>6, <2>7
  <2> QED  BY <2>7, <2>8 DEF b
<1> QED  BY <1>1, Composes, PTL

----------------------------------------------------------------------------
(* Nothing is severed                                                      *)

Done == ComposeInv /\ phase = "done"

(* At the end every instance is trusted or told of.                        *)
LEMMA DoneFacts ==
    ASSUME Done
    PROVE  /\ IsDesign(design) /\ KeepsConvention(design)
           /\ crossings = CrossingsOf(design, boundaries)
           /\ \A i \in Insts(design) :
                  /\ i \in DOMAIN boundaries \/ i \in told
                  /\ ForwardsClock(design, design.type[i]) => i \in told
<1>1. IsDesign(design) /\ KeepsConvention(design)
  BY DesignAssumption DEF Done, ComposeInv
<1>2. todo = {} /\ crossings = CrossingsOf(design, boundaries)
  BY DEF Done, ComposeInv, PhaseInv
<1>3. \A i \in Insts(design) : design.type[i] \in declined => i \in told
  BY DEF Done, ComposeInv, PhaseInv
<1>4. \A i \in Insts(design) :
          /\ i \in DOMAIN boundaries \cup told \/ design.type[i] \in declined
          /\ ForwardsClock(design, design.type[i]) => design.type[i] \in declined
  BY <1>2 DEF Done, ComposeInv, LookedInv
<1> QED  BY <1>1, <1>2, <1>3, <1>4

(* An instance that carries a clock to a pin known as one is told.         *)
LEMMA CarrierTold ==
    ASSUME Done, NEW c \in ClockSinks(design), design.clk[c].from \in OutPins(design),
           design.clk[c].hops <= MaxDepth
    PROVE  design.clk[c].from[1] \in told
<1> DEFINE j == design.clk[c].from[1]
           o == design.clk[c].from[2]
<1>1. j \in Insts(design) /\ o \in Body(design, j).out /\ design.clk[c].from = <<j, o>>
  <2>1. PICK i \in Insts(design) : design.clk[c].from \in {i} \X Body(design, i).out
    BY DEF OutPins
  <2> QED  BY <2>1
<1>2. DrivesClock(design, j)
  BY <1>1 DEF DrivesClock
<1>3. ForwardsClock(design, design.type[j])
  BY <1>1, <1>2 DEF ForwardsClock
<1> QED  BY <1>1, <1>3, DoneFacts

(* A register whose clock is not lost: of the parent, or of a block.       *)
Clocked(r) ==
    /\ ClockPinOf(design, r) \in DOMAIN design.clk
    /\ FlatClock(design, r) # None /\ ~ClockLost(r)

(* A register of the parent is searched with its flat clock.               *)
LEMMA TopClocked ==
    ASSUME Done, NEW r, r[1] = "top", Clocked(r)
    PROVE  Trace(design, r) = FlatClock(design, r) /\ Trace(design, r) # None
<1>1. ClockPinOf(design, r) = r /\ IsRegister(design, r) /\ IsDesign(design)
  <2>1. ClockPinOf(design, r) = r
    BY DEF ClockPinOf
  <2>2. IsRegister(design, r)
    BY DEF IsRegister
  <2> QED  BY <2>1, <2>2, DoneFacts
<1>2. r \in ClockSinks(design)
  BY <1>1 DEF Clocked, ClockSinks
<1>3. CASE /\ design.clk[r].from \in OutPins(design)
           /\ design.clk[r].from[1] \in ClockVia(design, r)
           /\ design.clk[r].hops <= MaxDepth
  BY <1>2, <1>3, CarrierTold DEF Clocked, ClockLost
<1>4. \/ Trace(design, r) # None /\ Trace(design, r) = FlatClock(design, r)
      \/ /\ design.clk[r].from \in OutPins(design)
         /\ design.clk[r].from[1] \in ClockVia(design, r)
         /\ design.clk[r].hops <= MaxDepth
  BY <1>1, FlatClockIs DEF Clocked
<1> QED  BY <1>3, <1>4

(* A register of a trusted block has its flat clock on a clock pin.        *)
LEMMA BlockClocked ==
    ASSUME Done, NEW i \in DOMAIN boundaries, NEW f \in Flops(Body(design, i)),
           Clocked(<<i, f>>)
    PROVE  LET b == Body(design, i)
               pr == PinRoots(design, i)
           IN  /\ b.flop[f].pin \in DOMAIN pr
               /\ pr[b.flop[f].pin] = FlatClock(design, <<i, f>>)
               /\ FlatClock(design, <<i, f>>) \in RootsOf(pr)
               /\ boundaries[i].analysed =>
                      InnerClock(b, pr, f) = FlatClock(design, <<i, f>>)
<1> DEFINE b == Body(design, i)
           pr == PinRoots(design, i)
           pin == b.flop[f].pin
           r == <<i, f>>
<1>1. IsDesign(design) /\ i \in Insts(design) /\ i # "top" /\ IsBody(b)
  BY OwnSummary DEF Done
<1>2. ClockPinOf(design, r) = <<i, pin>> /\ IsRegister(design, r) /\ r[1] = i
  BY <1>1, PinTraced
<1>3. <<i, pin>> \in DOMAIN design.clk /\ FlatClock(design, r) # None /\ ~ClockLost(r)
  BY <1>2 DEF Clocked
<1>4. ASSUME pin \in DOMAIN pr, pr[pin] # None
      PROVE  pr[pin] = FlatClock(design, r) /\ FlatClock(design, r) \in RootsOf(pr)
  <2>1. pr[pin] = FlatClock(design, r)
    BY <1>1, <1>3, <1>4, PinTraced
  <2> QED  BY <1>4, <2>1 DEF RootsOf, Range
<1>5. CASE Analysed(i)
  <2>1. boundaries[i].analysed
    BY <1>5 DEF Analysed
  <2>2. ~IsPrimitive(design, i)
    <3> SUFFICES ASSUME IsPrimitive(design, i) PROVE FALSE
      OBVIOUS
    <3>1. boundaries[i] = PrimitiveSummary(b, pr)
      BY OwnSummary DEF Done
    <3> QED  BY <2>1, <3>1 DEF PrimitiveSummary
  <2>3. IsSingle(design, b, pr, boundaries[i]) \/ IsMulti(design, b, pr, boundaries[i])
    BY <2>2, OwnSummary DEF Done
  <2> HIDE DEF b, pr
  <2>4. /\ b.flop[f].pin \in DOMAIN pr /\ InnerClock(b, pr, f) = pr[b.flop[f].pin]
        /\ InnerClock(b, pr, f) \in RootsOf(pr)
    <3>1. f \in Flops(b)
      BY DEF b
    <3> QED  BY <1>1, <2>1, <2>3, <3>1, AnalysedResolved
  <2>5. pr[pin] # None
    BY <2>4 DEF RootsOf
  <2> QED  BY <1>4, <2>4, <2>5 DEF b, pr
<1>6. CASE ~Analysed(i)
  <2>1. pin \in ClockPinsOfType(design, design.type[i])
    BY <1>1, <1>2, <1>3, <1>6 DEF ClockLost, ClockUnseen
  <2>2. <<i, pin>> \in ClockSinks(design)
    BY <1>3, <2>1 DEF ClockSinks
  <2>3. Trace(design, <<i, pin>>) # None
    <3>1. \/ Trace(design, <<i, pin>>) # None
          \/ /\ design.clk[<<i, pin>>].from \in OutPins(design)
             /\ design.clk[<<i, pin>>].from[1] \in ClockVia(design, r)
             /\ design.clk[<<i, pin>>].hops <= MaxDepth
      <4> HIDE DEF b, pr, pin, r
      <4> QED  BY <1>1, <1>2, <1>3, FlatClockIs
    <3>2. CASE /\ design.clk[<<i, pin>>].from \in OutPins(design)
               /\ design.clk[<<i, pin>>].from[1] \in ClockVia(design, r)
               /\ design.clk[<<i, pin>>].hops <= MaxDepth
      <4> HIDE DEF b, pr, pin, r
      <4> QED  BY <1>3, <2>2, <3>2, CarrierTold DEF ClockLost
    <3> QED  BY <3>1, <3>2
  <2>4. b.kind[pin] = "clock" \/ b.kind[pin] = "clocklike"
    <3>1. PICK j \in Insts(design) : design.type[j] = design.type[i] /\ pin \in ClockPins(design, j)
      BY <2>1 DEF ClockPinsOfType
    <3>2. Body(design, j) = b
      BY <3>1 DEF Body
    <3> QED  BY <3>1, <3>2 DEF ClockPins
  <2>5. pin \in b.in
    BY <1>1 DEF IsBody
  <2>6. pin \in ClockPins(design, i)
    BY <1>3, <2>3, <2>4, <2>5 DEF ClockPins
  <2>7. pin \in DOMAIN pr /\ pr[pin] # None
    BY <2>3, <2>6 DEF PinRoots
  <2> QED  BY <1>4, <1>6, <2>7 DEF Analysed
<1> QED  BY <1>5, <1>6

(* The roots of a block of one clock are synchronous.                      *)
LEMMA SameFamily ==
    ASSUME NEW d, NEW pr, SingleClock(d, pr), NEW x \in RootsOf(pr), NEW y \in RootsOf(pr)
    PROVE  ~Async(d, x, y)
  BY DEF SingleClock, Async

(* A wire without a recorded crossing stays in the family.                 *)
LEMMA WireKeepsFamily ==
    ASSUME Done, NEW w \in design.wire, IsSource(design, boundaries, w[1]),
           IsSink(design, boundaries, w[2]), Launch(design, boundaries, w[1]) # None,
           ~Recorded(w[1], w[2])
    PROVE  ~Async(design, Launch(design, boundaries, w[1]), Capture(design, boundaries, w[2]))
<1> DEFINE a == Launch(design, boundaries, w[1])
           z == Capture(design, boundaries, w[2])
           x == [src |-> w[1], dst |-> w[2], from |-> a, to |-> z]
<1>1. CASE SameName(design, boundaries, w[1], w[2])
  BY <1>1 DEF SameName, Async
<1>2. CASE ~SameName(design, boundaries, w[1], w[2])
  <2>1. x \in crossings
    BY <1>2, DoneFacts DEF CrossingsOf
  <2> HIDE DEF a, z
  <2>2. x.src = w[1] /\ x.dst = w[2] /\ x.from = a /\ x.to = z
    OBVIOUS
  <2>3. a # None
    BY DEF a
  <2> HIDE DEF x
  <2>4. ~Async(design, a, z)
    BY <2>1, <2>2, <2>3 DEF Recorded
  <2> QED  BY <2>4 DEF a, z
<1> QED  BY <1>1, <1>2

(* The two sides of a pin in a summary of one clock or several.            *)
LEMMA SinglePins ==
    ASSUME NEW d, NEW b, NEW pr, NEW s, IsSingle(d, b, pr, s)
    PROVE  \E clk : /\ RootsOf(pr) # {} => clk \in RootsOf(pr)
                    /\ DOMAIN s.ports = b.out /\ \A o \in b.out : s.ports[o] = clk
                    /\ DOMAIN s.inputs = b.in \ DOMAIN pr
                    /\ \A p \in b.in \ DOMAIN pr : s.inputs[p].clock = clk
                    /\ SingleClock(d, pr)
<1>1. PICK clk \in IF RootsOf(pr) = {} THEN {None} ELSE RootsOf(pr) : s = OnClock(d, b, pr, clk)
  BY DEF IsSingle
<1>2. /\ s.ports = [o \in b.out |-> clk]
      /\ s.inputs = [p \in b.in \ DOMAIN pr |-> InputFacts(b, pr, p, clk)]
  BY <1>1 DEF OnClock
<1>3. \A p : InputFacts(b, pr, p, clk).clock = clk
  BY DEF InputFacts
<1>4. RootsOf(pr) # {} => clk \in RootsOf(pr)
  BY <1>1
<1>5. DOMAIN s.ports = b.out /\ \A o \in b.out : s.ports[o] = clk
  BY <1>2
<1>6. DOMAIN s.inputs = b.in \ DOMAIN pr /\ \A p \in b.in \ DOMAIN pr : s.inputs[p].clock = clk
  BY <1>2, <1>3
<1>7. SingleClock(d, pr)
  BY DEF IsSingle
<1> QED  BY <1>4, <1>5, <1>6, <1>7

(* In a summary of several clocks a port is on the one clock that captures *)
(* or launches it.                                                         *)
LEMMA MultiPins ==
    ASSUME NEW d, NEW b, NEW pr, NEW s, IsMulti(d, b, pr, s)
    PROVE  /\ DOMAIN s.ports = b.out
           /\ \A o \in b.out : s.ports[o] = Only(Domains(b, pr, Launchers(b, o)))
           /\ DOMAIN s.inputs = {q \in b.in \ DOMAIN pr : Heads(b, q) # {}}
           /\ \A p \in DOMAIN s.inputs :
                  s.inputs[p].clock = Only(Domains(b, pr, Heads(b, p)))
           /\ s.analysed
<1>1. /\ s.ports = [o \in b.out |-> Only(Domains(b, pr, Launchers(b, o)))]
      /\ s.inputs = [p \in {q \in b.in \ DOMAIN pr : Heads(b, q) # {}} |->
                        InputFacts(b, pr, p, Only(Domains(b, pr, Heads(b, p))))]
      /\ s.analysed = TRUE
  BY DEF IsMulti, MultiClockSummary
<1>2. \A p, clk : InputFacts(b, pr, p, clk).clock = clk
  BY DEF InputFacts
<1>3. DOMAIN s.ports = b.out
      /\ \A o \in b.out : s.ports[o] = Only(Domains(b, pr, Launchers(b, o)))
  BY <1>1
<1>4. DOMAIN s.inputs = {q \in b.in \ DOMAIN pr : Heads(b, q) # {}}
  BY <1>1
<1>5. \A p \in DOMAIN s.inputs : s.inputs[p].clock = Only(Domains(b, pr, Heads(b, p)))
  BY <1>1, <1>2
<1> QED  BY <1>1, <1>3, <1>4, <1>5

(* Registers have finitely many clocks.                                    *)
LEMMA DomainsFinite ==
    ASSUME NEW b, IsBody(b), NEW pr, NEW F \in SUBSET Flops(b)
    PROVE  IsFiniteSet(Domains(b, pr, F))
<1> DEFINE f == [g \in F |-> InnerClock(b, pr, g)]
<1>1. IsFiniteSet(F)
  BY FS_Subset DEF IsBody
<1>2. f \in Surjection(F, Domains(b, pr, F))
  BY DEF Surjection, Domains
<1> HIDE DEF f
<1> QED  BY <1>1, <1>2, FS_Surjection

(* The register that launches a route.                                     *)
LEMMA RouteStarts ==
    ASSUME Done, NEW a \in TopRegisters(design) \cup OutPins(design),
           NEW s \in LaunchedAt(design, a), Clocked(s), a[1] \notin told,
           a[1] \in DOMAIN boundaries /\ a[2] \in DOMAIN boundaries[a[1]].ports =>
               boundaries[a[1]].ports[a[2]] # None
    PROVE  /\ IsSource(design, boundaries, a) /\ Launch(design, boundaries, a) # None
           /\ ~Async(design, FlatClock(design, s), Launch(design, boundaries, a))
<1>1. CASE a[1] = "top"
  <2>1. s = a
    BY <1>1 DEF LaunchedAt
  <2>2. Trace(design, a) = FlatClock(design, a) /\ Trace(design, a) # None
    BY <1>1, <2>1, TopClocked
  <2> QED  BY <1>1, <2>1, <2>2 DEF IsSource, Launch, Async
<1>2. CASE a[1] # "top"
  <2> DEFINE i == a[1]
             o == a[2]
             b == Body(design, i)
             pr == PinRoots(design, i)
             B == boundaries[i]
  <2>1. i \in Insts(design) /\ o \in b.out
    <3>1. a \in OutPins(design)
      BY <1>2 DEF TopRegisters
    <3>2. PICK j \in Insts(design) : a \in {j} \X Body(design, j).out
      BY <3>1 DEF OutPins
    <3> QED  BY <3>2
  <2>2. PICK f \in Launchers(b, o) : s = <<i, f>>
    BY <1>2 DEF LaunchedAt
  <2>3. i \in DOMAIN boundaries /\ f \in Flops(b) /\ IsBody(b) /\ KeepsConvention(design)
    BY <2>1, <2>2, DoneFacts DEF Launchers, IsDesign
  <2>4. /\ b.flop[f].pin \in DOMAIN pr /\ pr[b.flop[f].pin] = FlatClock(design, s)
        /\ FlatClock(design, s) \in RootsOf(pr)
        /\ B.analysed => InnerClock(b, pr, f) = FlatClock(design, s)
    BY <2>2, <2>3, BlockClocked
  <2>5. IF IsPrimitive(design, i) THEN B = PrimitiveSummary(b, pr)
        ELSE IsSingle(design, b, pr, B) \/ IsMulti(design, b, pr, B)
    BY <2>3, OwnSummary DEF Done
  <2>6. FlatClock(design, s) # None
    BY DEF Clocked
  <2>7. o \in DOMAIN B.ports /\ ~Async(design, FlatClock(design, s), B.ports[o])
    <3>1. CASE IsPrimitive(design, i)
      <4> DEFINE side == IF o \in b.srcOut THEN SourcePins(b, pr) ELSE DestPins(b, pr)
                 pin == b.flop[f].pin
      <4>1. side = {pin}
        BY <2>1, <2>2, <2>3, <2>4, <3>1 DEF KeepsConvention
      <4>2. B.ports = [q \in b.out |->
                          pr[CHOOSE p \in IF q \in b.srcOut THEN SourcePins(b, pr)
                                          ELSE DestPins(b, pr) : TRUE]]
        <5>1. B = PrimitiveSummary(b, pr)
          BY <2>5, <3>1
        <5> HIDE DEF B, b, pr
        <5> QED  BY <5>1 DEF PrimitiveSummary
      <4>3. o \in DOMAIN B.ports /\ B.ports[o] = pr[CHOOSE p \in side : TRUE]
        BY <2>1, <4>2
      <4> HIDE DEF side
      <4>4. (CHOOSE p \in side : TRUE) = pin
        BY <4>1
      <4> QED  BY <2>4, <4>3, <4>4 DEF Async
    <3>2. CASE ~IsPrimitive(design, i) /\ IsSingle(design, b, pr, B)
      <4> HIDE DEF b, pr, B
      <4>1. PICK clk : /\ RootsOf(pr) # {} => clk \in RootsOf(pr)
                       /\ DOMAIN B.ports = b.out /\ \A q \in b.out : B.ports[q] = clk
                       /\ SingleClock(design, pr)
        BY <3>2, SinglePins
      <4>2. clk \in RootsOf(pr) /\ o \in DOMAIN B.ports /\ B.ports[o] = clk
        BY <2>1, <2>4, <4>1
      <4>3. ~Async(design, FlatClock(design, s), clk)
        BY <2>4, <4>1, <4>2, SameFamily
      <4> QED  BY <4>2, <4>3
    <3>3. CASE ~IsPrimitive(design, i) /\ IsMulti(design, b, pr, B)
      <4>1. B.ports[o] # None
        <5>1. o \in DOMAIN B.ports
          BY <2>1, <3>3, MultiPins
        <5> QED  BY <2>3, <5>1
      <4> HIDE DEF b, pr, B
      <4>2. /\ o \in DOMAIN B.ports /\ B.analysed
            /\ B.ports[o] = Only(Domains(b, pr, Launchers(b, o)))
        BY <2>1, <3>3, MultiPins
      <4>3. InnerClock(b, pr, f) \in Domains(b, pr, Launchers(b, o))
        BY <2>2 DEF Domains
      <4>4. IsFiniteSet(Domains(b, pr, Launchers(b, o)))
        BY <2>3, DomainsFinite DEF Launchers
      <4>5. B.ports[o] = InnerClock(b, pr, f)
        BY <4>1, <4>2, <4>3, <4>4, OnlyOf
      <4> QED  BY <2>4, <4>2, <4>5 DEF Async
    <3> QED  BY <2>5, <3>1, <3>2, <3>3
  <2>8. IsSource(design, boundaries, a) /\ Launch(design, boundaries, a) = B.ports[o]
    BY <1>2, <2>3, <2>7 DEF IsSource, Launch
  <2>9. B.ports[o] # None
    BY <2>3, <2>7
  <2> HIDE DEF B, b, pr, i, o
  <2> QED  BY <2>7, <2>8, <2>9
<1> QED  BY <1>1, <1>2

(* The register that captures it.                                          *)
LEMMA RouteEnds ==
    ASSUME Done,
           NEW z \in TopRegisters(design) \cup (InPins(design) \ DOMAIN design.clk),
           NEW t \in CapturedAt(design, z), Clocked(t), z[1] \notin told, ~Accepted(t[1])
    PROVE  /\ IsSink(design, boundaries, z)
           /\ ~Async(design, Capture(design, boundaries, z), FlatClock(design, t))
<1>1. CASE z[1] = "top"
  <2>1. t = z
    BY <1>1 DEF CapturedAt
  <2>2. Trace(design, z) = FlatClock(design, z) /\ Trace(design, z) # None
    BY <1>1, <2>1, TopClocked
  <2> QED  BY <1>1, <2>1, <2>2 DEF IsSink, Capture, Async
<1>2. CASE z[1] # "top"
  <2> DEFINE i == z[1]
             p == z[2]
             b == Body(design, i)
             pr == PinRoots(design, i)
             B == boundaries[i]
  <2>1. i \in Insts(design) /\ p \in b.in /\ z = <<i, p>> /\ z \notin DOMAIN design.clk
    <3>1. z \in InPins(design) /\ z \notin DOMAIN design.clk
      BY <1>2 DEF TopRegisters
    <3>2. PICK j \in Insts(design) : z \in {j} \X Body(design, j).in
      BY <3>1 DEF InPins
    <3> QED  BY <3>1, <3>2
  <2>2. PICK g \in Flops(b) : t = <<i, g>> /\ <<p, g>> \in Data(b)
    BY <1>2 DEF CapturedAt
  <2>3. i \in DOMAIN boundaries /\ IsBody(b)
    BY <2>1, DoneFacts DEF IsDesign
  <2>4. /\ b.flop[g].pin \in DOMAIN pr /\ pr[b.flop[g].pin] = FlatClock(design, t)
        /\ FlatClock(design, t) \in RootsOf(pr)
        /\ B.analysed => InnerClock(b, pr, g) = FlatClock(design, t)
    BY <2>2, <2>3, BlockClocked
  <2>5. ~IsPrimitive(design, i)
    BY <2>2, <2>3 DEF Accepted
  <2>6. IsSingle(design, b, pr, B) \/ IsMulti(design, b, pr, B)
    BY <2>3, <2>5, OwnSummary DEF Done
  <2>7. FlatClock(design, t) # None
    BY DEF Clocked
  <2>8. p \in b.in \ DOMAIN pr
    BY <2>1 DEF PinRoots, ClockPins
  <2>9. /\ p \in DOMAIN B.inputs /\ ~Async(design, B.inputs[p].clock, FlatClock(design, t))
        /\ B.inputs[p].clock # None
    <3>1. CASE IsSingle(design, b, pr, B)
      <4> HIDE DEF b, pr, B
      <4>1. PICK clk : /\ RootsOf(pr) # {} => clk \in RootsOf(pr)
                       /\ DOMAIN B.inputs = b.in \ DOMAIN pr
                       /\ \A q \in b.in \ DOMAIN pr : B.inputs[q].clock = clk
                       /\ SingleClock(design, pr)
        BY <3>1, SinglePins
      <4>2. clk \in RootsOf(pr) /\ p \in DOMAIN B.inputs /\ B.inputs[p].clock = clk
        BY <2>4, <2>8, <4>1
      <4>3. ~Async(design, clk, FlatClock(design, t))
        BY <2>4, <4>1, <4>2, SameFamily
      <4>4. clk # None
        BY <4>2 DEF RootsOf
      <4> QED  BY <4>2, <4>3, <4>4
    <3>2. CASE IsMulti(design, b, pr, B)
      <4> HIDE DEF b, pr, B
      <4>1. g \in Heads(b, p)
        BY <2>2 DEF Heads, Feeds
      <4>2. /\ p \in DOMAIN B.inputs /\ B.analysed
            /\ B.inputs[p].clock = Only(Domains(b, pr, Heads(b, p)))
        BY <2>8, <3>2, <4>1, MultiPins
      <4>3. IsFiniteSet(Domains(b, pr, Heads(b, p)))
        BY <2>3, DomainsFinite DEF Heads
      <4>4. InnerClock(b, pr, g) \in Domains(b, pr, Heads(b, p))
        BY <4>1 DEF Domains
      <4>5. Cardinality(Domains(b, pr, Heads(b, p))) <= 1
        <5>1. ~(Cardinality(Domains(b, pr, Heads(b, p))) > 1)
          BY <2>8, <3>2 DEF IsMulti, Ambiguous
        <5>2. Cardinality(Domains(b, pr, Heads(b, p))) \in Nat
          BY <4>3, FS_CardinalityType
        <5> QED  BY <5>1, <5>2
      <4>6. B.inputs[p].clock = InnerClock(b, pr, g)
        BY <4>2, <4>3, <4>4, <4>5, OnlyOf
      <4> QED  BY <2>4, <2>7, <4>2, <4>6 DEF Async
    <3> QED  BY <2>6, <3>1, <3>2
  <2>10. Capture(design, boundaries, z) = B.inputs[p].clock
    BY <1>2 DEF Capture
  <2>11. IsSink(design, boundaries, z)
    BY <1>2, <2>3, <2>9, <2>10 DEF IsSink
  <2> HIDE DEF B, b, pr, i, p
  <2> QED  BY <2>9, <2>10, <2>11
<1> QED  BY <1>1, <1>2

(* A block on the way, which keeps its one clock from port to port.        *)
LEMMA RoutePasses ==
    ASSUME Done,
           NEW z \in TopRegisters(design) \cup (InPins(design) \ DOMAIN design.clk),
           NEW a \in TopRegisters(design) \cup OutPins(design), Through(design, z, a),
           z[1] \notin told,
           Analysed(z[1]) => SingleClock(design, PinRoots(design, z[1])),
           a[1] \in DOMAIN boundaries /\ a[2] \in DOMAIN boundaries[a[1]].ports =>
               boundaries[a[1]].ports[a[2]] # None
    PROVE  /\ IsSink(design, boundaries, z) /\ IsSource(design, boundaries, a)
           /\ Launch(design, boundaries, a) # None
           /\ Launch(design, boundaries, a) = Capture(design, boundaries, z)
<1> DEFINE i == z[1]
           p == z[2]
           o == a[2]
           b == Body(design, i)
           pr == PinRoots(design, i)
           B == boundaries[i]
<1>1. i # "top" /\ a[1] = i /\ <<p, o>> \in Data(b)
  BY DEF Through
<1>2. i \in Insts(design) /\ p \in b.in /\ z = <<i, p>> /\ z \notin DOMAIN design.clk
  <2>1. z \in InPins(design) /\ z \notin DOMAIN design.clk
    BY <1>1 DEF TopRegisters
  <2>2. PICK j \in Insts(design) : z \in {j} \X Body(design, j).in
    BY <2>1 DEF InPins
  <2> QED  BY <2>1, <2>2
<1>3. o \in b.out
  <2>1. a \in OutPins(design)
    BY <1>1 DEF TopRegisters
  <2>2. PICK j \in Insts(design) : a \in {j} \X Body(design, j).out
    BY <2>1 DEF OutPins
  <2> QED  BY <1>1, <2>2
<1>4. i \in DOMAIN boundaries /\ IsBody(b) /\ KeepsConvention(design)
  BY <1>2, DoneFacts DEF IsDesign
<1>5. ~IsPrimitive(design, i)
  <2> SUFFICES ASSUME IsPrimitive(design, i) PROVE FALSE
    OBVIOUS
  <2>1. Data(b) \cap (b.in \X b.out) = {}
    BY <1>2, <1>4 DEF KeepsConvention
  <2> HIDE DEF b
  <2> QED  BY <1>1, <1>2, <1>3, <2>1
<1>6. IsSingle(design, b, pr, B)
  <2>1. IsSingle(design, b, pr, B) \/ IsMulti(design, b, pr, B)
    BY <1>4, <1>5, OwnSummary DEF Done
  <2>2. CASE IsMulti(design, b, pr, B)
    <3>1. B.analysed
      BY <2>2, MultiPins
    <3>2. ~SingleClock(design, pr)
      BY <2>2 DEF IsMulti
    <3> QED  BY <1>4, <3>1, <3>2 DEF Analysed
  <2> QED  BY <2>1, <2>2
<1>7. p \in b.in \ DOMAIN pr
  BY <1>2 DEF PinRoots, ClockPins
<1>8. PICK clk : /\ DOMAIN B.ports = b.out /\ \A q \in b.out : B.ports[q] = clk
                 /\ DOMAIN B.inputs = b.in \ DOMAIN pr
                 /\ \A q \in b.in \ DOMAIN pr : B.inputs[q].clock = clk
  <2> HIDE DEF b, pr, B
  <2> QED  BY <1>6, SinglePins
<1>9. /\ o \in DOMAIN B.ports /\ B.ports[o] = clk
      /\ p \in DOMAIN B.inputs /\ B.inputs[p].clock = clk
  BY <1>3, <1>7, <1>8
<1>10. clk # None
  BY <1>1, <1>4, <1>9
<1>11. Launch(design, boundaries, a) = clk /\ IsSource(design, boundaries, a)
  BY <1>1, <1>4, <1>9 DEF Launch, IsSource
<1>12. Capture(design, boundaries, z) = clk
  BY <1>1, <1>9 DEF Capture
<1>13. IsSink(design, boundaries, z)
  BY <1>1, <1>4, <1>9, <1>10, <1>12 DEF IsSink
<1> QED  BY <1>10, <1>11, <1>12, <1>13

(* The pins of a way, those of its wires and of the blocks between them.   *)
LEMMA WayPins ==
    ASSUME NEW d, IsDesign(d), NEW r \in Ways(d), NEW m \in Nat \ {0},
           Alternates(d, r, m), NEW k \in 1..m
    PROVE  /\ <<r[2 * k - 1], r[2 * k]>> \in d.wire
           /\ r[2 * k - 1] \in TopRegisters(d) \cup OutPins(d)
           /\ r[2 * k] \in TopRegisters(d) \cup (InPins(d) \ DOMAIN d.clk)
           /\ r[2 * k - 1] \in Range(r) /\ r[2 * k] \in Range(r)
           /\ 2 * k - 1 \in 1..Len(r) - 1 /\ (2 * k - 1) + 1 = 2 * k
           /\ k < m => /\ Through(d, r[2 * k], r[2 * k + 1])
                       /\ 2 * k \in 2..Len(r) - 1
<1>1. Len(r) = 2 * m /\ r \in Seq(Pin(d))
  BY DEF Alternates, Ways
<1>2. <<r[2 * k - 1], r[2 * k]>> \in d.wire
  BY DEF Alternates
<1>3. /\ 2 * k - 1 \in 1..Len(r) - 1 /\ (2 * k - 1) + 1 = 2 * k
      /\ k < m => 2 * k \in 2..Len(r) - 1
  BY <1>1
<1>4. 2 * k - 1 \in DOMAIN r /\ 2 * k \in DOMAIN r
  BY <1>1
<1>5. r[2 * k - 1] \in Range(r) /\ r[2 * k] \in Range(r)
  BY <1>4 DEF Range
<1>6. k < m => Through(d, r[2 * k], r[2 * k + 1])
  BY DEF Alternates
<1>7. /\ r[2 * k - 1] \in TopRegisters(d) \cup OutPins(d)
      /\ r[2 * k] \in TopRegisters(d) \cup (InPins(d) \ DOMAIN d.clk)
  <2> DEFINE w == <<r[2 * k - 1], r[2 * k]>>
  <2>1. w[1] \in TopRegisters(d) \cup OutPins(d)
        /\ w[2] \in TopRegisters(d) \cup (InPins(d) \ DOMAIN d.clk)
    BY <1>2, WireEnds
  <2> QED  BY <2>1
<1> QED  BY <1>2, <1>3, <1>5, <1>6, <1>7

(* A path that nothing tells of: no crossing of known clocks on its wires, *)
(* no CDC-BBX on its instances, and no way it is known to be lost.         *)
LEMMA UnseenKeepsFamily ==
    ASSUME Done, NEW r \in Ways(design), NEW m \in Nat \ {0}, Alternates(design, r, m),
           NEW s \in LaunchedAt(design, r[1]), Clocked(s),
           \A n \in 1..Len(r) - 1 : ~Recorded(r[n], r[n + 1]),
           \A p \in Range(r) : p[1] \notin told,
           ~LeavesUntyped(r), ~ThroughManyClocks(r),
           NEW k \in 1..m
    PROVE  /\ IsSource(design, boundaries, r[2 * k - 1])
           /\ Launch(design, boundaries, r[2 * k - 1]) # None
           /\ ~Async(design, FlatClock(design, s), Launch(design, boundaries, r[2 * k - 1]))
<1> DEFINE Good(j) ==
               /\ IsSource(design, boundaries, r[2 * j - 1])
               /\ Launch(design, boundaries, r[2 * j - 1]) # None
               /\ ~Async(design, FlatClock(design, s), Launch(design, boundaries, r[2 * j - 1]))
           bad == {j \in Nat : j \in 1..m /\ ~Good(j)}
<1>1. IsDesign(design)
  BY DoneFacts
<1>2. ASSUME NEW j \in 1..m
      PROVE  /\ <<r[2 * j - 1], r[2 * j]>> \in design.wire
             /\ r[2 * j - 1] \in TopRegisters(design) \cup OutPins(design)
             /\ r[2 * j] \in TopRegisters(design) \cup (InPins(design) \ DOMAIN design.clk)
             /\ r[2 * j - 1] \in Range(r) /\ r[2 * j] \in Range(r)
             /\ ~Recorded(r[2 * j - 1], r[2 * j])
             /\ j < m => /\ Through(design, r[2 * j], r[2 * j + 1])
                         /\ 2 * j \in 2..Len(r) - 1
  <2>1. /\ 2 * j - 1 \in 1..Len(r) - 1 /\ (2 * j - 1) + 1 = 2 * j
    BY <1>1, WayPins
  <2>2. ~Recorded(r[2 * j - 1], r[2 * j])
    BY <2>1
  <2> QED  BY <1>1, <2>2, WayPins
<1>3. ASSUME NEW a \in Range(r), a[1] \in DOMAIN boundaries,
             a[2] \in DOMAIN boundaries[a[1]].ports
      PROVE  boundaries[a[1]].ports[a[2]] # None
  BY <1>3 DEF LeavesUntyped
<1>4. 1 \in 1..m /\ 2 * 1 - 1 = 1
  OBVIOUS
<1>5. Good(1)
  <2>1. /\ r[1] \in TopRegisters(design) \cup OutPins(design) /\ r[1] \in Range(r)
    BY <1>2, <1>4
  <2> QED  BY <1>3, <1>4, <2>1, RouteStarts
<1>6. ASSUME NEW j \in 1..m, j < m, Good(j)
      PROVE  Good(j + 1)
  <2> DEFINE a == r[2 * j - 1]
             z == r[2 * j]
             e == r[2 * j + 1]
             w == <<a, z>>
  <2>1. j + 1 \in 1..m /\ 2 * (j + 1) - 1 = 2 * j + 1
    BY <1>6
  <2>2. /\ w \in design.wire /\ ~Recorded(a, z) /\ z \in Range(r)
        /\ z \in TopRegisters(design) \cup (InPins(design) \ DOMAIN design.clk)
        /\ Through(design, z, e) /\ 2 * j \in 2..Len(r) - 1
    BY <1>2, <1>6
  <2>3. e \in TopRegisters(design) \cup OutPins(design) /\ e \in Range(r)
    BY <1>2, <2>1
  <2>4. Analysed(z[1]) => SingleClock(design, PinRoots(design, z[1]))
    <3>1. r[2 * j][1] = r[2 * j + 1][1]
      BY <2>2 DEF Through
    <3> QED  BY <2>2, <3>1 DEF ThroughManyClocks
  <2>5. z[1] \notin told
    BY <2>2
  <2> HIDE DEF a, z, e
  <2>6. /\ IsSink(design, boundaries, z) /\ IsSource(design, boundaries, e)
        /\ Launch(design, boundaries, e) # None
        /\ Launch(design, boundaries, e) = Capture(design, boundaries, z)
    BY <1>3, <2>2, <2>3, <2>4, <2>5, RoutePasses
  <2>7. /\ IsSource(design, boundaries, a) /\ Launch(design, boundaries, a) # None
        /\ ~Async(design, FlatClock(design, s), Launch(design, boundaries, a))
    BY <1>6 DEF a
  <2>8. w[1] = a /\ w[2] = z
    OBVIOUS
  <2> HIDE DEF w
  <2>9. ~Async(design, Launch(design, boundaries, a), Capture(design, boundaries, z))
    BY <2>2, <2>6, <2>7, <2>8, WireKeepsFamily
  <2>10. ~Async(design, FlatClock(design, s), Launch(design, boundaries, e))
    BY <2>6, <2>7, <2>9 DEF Async
  <2> QED  BY <2>1, <2>6, <2>10 DEF e
<1> HIDE DEF Good
<1>7. bad = {}
  <2> SUFFICES ASSUME bad # {} PROVE FALSE
    OBVIOUS
  <2>1. PICK n \in bad : \A j \in bad : n <= j
    BY LeastNat
  <2>2. n # 1 /\ n \in 1..m /\ ~Good(n)
    BY <1>5, <2>1
  <2>3. n - 1 \in 1..m /\ n - 1 < m /\ (n - 1) + 1 = n /\ ~(n <= n - 1) /\ n - 1 \in Nat
    BY <2>2
  <2>4. Good(n - 1)
    BY <2>1, <2>3
  <2> QED  BY <1>6, <2>2, <2>3, <2>4
<1>8. Good(k)
  BY <1>7
<1> QED  BY <1>8 DEF Good

(* Between registers: a path of asynchronous clocks is kept.               *)
LEMMA PathsAreKept ==
    ASSUME Done, NEW r \in Routes(design), NEW s \in LaunchedAt(design, r[1]),
           NEW t \in CapturedAt(design, r[Len(r)]), FlatAsync(design, s, t),
           ~ClockLost(s), ~ClockLost(t)
    PROVE  PathKept(r, t)
<1> SUFFICES ASSUME ~PathKept(r, t) PROVE FALSE
  OBVIOUS
<1>1. Clocked(s) /\ Clocked(t)
  BY DEF FlatAsync, Clocked
<1>2. IsDesign(design)
  BY DoneFacts
<1>3. r \in Ways(design)
  BY <1>2, RoutesAreWays
<1>4. PICK m \in Nat \ {0} : Alternates(design, r, m)
  BY <1>3 DEF Ways
<1>5. /\ \A n \in 1..Len(r) - 1 : ~Recorded(r[n], r[n + 1])
      /\ ~Accepted(t[1]) /\ \A p \in Range(r) : p[1] \notin told
      /\ ~LeavesUntyped(r) /\ ~ThroughManyClocks(r)
  BY DEF PathKept
<1>6. m \in 1..m /\ Len(r) = 2 * m
  BY <1>4 DEF Alternates
<1> DEFINE a == r[2 * m - 1]
           z == r[2 * m]
           w == <<a, z>>
<1>7. /\ IsSource(design, boundaries, a) /\ Launch(design, boundaries, a) # None
      /\ ~Async(design, FlatClock(design, s), Launch(design, boundaries, a))
  BY <1>1, <1>3, <1>4, <1>5, <1>6, UnseenKeepsFamily
<1>8. /\ w \in design.wire /\ z \in Range(r)
      /\ z \in TopRegisters(design) \cup (InPins(design) \ DOMAIN design.clk)
      /\ 2 * m - 1 \in 1..Len(r) - 1 /\ (2 * m - 1) + 1 = 2 * m
  BY <1>2, <1>3, <1>4, <1>6, WayPins
<1>9. ~Recorded(a, z)
  BY <1>5, <1>8
<1>10. t \in CapturedAt(design, z)
  BY <1>6
<1> HIDE DEF a, z
<1>11. /\ IsSink(design, boundaries, z)
       /\ ~Async(design, Capture(design, boundaries, z), FlatClock(design, t))
  BY <1>1, <1>5, <1>8, <1>10, RouteEnds
<1>12. w[1] = a /\ w[2] = z
  OBVIOUS
<1> HIDE DEF w
<1>13. ~Async(design, Launch(design, boundaries, a), Capture(design, boundaries, z))
  BY <1>7, <1>8, <1>9, <1>11, <1>12, WireKeepsFamily
<1> QED  BY <1>7, <1>11, <1>13 DEF FlatAsync, Async

(* Inside an instance.                                                     *)
LEMMA InsidesAreKept ==
    ASSUME Done, NEW i \in Insts(design), NEW s \in Flops(Body(design, i)),
           NEW t \in Flops(Body(design, i)), <<s, t>> \in Data(Body(design, i)),
           FlatAsync(design, <<i, s>>, <<i, t>>),
           ~ClockLost(<<i, s>>), ~ClockLost(<<i, t>>)
    PROVE  InsideKept(i, s, t)
<1> SUFFICES ASSUME ~InsideKept(i, s, t) PROVE FALSE
  OBVIOUS
<1> DEFINE b == Body(design, i)
           pr == PinRoots(design, i)
           B == boundaries[i]
           x == FlatClock(design, <<i, s>>)
           y == FlatClock(design, <<i, t>>)
<1>1. Clocked(<<i, s>>) /\ Clocked(<<i, t>>) /\ Async(design, x, y)
  BY DEF FlatAsync, Clocked
<1>2. /\ i \notin told /\ ~Accepted(i)
      /\ Analysed(i) => <<s, t>> \notin B.found
      /\ Analysed(i) => {x, y} \subseteq design.named
  BY DEF InsideKept, Renamed
<1>3. i \in DOMAIN boundaries
  BY <1>2, DoneFacts
<1>4. /\ x \in RootsOf(pr)
      /\ B.analysed => InnerClock(b, pr, s) = x
  BY <1>1, <1>3, BlockClocked
<1>5. /\ y \in RootsOf(pr)
      /\ B.analysed => InnerClock(b, pr, t) = y
  BY <1>1, <1>3, BlockClocked
<1>6. IsSingle(design, b, pr, B) \/ IsMulti(design, b, pr, B)
  BY <1>2, <1>3, OwnSummary DEF Done, Accepted
<1>7. CASE IsSingle(design, b, pr, B)
  <2>1. SingleClock(design, pr)
    BY <1>7 DEF IsSingle
  <2> HIDE DEF x, y, pr, b, B
  <2> QED  BY <1>1, <1>4, <1>5, <2>1, SameFamily
<1>8. CASE IsMulti(design, b, pr, B)
  <2>1. B.analysed /\ B.found = InnerCrossings(design, b, pr)
    <3>1. B = MultiClockSummary(design, b, pr)
      BY <1>8 DEF IsMulti
    <3> HIDE DEF b, pr, B
    <3> QED  BY <3>1 DEF MultiClockSummary
  <2>2. {x, y} \subseteq design.named
    BY <1>2, <1>3, <2>1 DEF Analysed
  <2>3. InnerClock(b, pr, s) = x /\ InnerClock(b, pr, t) = y
    BY <1>4, <1>5, <2>1
  <2>4. AsyncInside(design, InnerClock(b, pr, s), InnerClock(b, pr, t))
    <3> HIDE DEF x, y, b, pr
    <3> QED  BY <1>1, <2>2, <2>3 DEF AsyncInside
  <2>5. <<s, t>> \in Data(b) /\ s \in Flops(b) /\ t \in Flops(b)
    OBVIOUS
  <2> HIDE DEF b, pr, B
  <2>6. <<s, t>> \in InnerCrossings(design, b, pr)
    BY <2>4, <2>5 DEF InnerCrossings
  <2> QED  BY <1>2, <1>3, <2>1, <2>6 DEF Analysed, B
<1> QED  BY <1>6, <1>7, <1>8

(***************************************************************************)
(* A path between registers of asynchronous clocks, through, into, out of  *)
(* or inside instances, has a crossing on it or something told of it, or   *)
(* is one of the four losses the property names.                           *)
(***************************************************************************)
THEOREM NoPathIsSevered == Spec => []NothingSevered
<1>1. ComposeInv => NothingSevered
  <2> SUFFICES ASSUME Done PROVE NothingSevered
    BY DEF Done, NothingSevered
  <2>1. \A r \in Routes(design) :
        \A s \in LaunchedAt(design, r[1]), t \in CapturedAt(design, r[Len(r)]) :
            FlatAsync(design, s, t) => PathKept(r, t) \/ ClockLost(s) \/ ClockLost(t)
    BY PathsAreKept
  <2>2. \A i \in Insts(design) : \A s, t \in Flops(Body(design, i)) :
            /\ <<s, t>> \in Data(Body(design, i))
            /\ FlatAsync(design, <<i, s>>, <<i, t>>)
            => InsideKept(i, s, t) \/ ClockLost(<<i, s>>) \/ ClockLost(<<i, t>>)
    BY InsidesAreKept
  <2> QED  BY <2>1, <2>2 DEF NothingSevered
<1> QED  BY <1>1, Composes, PTL

(***************************************************************************)
(* For every design whose clocks carry the names of their ports, are_async *)
(* gives the same answers on both sides of a boundary: what is             *)
(* asynchronous inside an analysed block is found by its analysis          *)
(* (derive_sub_spec).                                                      *)
(***************************************************************************)
THEOREM SameInside == Spec => [](Root(design) \subseteq design.named => SameAnswerInside)
<1>1. ComposeInv => (Root(design) \subseteq design.named => SameAnswerInside)
  <2> SUFFICES ASSUME Done, Root(design) \subseteq design.named,
                      NEW i \in Insts(design), NEW s \in Flops(Body(design, i)),
                      NEW t \in Flops(Body(design, i)),
                      Analysed(i), <<s, t>> \in Data(Body(design, i)),
                      FlatAsync(design, <<i, s>>, <<i, t>>)
               PROVE  <<s, t>> \in boundaries[i].found
    BY DEF SameAnswerInside, Done
  <2> DEFINE b == Body(design, i)
             pr == PinRoots(design, i)
             B == boundaries[i]
             x == FlatClock(design, <<i, s>>)
             y == FlatClock(design, <<i, t>>)
  <2>1. i \in DOMAIN boundaries /\ B.analysed /\ IsDesign(design) /\ IsBody(b)
    BY OwnSummary DEF Done, Analysed
  <2>2. IsSingle(design, b, pr, B) \/ IsMulti(design, b, pr, B)
    <3>1. ~IsPrimitive(design, i)
      <4> SUFFICES ASSUME IsPrimitive(design, i) PROVE FALSE
        OBVIOUS
      <4>1. B = PrimitiveSummary(b, pr)  BY <2>1, OwnSummary DEF Done
      <4> QED  BY <2>1, <4>1 DEF PrimitiveSummary
    <3> QED  BY <2>1, <3>1, OwnSummary DEF Done
  <2>3. ASSUME NEW f \in Flops(b), FlatClock(design, <<i, f>>) # None
        PROVE  InnerClock(b, pr, f) = FlatClock(design, <<i, f>>) /\ InnerClock(b, pr, f) \in RootsOf(pr)
    <3>1. /\ b.flop[f].pin \in DOMAIN pr /\ InnerClock(b, pr, f) = pr[b.flop[f].pin]
          /\ InnerClock(b, pr, f) \in RootsOf(pr)
      <4> HIDE DEF b, pr, B
      <4> QED  BY <2>1, <2>2, AnalysedResolved DEF B
    <3>2. pr[b.flop[f].pin] # None  BY <3>1 DEF RootsOf
    <3> QED  BY <2>1, <2>3, <3>1, <3>2, PinTraced
  <2>4. x # None /\ y # None /\ Async(design, x, y)  BY DEF FlatAsync
  <2>5. /\ InnerClock(b, pr, s) = x /\ x \in RootsOf(pr)
        /\ InnerClock(b, pr, t) = y /\ y \in RootsOf(pr)
    BY <2>3, <2>4
  <2>6. CASE IsSingle(design, b, pr, B)
    <3>1. SingleClock(design, pr)  BY <2>6 DEF IsSingle
    <3> HIDE DEF x, y, pr, b, B
    <3> QED  BY <2>4, <2>5, <3>1, SameFamily
  <2>7. CASE IsMulti(design, b, pr, B)
    <3>1. B.found = InnerCrossings(design, b, pr)
      <4>1. B = MultiClockSummary(design, b, pr)  BY <2>7 DEF IsMulti
      <4> HIDE DEF b, pr, B
      <4> QED  BY <4>1 DEF MultiClockSummary
    <3>2. {x, y} \subseteq design.named
      <4>1. \A c \in RootsOf(pr) : c \in Root(design)
        <5>1. \A p \in DOMAIN pr : pr[p] = Trace(design, <<i, p>>)  BY DEF PinRoots
        <5> HIDE DEF pr
        <5> QED  BY <5>1 DEF RootsOf, Range, Trace
      <4> QED  BY <2>5, <4>1
    <3>3. AsyncInside(design, InnerClock(b, pr, s), InnerClock(b, pr, t))
      <4> HIDE DEF x, y, b, pr
      <4> QED  BY <2>4, <2>5, <3>2 DEF AsyncInside
    <3>4. <<s, t>> \in Data(b) /\ s \in Flops(b) /\ t \in Flops(b)  OBVIOUS
    <3> HIDE DEF b, pr, B
    <3>5. <<s, t>> \in InnerCrossings(design, b, pr)  BY <3>3, <3>4 DEF InnerCrossings
    <3> QED  BY <3>1, <3>5 DEF B
  <2> QED  BY <2>2, <2>6, <2>7
<1> QED  BY <1>1, Composes, PTL

----------------------------------------------------------------------------
(* Reconvergence                                                           *)

(* What an analysed summary says of a port is what its analysis proved.    *)
LEMMA AnalysedFacts ==
    ASSUME NEW d, NEW b, NEW pr, NEW s,
           IsSingle(d, b, pr, s) \/ IsMulti(d, b, pr, s), s.analysed
    PROVE  /\ s.reconvergent = ReconvergentInputs(b, pr)
           /\ \A p \in DOMAIN s.inputs :
                  /\ s.inputs[p].depth = SyncDepth(b, pr, p)
                  /\ s.inputs[p].user = UserSynchronised(b, p)
<1>1. ASSUME b.grey, NEW p, NEW clk
      PROVE  /\ InputFacts(b, pr, p, clk).depth = SyncDepth(b, pr, p)
             /\ InputFacts(b, pr, p, clk).user = UserSynchronised(b, p)
  BY <1>1 DEF InputFacts
<1>2. CASE IsSingle(d, b, pr, s)
  <2>1. PICK clk : s = OnClock(d, b, pr, clk)
    BY <1>2 DEF IsSingle
  <2>2. /\ s.analysed = b.grey
        /\ s.inputs = [q \in b.in \ DOMAIN pr |-> InputFacts(b, pr, q, clk)]
        /\ s.reconvergent = IF b.grey THEN ReconvergentInputs(b, pr) ELSE {}
    BY <2>1 DEF OnClock
  <2>3. b.grey
    BY <2>2
  <2> QED  BY <1>1, <2>2, <2>3
<1>3. CASE IsMulti(d, b, pr, s)
  <2>1. b.grey /\ s = MultiClockSummary(d, b, pr)
    BY <1>3 DEF IsMulti
  <2>2. /\ s.inputs = [p \in {q \in b.in \ DOMAIN pr : Heads(b, q) # {}} |->
                           InputFacts(b, pr, p, Only(Domains(b, pr, Heads(b, p))))]
        /\ s.reconvergent = ReconvergentInputs(b, pr)
    BY <2>1 DEF MultiClockSummary
  <2> QED  BY <1>1, <2>1, <2>2
<1> QED  BY <1>2, <1>3

(* A synchronizer of a port, told from its first register.                 *)
Fed(i, p, h, s) ==
    /\ p \in Body(design, i).in /\ h \in Flops(Body(design, i))
    /\ <<p, h>> \in Body(design, i).wire
    /\ s[1] = "top" /\ <<s, <<i, p>>>> \in design.wire
    /\ FlatAsync(design, s, <<i, h>>) /\ ~ClockLost(s) /\ ~ClockLost(<<i, h>>)

(* The port of a block that an asynchronous register of the parent feeds   *)
(* is entered by a crossing.                                               *)
LEMMA PortIsEntered ==
    ASSUME Done, NEW i \in Insts(design), NEW p, NEW h, NEW s, Fed(i, p, h, s),
           i \notin told, ~Accepted(i)
    PROVE  /\ p \in Entered(crossings, i) /\ p \in DOMAIN boundaries[i].inputs
           /\ <<i, p>> \notin DOMAIN design.clk
<1> DEFINE z == <<i, p>>
           t == <<i, h>>
           w == <<s, z>>
           x == [src |-> w[1], dst |-> w[2], from |-> Launch(design, boundaries, w[1]),
                 to |-> Capture(design, boundaries, w[2])]
<1>1. IsDesign(design) /\ i # "top"
  BY DoneFacts DEF IsDesign
<1>2. w \in design.wire /\ w[1] = s /\ w[2] = z /\ s[1] = "top"
  BY DEF Fed
<1>3. z \in TopRegisters(design) \cup (InPins(design) \ DOMAIN design.clk)
  <2> HIDE DEF w, z
  <2> QED  BY <1>1, <1>2, WireEnds
<1>4. z \notin DOMAIN design.clk
  BY <1>1, <1>3 DEF TopRegisters
<1>5. t \in CapturedAt(design, z)
  BY <1>1 DEF Fed, CapturedAt, Data
<1>6. Clocked(s) /\ Clocked(t) /\ Async(design, FlatClock(design, s), FlatClock(design, t))
  BY DEF Fed, FlatAsync, Clocked
<1>7. /\ IsSink(design, boundaries, z)
      /\ ~Async(design, Capture(design, boundaries, z), FlatClock(design, t))
  <2>1. z[1] \notin told /\ ~Accepted(t[1])
    OBVIOUS
  <2> HIDE DEF z, t
  <2> QED  BY <1>3, <1>5, <1>6, <2>1, RouteEnds
<1>8. /\ Trace(design, s) = FlatClock(design, s) /\ Trace(design, s) # None
  BY <1>2, <1>6, TopClocked
<1>9. /\ IsSource(design, boundaries, s)
      /\ Launch(design, boundaries, s) = FlatClock(design, s)
  BY <1>2, <1>8 DEF IsSource, Launch
<1>10. ~SameName(design, boundaries, s, z)
  <2> HIDE DEF z, t
  <2> QED  BY <1>6, <1>7, <1>9 DEF SameName, Async
<1>11. x \in crossings
  <2>1. /\ w \in design.wire /\ IsSource(design, boundaries, w[1])
        /\ IsSink(design, boundaries, w[2]) /\ ~SameName(design, boundaries, w[1], w[2])
    BY <1>2, <1>7, <1>9, <1>10
  <2>2. x \in CrossingsOf(design, boundaries)
    <3> HIDE DEF w
    <3> QED  BY <2>1 DEF CrossingsOf
  <2> HIDE DEF x
  <2> QED  BY <2>2, DoneFacts
<1>12. x.dst = z /\ z[1] = i /\ z[2] = p
  OBVIOUS
<1>13. p \in Entered(crossings, i)
  <2> HIDE DEF x, z
  <2>1. x.dst[1] = i /\ x.dst[2] = p
    BY <1>12
  <2> QED  BY <1>11, <2>1 DEF Entered
<1>14. p \in DOMAIN boundaries[i].inputs
  BY <1>1, <1>7 DEF IsSink
<1> QED  BY <1>4, <1>13, <1>14

(* Inside an analysed module the pins have the clocks they have in the     *)
(* flat design.                                                            *)
LEMMA SamePinsInside ==
    ASSUME Done, NEW i \in DOMAIN boundaries, boundaries[i].analysed, ~IsPrimitive(design, i),
           NEW f \in Flops(Body(design, i))
    PROVE  /\ InnerClock(Body(design, i), PinRoots(design, i), f) # None
           /\ InnerClock(Body(design, i), PinRoots(design, i), f)
              = InnerClock(Body(design, i), FlatPins(design, i), f)
<1> DEFINE b == Body(design, i)
           pr == PinRoots(design, i)
           pin == b.flop[f].pin
<1>1. /\ IsDesign(design) /\ i \in Insts(design) /\ IsBody(b)
      /\ IsSingle(design, b, pr, boundaries[i]) \/ IsMulti(design, b, pr, boundaries[i])
  BY OwnSummary DEF Done
<1>2. /\ InnerClock(b, pr, f) = pr[pin] /\ pin \in DOMAIN pr
      /\ InnerClock(b, pr, f) \in RootsOf(pr)
  <2>1. f \in Flops(b)
    OBVIOUS
  <2> HIDE DEF b, pr
  <2> QED  BY <1>1, <2>1, AnalysedResolved
<1>3. pr[pin] # None
  BY <1>2 DEF RootsOf
<1>4. b.flop[f].hops < MaxDepth
  BY <1>2, <1>3 DEF InnerClock
<1>5. /\ <<i, pin>> \in DOMAIN design.clk /\ RootOf(design, <<i, f>>) = pr[pin]
      /\ ClockPinOf(design, <<i, f>>) = <<i, pin>> /\ pin \in b.in
  <2>1. pin \in b.in
    BY <1>1 DEF IsBody
  <2> QED  BY <1>1, <1>2, <1>3, <2>1, PinTraced
<1>6. Origins(design)[<<i, pin>>].root = pr[pin]
  BY <1>5 DEF RootOf
<1>7. pin \in DOMAIN FlatPins(design, i) /\ FlatPins(design, i)[pin] = pr[pin]
  BY <1>5, <1>6 DEF FlatPins
<1>8. InnerClock(b, FlatPins(design, i), f) = pr[pin]
  BY <1>4, <1>7 DEF InnerClock
<1> QED  BY <1>2, <1>3, <1>8

(* The cone of a port with one head is what its chain is seen by.          *)
LEMMA ConeOfOne ==
    ASSUME NEW b, NEW pr, NEW p, NEW h, Heads(b, p) = {h},
           NEW c, c = Chain(b, pr, h)
    PROVE  Cone(b, pr, p) = Seers(b, c[Len(c)]) \ {<<"flop", f>> : f \in Range(c)}
<1> DEFINE chains == {Chain(b, pr, g) : g \in Heads(b, p)}
<1>1. chains = {c}
  OBVIOUS
<1>2. Cone(b, pr, p) = (UNION {Seers(b, a[Len(a)]) : a \in chains})
                       \ {<<"flop", f>> : f \in UNION {Range(a) : a \in chains}}
  BY DEF Cone
<1> HIDE DEF chains
<1>3. UNION {Seers(b, a[Len(a)]) : a \in chains} = Seers(b, c[Len(c)])
  BY <1>1
<1>4. UNION {Range(a) : a \in chains} = Range(c)
  BY <1>1
<1> QED  BY <1>2, <1>3, <1>4

(* A port CDC-001 does not complain of has one head, and a clock.          *)
LEMMA QuietPort ==
    ASSUME Done, NEW i \in DOMAIN boundaries, boundaries[i].analysed, ~IsPrimitive(design, i),
           NEW p \in DOMAIN boundaries[i].inputs, p \in Body(design, i).in,
           <<i, p>> \notin DOMAIN design.clk, ~Complains(i, p),
           NEW c \in Synchronizers(design, i, p)
    PROVE  LET b == Body(design, i)
               pr == PinRoots(design, i)
           IN  /\ p \in {q \in b.in \ DOMAIN pr : Only(Domains(b, pr, Heads(b, q))) # None}
               /\ Cone(b, pr, p) = Seers(b, c[Len(c)]) \ {<<"flop", f>> : f \in Range(c)}
<1> DEFINE b == Body(design, i)
           pr == PinRoots(design, i)
           B == boundaries[i]
           fp == FlatPins(design, i)
<1>1. /\ IsBody(b)
      /\ IsSingle(design, b, pr, B) \/ IsMulti(design, b, pr, B)
  BY OwnSummary DEF Done
<1>2. B.inputs[p].depth = SyncDepth(b, pr, p) /\ B.inputs[p].user = UserSynchronised(b, p)
  <2>1. B.analysed /\ p \in DOMAIN B.inputs
    OBVIOUS
  <2> HIDE DEF b, pr, B
  <2> QED  BY <1>1, <2>1, AnalysedFacts
<1>3. ~(SyncDepth(b, pr, p) < 2) \/ UserSynchronised(b, p)
  BY <1>2 DEF Complains
<1>4. \A f \in Flops(b) : InnerClock(b, pr, f) # None /\ InnerClock(b, pr, f) = InnerClock(b, fp, f)
  BY SamePinsInside
<1>5. PICK h \in Flops(b) : <<p, h>> \in b.wire /\ c = Chain(b, fp, h)
  BY DEF Synchronizers
<1>6. p \in b.in \ DOMAIN pr
  BY DEF PinRoots, ClockPins
<1> HIDE DEF b, pr, B, fp
<1>7. FirstStage(b, p) # None
  BY <1>1, <1>3 DEF SyncDepth, UserSynchronised, IsBody
<1>8. Heads(b, p) = {FirstStage(b, p)}
  BY <1>1, <1>7, HeadAlone
<1>9. Heads(b, p) = {h}
  BY <1>5, <1>8 DEF Heads, Feeds, Data
<1>10. c = Chain(b, pr, h)
  BY <1>1, <1>4, <1>5, ChainSame
<1>11. Cone(b, pr, p) = Seers(b, c[Len(c)]) \ {<<"flop", f>> : f \in Range(c)}
  BY <1>9, <1>10, ConeOfOne
<1>12. Only(Domains(b, pr, Heads(b, p))) # None
  <2>1. Domains(b, pr, Heads(b, p)) = {InnerClock(b, pr, h)}
    BY <1>9 DEF Domains
  <2>2. IsFiniteSet({InnerClock(b, pr, h)})
    BY FS_Singleton
  <2>3. Only({InnerClock(b, pr, h)}) = InnerClock(b, pr, h)
    BY <2>2, OnlyOf
  <2> QED  BY <1>4, <2>1, <2>3
<1> QED  BY <1>6, <1>11, <1>12 DEF b, pr

(* Two chains that meet are kept.                                          *)
Meeting(i, p, q, c, e, s) ==
    /\ c \in Synchronizers(design, i, p) /\ e \in Synchronizers(design, i, q)
    /\ p # q /\ Fed(i, p, c[1], s) /\ Fed(i, q, e[1], s)
    /\ Meet(Body(design, i), c, e)

(* A block with two such ports was analysed, and the pair is reported      *)
(* there or one of its ports is.                                           *)
LEMMA MeetingIsKept ==
    ASSUME Done, NEW i \in Insts(design), NEW p, NEW q, NEW c, NEW e, NEW s,
           Meeting(i, p, q, c, e, s), i \notin told, ~Accepted(i)
    PROVE  /\ Analysed(i)
           /\ \/ {p, q} \in boundaries[i].reconvergent
              \/ Complains(i, p) \/ Complains(i, q)
<1> DEFINE b == Body(design, i)
           pr == PinRoots(design, i)
           B == boundaries[i]
<1>1. /\ i \in DOMAIN boundaries /\ ~IsPrimitive(design, i)
  BY DoneFacts DEF Accepted
<1>2. /\ p \in Entered(crossings, i) /\ p \in DOMAIN B.inputs /\ <<i, p>> \notin DOMAIN design.clk
      /\ q \in Entered(crossings, i) /\ q \in DOMAIN B.inputs /\ <<i, q>> \notin DOMAIN design.clk
  BY PortIsEntered DEF Meeting
<1>3. B.analysed
  <2>1. IsDesign(design) /\ Unsafe(boundaries, crossings) = {}
        /\ crossings = CrossingsOf(design, boundaries)
    BY DoneFacts DEF Done, ComposeInv, PhaseInv
  <2>2. IsFiniteSet(Entered(crossings, i))
    BY <2>1, CrossingsFinite, EnteredFinite
  <2>3. Cardinality(Entered(crossings, i)) >= 2
    <3>1. {p, q} \subseteq Entered(crossings, i) /\ p # q
      BY <1>2 DEF Meeting
    <3>2. Cardinality({p, q}) = 2
      <4>1. IsFiniteSet({p}) /\ Cardinality({p}) = 1 /\ q \notin {p} /\ {p, q} = {p} \cup {q}
        BY <3>1, FS_Singleton
      <4> QED  BY <4>1, FS_AddElement
    <3>3. /\ Cardinality({p, q}) <= Cardinality(Entered(crossings, i))
      BY <2>2, <3>1, FS_Subset
    <3> QED  BY <3>2, <3>3
  <2>4. i \notin Unsafe(boundaries, crossings)
    BY <2>1
  <2> QED  BY <1>1, <2>3, <2>4 DEF Unsafe, Entered
<1>4. ASSUME ~Complains(i, p), ~Complains(i, q)
      PROVE  {p, q} \in B.reconvergent
  <2> DEFINE S == {n \in b.in \ DOMAIN pr : Only(Domains(b, pr, Heads(b, n))) # None}
  <2>1. p \in b.in /\ q \in b.in /\ c \in Synchronizers(design, i, p)
        /\ e \in Synchronizers(design, i, q) /\ p # q /\ Meet(b, c, e)
    BY DEF Meeting, Fed
  <2>2. /\ p \in S
        /\ Cone(b, pr, p) = Seers(b, c[Len(c)]) \ {<<"flop", f>> : f \in Range(c)}
    BY <1>1, <1>2, <1>3, <1>4, <2>1, QuietPort
  <2>3. /\ q \in S
        /\ Cone(b, pr, q) = Seers(b, e[Len(e)]) \ {<<"flop", f>> : f \in Range(e)}
    BY <1>1, <1>2, <1>3, <1>4, <2>1, QuietPort
  <2>4. B.reconvergent = ReconvergentInputs(b, pr)
    <3>1. IsSingle(design, b, pr, B) \/ IsMulti(design, b, pr, B)
      BY <1>1, OwnSummary DEF Done
    <3> HIDE DEF b, pr, B
    <3> QED  BY <1>3, <3>1, AnalysedFacts
  <2> HIDE DEF b, pr, B
  <2>5. PICK v : /\ v \in Seers(b, c[Len(c)]) /\ v \in Seers(b, e[Len(e)])
                 /\ v \notin {<<"flop", f>> : f \in Range(c) \cup Range(e)}
    BY <2>1 DEF Meet
  <2>6. v \in Cone(b, pr, p) /\ v \in Cone(b, pr, q)
    BY <2>2, <2>3, <2>5
  <2>7. {p, q} \in kSubset(2, S)
    <3>1. Cardinality({p, q}) = 2
      <4>1. IsFiniteSet({p}) /\ Cardinality({p}) = 1 /\ q \notin {p} /\ {p, q} = {p} \cup {q}
        BY <2>1, FS_Singleton
      <4> QED  BY <4>1, FS_AddElement
    <3> HIDE DEF S
    <3> QED  BY <2>2, <2>3, <3>1 DEF kSubset
  <2>8. \A m, n \in {p, q} : Cone(b, pr, m) \cap Cone(b, pr, n) # {}
    BY <2>6
  <2> QED  BY <2>4, <2>7, <2>8 DEF ReconvergentInputs
<1> QED  BY <1>1, <1>3, <1>4 DEF Analysed

(***************************************************************************)
(* Two synchronizer chains of a block that meet, fed by one register of    *)
(* the parent, are reported, or the block is told of.                      *)
(***************************************************************************)
THEOREM ReconvergenceIsKept == Spec => []ReconvergenceKept
<1>1. ComposeInv => ReconvergenceKept
  <2> SUFFICES ASSUME Done, NEW i \in Insts(design),
                      NEW p \in Body(design, i).in, NEW q \in Body(design, i).in,
                      NEW c \in Synchronizers(design, i, p),
                      NEW e \in Synchronizers(design, i, q), p # q,
                      NEW s, s[1] = "top",
                      {<<s, <<i, p>>>>, <<s, <<i, q>>>>} \subseteq design.wire,
                      FlatAsync(design, s, <<i, c[1]>>), FlatAsync(design, s, <<i, e[1]>>),
                      ~ClockLost(s), ~ClockLost(<<i, c[1]>>), ~ClockLost(<<i, e[1]>>),
                      Meet(Body(design, i), c, e), i \notin told, ~Accepted(i)
               PROVE  /\ Analysed(i)
                      /\ \/ {p, q} \in boundaries[i].reconvergent
                         \/ Complains(i, p) \/ Complains(i, q)
    BY DEF Done, ReconvergenceKept
  <2>1. IsBody(Body(design, i))
    BY DoneFacts DEF IsDesign
  <2>2. ASSUME NEW n, NEW a \in Synchronizers(design, i, n)
        PROVE  a[1] \in Flops(Body(design, i)) /\ <<n, a[1]>> \in Body(design, i).wire
    <3>1. PICK h \in Flops(Body(design, i)) :
              <<n, h>> \in Body(design, i).wire
              /\ a = Chain(Body(design, i), FlatPins(design, i), h)
      BY DEF Synchronizers
    <3>2. a[1] = h
      BY <2>1, <3>1, ChainStarts
    <3> QED  BY <3>1, <3>2
  <2>3. Fed(i, p, c[1], s) /\ Fed(i, q, e[1], s)
    BY <2>2 DEF Fed
  <2>4. Meeting(i, p, q, c, e, s)
    BY <2>3 DEF Meeting
  <2> QED  BY <2>4, MeetingIsKept
<1> QED  BY <1>1, Composes, PTL
=============================================================================
