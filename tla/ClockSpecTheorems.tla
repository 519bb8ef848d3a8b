-------------------------- MODULE ClockSpecTheorems --------------------------
(***************************************************************************)
(* The clock relations, proved: whatever the commands of a file and the    *)
(* order they are read in, a walk up the master chain ends at a clock      *)
(* without a master or in a cycle that is reported, and the relations ask  *)
(* nothing but where it ends.                                              *)
(***************************************************************************)
EXTENDS ClockSpec, Induction, FiniteSetTheorems

Value == Name \cup {Unconstrained, None}

(* What the walks need of the clocks.  A clock that is not generated has   *)
(* no master (_handle_create_clock), so no walk stops at one early.        *)
ClocksInv ==
    /\ clocks \in Seq(Clock)
    /\ \A i \in DOMAIN clocks : clocks[i].master # None => clocks[i].is_generated

(* The groups of a statement are in an order, so that there is a first.    *)
GroupsInv == \A g \in async_groups \cup exclusive_groups : DOMAIN g \subseteq Nat \ {0}

(* No warning of the handlers reads like one about the clock graph, and     *)
(* what validate_clock_graph has said of the clocks is all there is to say. *)
GraphKinds == {"cycle", "unknown master"}
ToldInv ==
    /\ stage # "done" => \A w \in partial_warnings : w[1] \notin GraphKinds
    /\ stage = "done" => /\ {w[2] : w \in Complaints("cycle")} = Cycles
                         /\ {w[2] : w \in Complaints("unknown master")} = UnknownMasters

(* A pin is at a clock there is; where the clock no longer says so, it has *)
(* been declared again, and that was told.                                 *)
PinsInv ==
    /\ pin_clocks \in [Pin -> Name \cup {None}]
    /\ \A p \in Pin : pin_clocks[p] # None => pin_clocks[p] \in Declared
    /\ \A p \in Pin : \A i \in DOMAIN clocks : clocks[i].name = pin_clocks[p] =>
          p \in clocks[i].pins \/ <<"duplicate", pin_clocks[p]>> \in partial_warnings
    /\ \A i \in DOMAIN clocks : \A p \in clocks[i].pins : pin_clocks[p] # None

IInv == unread \subseteq Command /\ ClocksInv /\ GroupsInv /\ ToldInv /\ PinsInv
------------------------------------------------------------------------------
(* The clocks are finitely many, and each is what its name looks up.       *)
LEMMA ClockNames ==
    ASSUME clocks \in Seq(Clock)
    PROVE  /\ Declared \subseteq Name
           /\ IsFiniteSet(Declared) /\ Cardinality(Declared) \in Nat
           /\ \A n \in Declared : \E i \in DOMAIN clocks : ClockOf(n) = clocks[i] /\ clocks[i].name = n
           /\ Masters \in [Value -> Value]
           /\ \A n \in Value : Masters[n] # None => n \in Declared
           /\ \A n \in Declared : Masters[n] = ClockOf(n).master /\ Masters[n] \in Name \cup {None}
  <1>1. \A i \in DOMAIN clocks : clocks[i] \in Clock  OBVIOUS
  <1>2. Declared \subseteq Name  BY <1>1 DEF Declared, Clock
  <1>3. IsFiniteSet(Declared) /\ Cardinality(Declared) \in Nat
    <2> DEFINE names == [i \in 1..Len(clocks) |-> clocks[i].name]
    <2>1. names \in Surjection(1..Len(clocks), Declared)
      BY DEF Surjection, Declared
    <2>2. IsFiniteSet(1..Len(clocks))  BY FS_Interval
    <2> QED  BY <2>1, <2>2, FS_Surjection, FS_CardinalityType
  <1>4. \A n \in Declared : \E i \in DOMAIN clocks : ClockOf(n) = clocks[i] /\ clocks[i].name = n
    BY DEF Declared, ClockOf
  <1>5. \A n \in Declared : ClockOf(n).master \in Name \cup {None}
    BY <1>1, <1>4 DEF Clock
  <1>6. \A n \in Value : Masters[n] = IF n \in Declared THEN ClockOf(n).master ELSE None
    BY DEF Masters, Value
  <1>7. Masters \in [Value -> Value]
    BY <1>5, <1>6 DEF Masters, Value
  <1>8. \A n \in Declared : n \in Value  BY <1>2 DEF Value
  <1> QED  BY <1>2, <1>3, <1>4, <1>5, <1>6, <1>7, <1>8

(* The equations of a walk up the master chain.                            *)
LEMMA ClimbSteps ==
    ASSUME clocks \in Seq(Clock), NEW n \in Value
    PROVE  LET at == Climb(n)
               top == Cardinality(Declared)
           IN  /\ top \in Nat
               /\ at \in [0..top -> Value]
               /\ at[0] = n
               /\ \A k \in 1..top : k - 1 \in 0..top /\ at[k] = Masters[at[k - 1]]
  <1> DEFINE top == Cardinality(Declared)
             at[k \in 0..top] == IF k = 0 THEN n ELSE Masters[at[k - 1]]
  <1>1. top \in Nat /\ Masters \in [Value -> Value]  BY ClockNames
  <1>2. Climb(n) = at  BY DEF Climb
  <1>3. PICK f \in [0..top -> Value] : Recurs(f, n, Masters, 0, top)
    <2> HIDE DEF top
    <2> QED  BY <1>1, RecursionExists
  <1>4. f = [k \in 0..top |-> IF k = 0 THEN n ELSE Masters[f[k - 1]]]
    BY <1>3 DEF Recurs
  <1>5. at = [k \in 0..top |-> IF k = 0 THEN n ELSE Masters[at[k - 1]]]
    BY <1>4
  <1> HIDE DEF at, top
  <1>6. 0 \in 0..top /\ at[0] = n  BY <1>1, <1>5
  <1>7. \A k \in 1..top : k - 1 \in 0..top /\ at[k] = Masters[at[k - 1]]
    BY <1>1, <1>5
  <1>8. \A k \in 0..top : at[k] \in Value
    <2> DEFINE bad == {k \in Nat : k \in 0..top /\ at[k] \notin Value}
    <2> SUFFICES ASSUME bad # {} PROVE FALSE
      OBVIOUS
    <2>1. PICK k \in bad : \A i \in bad : k <= i  BY LeastNat
    <2>2. k # 0  BY <1>6, <2>1
    <2>3. k - 1 \in 0..top /\ k - 1 \in Nat /\ ~(k <= k - 1) /\ k \in 1..top  BY <1>1, <2>1, <2>2
    <2>4. at[k - 1] \in Value  BY <2>1, <2>3
    <2> QED  BY <1>1, <1>7, <2>1, <2>3, <2>4
  <1>9. at \in [0..top -> Value]  BY <1>5, <1>8
  <1> QED  BY <1>1, <1>2, <1>6, <1>7, <1>9 DEF top

LEMMA FirstIsLeast ==
    ASSUME NEW ks \in SUBSET Nat, ks # {}
    PROVE  First(ks) \in ks /\ \A j \in ks : First(ks) <= j
  <1>1. \E k \in ks : \A j \in ks : k <= j  BY LeastNat
  <1> QED  BY <1>1 DEF First

(* The steps at which the walk of resolve stops.                           *)
Stops(at) == {k \in DOMAIN at : Masters[at[k]] = None \/ MetBefore(at, k)}

(* A walk stops, because there are no more names to meet than there are    *)
(* clocks; before it stops it meets declared clocks, no one twice.         *)
LEMMA WalkEnds ==
    ASSUME clocks \in Seq(Clock), NEW n \in Value
    PROVE  LET at == Climb(n)
               last == First(Stops(at))
           IN  /\ last \in 0..Cardinality(Declared) /\ last \in Stops(at)
               /\ \A k \in Stops(at) : last <= k
               /\ resolve(n) = at[last]
               /\ \A j \in 0..(last - 1) :
                     /\ j \in 0..Cardinality(Declared)
                     /\ at[j] \in Declared /\ Masters[at[j]] # None /\ at[j + 1] = Masters[at[j]]
                     /\ \A i \in 0..(last - 1) : at[i] = at[j] => i = j
  <1> DEFINE top == Cardinality(Declared)
             at == Climb(n)
             last == First(Stops(at))
  <1>1. /\ top \in Nat /\ at \in [0..top -> Value]
        /\ \A k \in 1..top : k - 1 \in 0..top /\ at[k] = Masters[at[k - 1]]
    BY ClimbSteps
  <1>2. /\ IsFiniteSet(Declared)
        /\ \A c \in Value : Masters[c] # None => c \in Declared
    BY ClockNames
  <1>3. resolve(n) = at[last]  BY DEF resolve, Stops
  <1> HIDE DEF at
  <1>4. Stops(at) # {}
    <2> SUFFICES ASSUME Stops(at) = {} PROVE FALSE
      OBVIOUS
    <2>1. \A k \in 0..top : Masters[at[k]] # None /\ ~MetBefore(at, k)  BY <1>1 DEF Stops
    <2>2. at \in [0..top -> Declared]  BY <1>1, <1>2, <2>1
    <2>3. IsFiniteSet(0..top) /\ Cardinality(0..top) = top + 1  BY <1>1, FS_Interval
    <2>4. PICK x, y \in 0..top : x # y /\ at[x] = at[y]
      <3>1. Cardinality(Declared) < Cardinality(0..top)  BY <1>1, <2>3
      <3> DEFINE steps == 0..top
      <3>2. /\ IsFiniteSet(steps) /\ at \in [steps -> Declared]
            /\ Cardinality(Declared) < Cardinality(steps)
        BY <2>2, <2>3, <3>1
      <3> HIDE DEF steps
      <3>3. \E x, y \in steps : x # y /\ at[x] = at[y]  BY <1>2, <3>2, FS_PigeonHole
      <3> QED  BY <3>3 DEF steps
    <2>5. CASE x < y
      <3>1. x \in 0..(y - 1)  BY <1>1, <2>5
      <3> QED  BY <2>1, <2>4, <3>1 DEF MetBefore
    <2>6. CASE y < x
      <3>1. y \in 0..(x - 1)  BY <1>1, <2>6
      <3> QED  BY <2>1, <2>4, <3>1 DEF MetBefore
    <2> QED  BY <1>1, <2>4, <2>5, <2>6
  <1>5. Stops(at) \in SUBSET Nat /\ Stops(at) \subseteq 0..top  BY <1>1 DEF Stops
  <1>6. last \in Stops(at) /\ \A k \in Stops(at) : last <= k  BY <1>4, <1>5, FirstIsLeast
  <1> HIDE DEF last
  <1>7. last \in 0..top  BY <1>5, <1>6
  <1>8. ASSUME NEW j \in 0..(last - 1)
        PROVE  /\ j \in 0..top
               /\ at[j] \in Declared /\ Masters[at[j]] # None /\ at[j + 1] = Masters[at[j]]
    <2>1. j \in 0..top /\ j + 1 \in 1..top /\ (j + 1) - 1 = j /\ ~(last <= j)  BY <1>1, <1>7
    <2>2. Masters[at[j]] # None  BY <1>1, <1>6, <2>1 DEF Stops
    <2>3. at[j + 1] = Masters[at[j]]
      <3>1. at[j + 1] = Masters[at[(j + 1) - 1]]  BY <1>1, <2>1
      <3> QED  BY <2>1, <3>1
    <2> QED  BY <1>1, <1>2, <2>1, <2>2, <2>3
  <1>9. ASSUME NEW j \in 0..(last - 1), NEW i \in 0..(last - 1), at[i] = at[j], i < j PROVE FALSE
    <2>1. i \in 0..(j - 1)  BY <1>7, <1>9
    <2>2. j \in 0..top /\ ~(last <= j)  BY <1>1, <1>7
    <2>3. j \in Stops(at)  BY <1>1, <1>9, <2>1, <2>2 DEF Stops, MetBefore
    <2> QED  BY <1>6, <2>2, <2>3
  <1>10. ASSUME NEW j \in 0..(last - 1), NEW i \in 0..(last - 1), at[i] = at[j] PROVE i = j
    <2>1. ~(i < j) /\ ~(j < i)  BY <1>9, <1>10
    <2> QED  BY <1>7, <2>1
  <1> QED  BY <1>3, <1>6, <1>7, <1>8, <1>10 DEF at, last
------------------------------------------------------------------------------
LEMMA DerivesType ==
    ASSUME clocks \in Seq(Clock)
    PROVE  /\ Derives \in [Name -> SUBSET Name]
           /\ \A x \in Name : Masters[x] \in Name \cup {None}
           /\ \A x \in Name : \A y \in Derives[x] : y = Masters[x] /\ y # None
           /\ \A x \in Name : Masters[x] # None => Masters[x] \in Derives[x]
  <1>1. ASSUME NEW x \in Name PROVE Masters[x] \in Name \cup {None}
    <2>1. x \in Value  BY DEF Value
    <2>2. CASE Masters[x] = None  BY <2>2
    <2>3. CASE Masters[x] # None  BY <2>1, <2>3, ClockNames
    <2> QED  BY <2>2, <2>3
  <1> QED  BY <1>1 DEF Derives

(* The walk of resolve meets what a clock is derived from, and nothing else *)
(* is derived from.                                                         *)
LEMMA LineageIsTheWalk ==
    ASSUME clocks \in Seq(Clock), NEW n \in Name
    PROVE  LET at == Climb(n)
               last == First(Stops(at))
           IN  /\ Lineage(n) = {at[j] : j \in 0..last}
               /\ Lineage(n) \subseteq Name
               /\ \A x \in Lineage(n) : Derives[x] \subseteq Lineage(n)
  <1> DEFINE top == Cardinality(Declared)
             at == Climb(n)
             last == First(Stops(at))
             walk == {at[j] : j \in 0..last}
  <1>0. n \in Value /\ None \notin Name  BY SentinelAssumption DEF Value
  <1>1. top \in Nat /\ at[0] = n /\ DOMAIN at = 0..top  BY <1>0, ClimbSteps
  <1>2. /\ last \in 0..top /\ last \in Stops(at)
        /\ \A j \in 0..(last - 1) : /\ Masters[at[j]] # None /\ at[j + 1] = Masters[at[j]]
                                    /\ at[j] \in Declared
    BY <1>0, WalkEnds
  <1>3. Declared \subseteq Name  BY ClockNames
  <1>4. /\ Derives \in [Name -> SUBSET Name]
        /\ \A x \in Name : Masters[x] \in Name \cup {None}
        /\ \A x \in Name : \A y \in Derives[x] : y = Masters[x] /\ y # None
        /\ \A x \in Name : Masters[x] # None => Masters[x] \in Derives[x]
    BY DerivesType
  <1> HIDE DEF at, last
  <1>5. ASSUME NEW j \in 0..last PROVE at[j] \in Name
    <2>1. CASE j = 0  BY <1>1, <2>1
    <2>2. CASE j # 0
      <3>1. j - 1 \in 0..(last - 1) /\ (j - 1) + 1 = j  BY <1>1, <1>2, <2>2
      <3>2. at[j - 1] \in Name  BY <1>2, <1>3, <3>1
      <3>3. at[j] = Masters[at[j - 1]] /\ Masters[at[j - 1]] # None
        <4>1. at[(j - 1) + 1] = Masters[at[j - 1]]  BY <1>2, <3>1
        <4> QED  BY <1>2, <3>1, <4>1
      <3> QED  BY <1>4, <3>2, <3>3
    <2> QED  BY <2>1, <2>2
  <1>6. walk \in SUBSET Name /\ n \in walk
    <2>1. 0 \in 0..last  BY <1>1, <1>2
    <2> QED  BY <1>1, <1>5, <2>1
  <1>7. ASSUME NEW x \in walk, NEW y \in Derives[x] PROVE y \in walk
    <2>1. PICK j \in 0..last : x = at[j]  OBVIOUS
    <2>2. y = Masters[x] /\ y # None  BY <1>4, <1>6
    <2>3. ASSUME NEW i \in 0..(last - 1), x = at[i] PROVE y \in walk
      <3>1. i + 1 \in 0..last  BY <1>1, <1>2
      <3>2. y = at[i + 1]  BY <1>2, <2>2, <2>3
      <3> QED  BY <3>1, <3>2
    <2>4. CASE j = last
      <3>1. MetBefore(at, last)  BY <1>2, <2>1, <2>2, <2>4 DEF Stops
      <3> QED  BY <2>1, <2>3, <2>4, <3>1 DEF MetBefore
    <2>5. CASE j # last
      <3>1. j \in 0..(last - 1)  BY <1>1, <1>2, <2>5
      <3> QED  BY <2>1, <2>3, <3>1
    <2> QED  BY <2>4, <2>5
  <1>8. Lineage(n) \subseteq walk
    <2>1. {n} \subseteq walk /\ {n} \in SUBSET Name /\ \A x \in walk : Derives[x] \subseteq walk
      BY <1>6, <1>7
    <2> HIDE DEF walk
    <2>2. Within(Derives, {n}, top) \subseteq walk  BY <1>1, <1>4, <1>6, <2>1, WithinStays
    <2> QED  BY <2>2 DEF Lineage
  <1>9. ASSUME NEW j \in 0..last PROVE at[j] \in Lineage(n)
    <2> DEFINE bad == {m \in Nat : m \in 0..last /\ at[m] \notin Within(Derives, {n}, m)}
    <2>1. {n} \in SUBSET Name  OBVIOUS
    <2>2. bad = {}
      <3> SUFFICES ASSUME bad # {} PROVE FALSE
        OBVIOUS
      <3>1. PICK m \in bad : \A i \in bad : m <= i  BY LeastNat
      <3>2. m # 0
        <4>1. Within(Derives, {n}, 0) = {n}  BY <1>4, <2>1, WithinSteps
        <4> QED  BY <1>1, <3>1, <4>1
      <3>3. PICK k \in Nat : m = k + 1 /\ ~(m <= k) /\ k \in 0..(last - 1) /\ k \in 0..last
        <4>1. m - 1 \in Nat /\ m = (m - 1) + 1 /\ ~(m <= m - 1) /\ m - 1 \in 0..(last - 1) /\ m - 1 \in 0..last
          BY <1>1, <1>2, <3>1, <3>2
        <4> QED  BY <4>1
      <3>4. at[k] \in Within(Derives, {n}, k)  BY <3>1, <3>3
      <3>5. at[k] \in Name /\ at[k + 1] \in Derives[at[k]]
        BY <1>2, <1>3, <1>4, <3>3
      <3>6. Within(Derives, {n}, k + 1) =
                Within(Derives, {n}, k) \cup UNION {Derives[y] : y \in Within(Derives, {n}, k)}
        BY <1>4, <2>1, WithinSteps
      <3>7. at[k + 1] \in Within(Derives, {n}, k + 1)  BY <3>4, <3>5, <3>6
      <3> QED  BY <3>1, <3>3, <3>7
    <2>3. j \in Nat /\ j <= top  BY <1>1, <1>2
    <2>4. Within(Derives, {n}, j) \subseteq Within(Derives, {n}, top)
      BY <1>1, <1>4, <2>1, <2>3, WithinGrows
    <2>5. at[j] \in Within(Derives, {n}, j)  BY <2>2, <2>3
    <2> QED  BY <2>4, <2>5 DEF Lineage
  <1>10. Lineage(n) = walk  BY <1>8, <1>9
  <1> QED  BY <1>6, <1>7, <1>10 DEF at, last

LEMMA LineageShrinks ==
    ASSUME clocks \in Seq(Clock), NEW n \in Name, NEW m \in Lineage(n)
    PROVE  Lineage(m) \subseteq Lineage(n)
  <1>1. /\ Lineage(n) \in SUBSET Name
        /\ \A x \in Lineage(n) : Derives[x] \subseteq Lineage(n)
    BY LineageIsTheWalk
  <1>2. Derives \in [Name -> SUBSET Name]  BY DerivesType
  <1>3. Cardinality(Declared) \in Nat  BY ClockNames
  <1>4. m \in Name /\ {m} \in SUBSET Name /\ {m} \subseteq Lineage(n)  BY <1>1
  <1>5. Within(Derives, {m}, Cardinality(Declared)) \subseteq Lineage(n)
    BY <1>1, <1>2, <1>3, <1>4, WithinStays
  <1> QED  BY <1>5 DEF Lineage

(* A clock resolves to one it is derived from, and of those to the one      *)
(* without a master, if there is one.                                       *)
LEMMA ResolveIsDerived ==
    ASSUME clocks \in Seq(Clock), NEW n \in Name
    PROVE  /\ n \in Lineage(n) /\ resolve(n) \in Lineage(n)
           /\ \A x \in Lineage(n) : Masters[x] = None => x = resolve(n)
  <1> DEFINE at == Climb(n)
             last == First(Stops(at))
  <1>0. n \in Value  BY DEF Value
  <1>1. Lineage(n) = {at[j] : j \in 0..last}  BY LineageIsTheWalk
  <1>2. /\ last \in 0..Cardinality(Declared) /\ resolve(n) = at[last]
        /\ \A j \in 0..(last - 1) : Masters[at[j]] # None
    BY <1>0, WalkEnds
  <1>3. Cardinality(Declared) \in Nat /\ at[0] = n  BY <1>0, ClimbSteps
  <1> HIDE DEF at, last
  <1>4. 0 \in 0..last /\ last \in 0..last  BY <1>2, <1>3
  <1>5. ASSUME NEW x \in Lineage(n), Masters[x] = None PROVE x = resolve(n)
    <2>1. PICK j \in 0..last : x = at[j]  BY <1>1
    <2>2. j \notin 0..(last - 1)  BY <1>2, <1>5, <2>1
    <2>3. j = last  BY <1>2, <1>3, <2>2
    <2> QED  BY <1>2, <2>1, <2>3
  <1> QED  BY <1>1, <1>2, <1>3, <1>4, <1>5

(* A walk that does not end at a clock without a master is back at a clock  *)
(* it met, and validate_clock_graph sees that at the same step.             *)
LEMMA EndlessWalkIsSeen ==
    ASSUME ClocksInv, NEW n \in Name, Masters[resolve(n)] # None
    PROVE  LET at == Climb(n)
               last == First(Stops(at))
           IN  /\ last \in Back(at) /\ First(Back(at)) = last
               /\ CycleFrom(n) # {} /\ CycleFrom(n) \in Cycles
  <1> DEFINE at == Climb(n)
             last == First(Stops(at))
             back == First(Back(at))
  <1>0. n \in Value /\ clocks \in Seq(Clock) /\ None \notin Name
    BY SentinelAssumption DEF Value, ClocksInv
  <1>1. /\ last \in 0..Cardinality(Declared) /\ last \in Stops(at) /\ resolve(n) = at[last]
        /\ \A k \in Stops(at) : last <= k
        /\ \A j \in 0..(last - 1) : at[j] \in Declared /\ Masters[at[j]] # None
    BY <1>0, WalkEnds
  <1>2. Cardinality(Declared) \in Nat /\ at[0] = n /\ DOMAIN at = 0..Cardinality(Declared)
    BY <1>0, ClimbSteps
  <1>3. ASSUME NEW c \in Declared, Masters[c] # None PROVE ClockOf(c).is_generated
    <2>1. Masters[c] = ClockOf(c).master  BY <1>0, ClockNames
    <2>2. PICK i \in DOMAIN clocks : ClockOf(c) = clocks[i]  BY <1>0, ClockNames
    <2> QED  BY <1>3, <2>1, <2>2 DEF ClocksInv
  <1>4. at[last] \in Name
    <2>1. at[last] \in Lineage(n)  BY <1>0, <1>1, ResolveIsDerived
    <2> QED  BY <1>0, <2>1, LineageIsTheWalk
  <1>5. MetBefore(at, last)  BY <1>1 DEF Stops
  <1> HIDE DEF at, last
  <1>6. last \in Back(at)
    BY <1>0, <1>1, <1>2, <1>3, <1>4, <1>5 DEF Back
  <1>7. Back(at) \in SUBSET Nat /\ Back(at) \subseteq Stops(at)
    BY <1>2 DEF Back, Stops
  <1>8. back \in Back(at) /\ back <= last  BY <1>6, <1>7, FirstIsLeast
  <1>9. back = last
    <2>1. last <= back  BY <1>1, <1>7, <1>8
    <2> QED  BY <1>1, <1>2, <1>7, <1>8, <2>1
  <1>10. PICK i \in 0..(last - 1) : at[i] = at[last]  BY <1>5 DEF MetBefore
  <1>11. CycleFrom(n) = {at[j] : j \in {i_1 \in 0..(back - 1) : \E h \in 0..i_1 : at[h] = at[back]}}
    BY <1>6 DEF CycleFrom, at
  <1>12. i \in 0..i /\ i \in 0..(back - 1) /\ at[i] = at[back]  BY <1>1, <1>2, <1>9, <1>10
  <1>13. at[i] \in CycleFrom(n)  BY <1>11, <1>12
  <1>14. 0 \in 0..(last - 1)  BY <1>1, <1>2, <1>10
  <1>15. n \in Declared /\ Masters[n] # None  BY <1>1, <1>2, <1>14
  <1>16. CycleFrom(n) \in Cycles  BY <1>3, <1>13, <1>15 DEF Cycles
  <1> QED  BY <1>6, <1>9, <1>13, <1>16 DEF at, last

(* Without a cycle, all that a clock is derived from has one root.          *)
LEMMA OneRoot ==
    ASSUME ClocksInv, Cycles = {}, NEW n \in Name
    PROVE  /\ Masters[resolve(n)] = None
           /\ \A m \in Lineage(n) : resolve(m) = resolve(n)
  <1>0. clocks \in Seq(Clock)  BY DEF ClocksInv
  <1>1. \A c \in Name : Masters[resolve(c)] = None  BY EndlessWalkIsSeen
  <1>2. ASSUME NEW m \in Lineage(n) PROVE resolve(m) = resolve(n)
    <2>1. m \in Name  BY <1>0, LineageIsTheWalk
    <2>2. resolve(m) \in Lineage(n)  BY <1>0, <2>1, ResolveIsDerived, LineageShrinks
    <2> QED  BY <1>0, <1>1, <2>1, <2>2, ResolveIsDerived
  <1> QED  BY <1>1, <1>2

(* What the walk of validate_clock_graph cuts out is a cycle, whole and     *)
(* without the way into it.                                                 *)
LEMMA CycleIsLineage ==
    ASSUME clocks \in Seq(Clock), NEW n \in Name, CycleFrom(n) # {}
    PROVE  LET m == Climb(n)[First(Back(Climb(n)))]
           IN  /\ CycleFrom(n) = Lineage(m)
               /\ m \in Declared
               /\ \E c \in Declared : Masters[c] = m /\ c \in Lineage(m)
  <1> DEFINE at == Climb(n)
             top == Cardinality(Declared)
             back == First(Back(at))
             m == at[back]
             part == {i \in 0..(back - 1) : \E h \in 0..i : at[h] = m}
             cycle == {at[j] : j \in part}
  <1>0. n \in Value /\ None \notin Name  BY SentinelAssumption DEF Value
  <1>1. /\ top \in Nat /\ DOMAIN at = 0..top /\ at \in [0..top -> Value] /\ at[0] = n
        /\ \A k \in 1..top : k - 1 \in 0..top /\ at[k] = Masters[at[k - 1]]
    BY <1>0, ClimbSteps
  <1>2. Back(at) # {} /\ CycleFrom(n) = cycle  BY DEF CycleFrom
  <1>3. /\ Declared \subseteq Name
        /\ \A c \in Value : Masters[c] # None => c \in Declared
    BY ClockNames
  <1>4. /\ Derives \in [Name -> SUBSET Name]
        /\ \A x \in Name : Masters[x] \in Name \cup {None}
        /\ \A x \in Name : \A y \in Derives[x] : y = Masters[x] /\ y # None
        /\ \A x \in Name : Masters[x] # None => Masters[x] \in Derives[x]
    BY DerivesType
  <1>5. back \in Back(at)
    <2>1. Back(at) \in SUBSET Nat  BY <1>1 DEF Back
    <2> QED  BY <1>2, <2>1, FirstIsLeast
  <1> HIDE DEF at, top, back
  <1>6. back \in 0..top /\ m # None /\ MetBefore(at, back)
    BY <1>1, <1>5 DEF Back
  <1>7. PICK i \in 0..(back - 1) : at[i] = m  BY <1>6 DEF MetBefore
  <1>8. ASSUME NEW j \in 0..(back - 1)
        PROVE  at[j + 1] = Masters[at[j]] /\ j + 1 \in 0..back /\ j \in 0..top /\ j + 1 \in 1..top
    <2>1. j + 1 \in 0..back /\ j \in 0..top /\ j + 1 \in 1..top /\ (j + 1) - 1 = j  BY <1>1, <1>6
    <2>2. at[j + 1] = Masters[at[(j + 1) - 1]]  BY <1>1, <2>1
    <2> QED  BY <2>1, <2>2
  <1>9. Masters[None] = None  BY <1>0, <1>3 DEF Value
  <1>10. \A j \in 0..back : at[j] # None
    <2> DEFINE bad == {d \in Nat : d \in 0..back /\ at[back - d] = None}
    <2> SUFFICES bad = {}
      <3> SUFFICES ASSUME NEW j \in 0..back, at[j] = None PROVE FALSE
        OBVIOUS
      <3>1. back - j \in Nat /\ back - j \in 0..back /\ back - (back - j) = j  BY <1>1, <1>6
      <3>2. back - j \in bad  BY <3>1
      <3> QED  BY <3>2
    <2> SUFFICES ASSUME bad # {} PROVE FALSE
      OBVIOUS
    <2>1. PICK d \in bad : \A e \in bad : d <= e  BY LeastNat
    <2>2. d # 0
      <3>1. back - 0 = back  BY <1>6, <1>1
      <3> QED  BY <1>6, <2>1, <3>1
    <2>3. /\ d - 1 \in Nat /\ d - 1 \in 0..back /\ ~(d <= d - 1)
          /\ back - d \in 0..(back - 1) /\ (back - d) + 1 = back - (d - 1)
      BY <1>1, <1>6, <2>1, <2>2
    <2>4. at[(back - d) + 1] = Masters[at[back - d]]  BY <1>8, <2>3
    <2>5. at[back - (d - 1)] = None  BY <1>9, <2>1, <2>3, <2>4
    <2> QED  BY <2>1, <2>3, <2>5
  <1>11. ASSUME NEW j \in 0..(back - 1) PROVE at[j] \in Declared /\ at[j] \in Name
    <2>1. at[j] \in Value /\ Masters[at[j]] # None  BY <1>1, <1>8, <1>10
    <2> QED  BY <1>3, <2>1
  <1>12. m \in Declared /\ m \in Name  BY <1>7, <1>11
  <1>13. cycle \in SUBSET Name /\ m \in cycle
    <2>1. i \in part  BY <1>1, <1>6, <1>7
    <2> QED  BY <1>7, <1>11, <2>1
  <1>14. ASSUME NEW x \in cycle, NEW y \in Derives[x] PROVE y \in cycle
    <2>1. PICK j \in part : x = at[j]  OBVIOUS
    <2>2. y = at[j + 1]
      <3>1. x \in Name  BY <1>13
      <3>2. at[j + 1] = Masters[at[j]]  BY <1>8
      <3>3. y = Masters[x]  BY <1>4, <3>1
      <3> QED  BY <2>1, <3>2, <3>3
    <2>3. CASE j + 1 = back  BY <1>13, <2>2, <2>3
    <2>4. CASE j + 1 # back
      <3>1. j + 1 \in 0..(back - 1)  BY <1>1, <1>6, <2>4
      <3>2. PICK h \in 0..j : at[h] = m  OBVIOUS
      <3>3. h \in 0..(j + 1)  BY <3>2
      <3>4. j + 1 \in part  BY <3>1, <3>2, <3>3
      <3> QED  BY <2>2, <3>4
    <2> QED  BY <2>3, <2>4
  <1>15. Lineage(m) \subseteq cycle
    <2>1. {m} \subseteq cycle /\ {m} \in SUBSET Name  BY <1>12, <1>13
    <2> HIDE DEF cycle, m
    <2>2. Within(Derives, {m}, top) \subseteq cycle  BY <1>1, <1>4, <1>13, <1>14, <2>1, WithinStays
    <2> QED  BY <2>2 DEF Lineage, top
  <1>16. /\ m \in Lineage(m) /\ Lineage(m) \subseteq Name
         /\ \A x \in Lineage(m) : Derives[x] \subseteq Lineage(m)
    <2> HIDE DEF m
    <2> QED  BY <1>12, ResolveIsDerived, LineageIsTheWalk
  <1>17. ASSUME NEW j \in part PROVE at[j] \in Lineage(m)
    <2>1. PICK h \in 0..j : at[h] = m  OBVIOUS
    <2> DEFINE bad == {d \in Nat : h + d \in 0..(back - 1) /\ at[h + d] \notin Lineage(m)}
    <2>2. bad = {}
      <3> SUFFICES ASSUME bad # {} PROVE FALSE
        OBVIOUS
      <3>1. PICK d \in bad : \A e \in bad : d <= e  BY LeastNat
      <3>2. h \in Nat /\ h + 0 = h  BY <2>1
      <3>3. d # 0  BY <1>16, <2>1, <3>1, <3>2
      <3>4. PICK e \in Nat : d = e + 1 /\ ~(d <= e) /\ h + e \in 0..(back - 1) /\ (h + e) + 1 = h + d
        <4>1. /\ d - 1 \in Nat /\ d = (d - 1) + 1 /\ ~(d <= d - 1)
              /\ h + (d - 1) \in 0..(back - 1) /\ (h + (d - 1)) + 1 = h + d
          BY <1>1, <1>6, <3>1, <3>2, <3>3
        <4> QED  BY <4>1
      <3>5. at[h + e] \in Lineage(m)  BY <3>1, <3>4
      <3>6. at[h + d] = Masters[at[h + e]] /\ Masters[at[h + e]] # None
        <4>1. at[(h + e) + 1] = Masters[at[h + e]] /\ (h + e) + 1 \in 0..back  BY <1>8, <3>4
        <4> QED  BY <1>10, <3>4, <4>1
      <3>7. Masters[at[h + e]] \in Lineage(m)  BY <1>4, <1>16, <3>5, <3>6
      <3> QED  BY <3>1, <3>6, <3>7
    <2>3. j - h \in Nat /\ h + (j - h) = j  BY <1>1, <1>6, <2>1
    <2>4. j - h \notin bad  BY <2>2
    <2> QED  BY <2>3, <2>4
  <1>18. CycleFrom(n) = Lineage(m)
    <2>1. cycle \subseteq Lineage(m)  BY <1>17
    <2> HIDE DEF cycle
    <2> QED  BY <1>2, <1>15, <2>1
  <1>19. \E c \in Declared : Masters[c] = m /\ c \in Lineage(m)
    <2>1. back - 1 \in 0..(back - 1) /\ (back - 1) + 1 = back /\ i \in 0..(back - 1)  BY <1>1, <1>6, <1>7
    <2>2. back - 1 \in part  BY <1>7, <2>1
    <2>3. at[back - 1] \in Lineage(m)  BY <1>17, <2>2
    <2>4. Masters[at[back - 1]] = m
      <3>1. at[(back - 1) + 1] = Masters[at[back - 1]]  BY <1>8, <2>1
      <3> QED  BY <2>1, <3>1
    <2> QED  BY <1>11, <2>1, <2>3, <2>4
  <1> QED  BY <1>12, <1>18, <1>19 DEF at, back

(* The cycles found are the sets of clocks derived from one another.        *)
LEMMA CyclesAreLineages ==
    ASSUME ClocksInv
    PROVE  Cycles = {Lineage(n) : n \in {m \in Declared :
                        \E c \in Declared : ClockOf(c).master = m /\ c \in Lineage(m)}}
  <1> DEFINE OnCycle(m) == \E c \in Declared : ClockOf(c).master = m /\ c \in Lineage(m)
  <1>0. clocks \in Seq(Clock) /\ None \notin Name  BY SentinelAssumption DEF ClocksInv
  <1>1. /\ Declared \subseteq Name
        /\ \A c \in Declared : Masters[c] = ClockOf(c).master
    BY <1>0, ClockNames
  <1>2. ASSUME NEW cycle \in Cycles
        PROVE  \E m \in Declared : OnCycle(m) /\ cycle = Lineage(m)
    <2>1. PICK n \in Declared : cycle = CycleFrom(n) /\ CycleFrom(n) # {}  BY DEF Cycles
    <2> DEFINE m == Climb(n)[First(Back(Climb(n)))]
    <2>2. /\ CycleFrom(n) = Lineage(m) /\ m \in Declared
          /\ \E c \in Declared : Masters[c] = m /\ c \in Lineage(m)
      BY <1>0, <1>1, <2>1, CycleIsLineage
    <2> HIDE DEF m
    <2> QED  BY <1>1, <2>1, <2>2
  <1>3. ASSUME NEW m \in Declared, OnCycle(m) PROVE Lineage(m) \in Cycles
    <2> DEFINE at == Climb(m)
               last == First(Stops(at))
    <2>1. PICK c \in Declared : Masters[c] = m /\ c \in Lineage(m)  BY <1>1, <1>3
    <2>2. m \in Name /\ m \in Value /\ m # None  BY <1>0, <1>1 DEF Value
    <2>3. Lineage(m) = {at[j] : j \in 0..last}  BY <1>0, <2>2, LineageIsTheWalk
    <2>4. Cardinality(Declared) \in Nat /\ at[0] = m  BY <1>0, <2>2, ClimbSteps
    <2>5. /\ last \in 0..Cardinality(Declared) /\ last \in Stops(at) /\ resolve(m) = at[last]
          /\ \A j \in 0..(last - 1) :
                /\ Masters[at[j]] # None /\ at[j + 1] = Masters[at[j]]
                /\ \A i \in 0..(last - 1) : at[i] = at[j] => i = j
      BY <1>0, <2>2, WalkEnds
    <2> HIDE DEF at, last
    <2>6. PICK k \in 0..last : at[k] = c  BY <2>1, <2>3
    <2>7. ASSUME NEW j \in 0..(last - 1), at[j] = c PROVE j + 1 = last /\ at[last] = m
      <3>1. at[j + 1] = at[0] /\ j + 1 \in 1..last /\ 0 \in 0..(last - 1)
        BY <2>1, <2>4, <2>5, <2>7
      <3>2. j + 1 \notin 0..(last - 1)  BY <2>4, <2>5, <3>1
      <3>3. j + 1 = last  BY <2>4, <2>5, <3>1, <3>2
      <3> QED  BY <2>4, <3>1, <3>3
    <2>8. Masters[at[last]] # None
      <3>1. CASE k = last  BY <2>1, <2>2, <2>6, <3>1
      <3>2. CASE k # last
        <4>1. k \in 0..(last - 1) /\ 0 \in 0..(last - 1)  BY <2>4, <2>5, <2>6, <3>2
        <4>2. at[last] = at[0]  BY <2>4, <2>6, <2>7, <4>1
        <4> QED  BY <2>5, <4>1, <4>2
      <3> QED  BY <3>1, <3>2
    <2>9. at[last] = m
      <3>1. CASE k = last
        <4>1. PICK j \in 0..(last - 1) : at[j] = at[last]
          BY <2>5, <2>8 DEF Stops, MetBefore
        <4> QED  BY <2>6, <2>7, <3>1, <4>1
      <3>2. CASE k # last
        <4>1. k \in 0..(last - 1)  BY <2>4, <2>5, <2>6, <3>2
        <4> QED  BY <2>6, <2>7, <4>1
      <3> QED  BY <3>1, <3>2
    <2>10. Masters[resolve(m)] # None  BY <2>5, <2>8
    <2>11. /\ First(Back(at)) = last
           /\ CycleFrom(m) # {} /\ CycleFrom(m) \in Cycles
      BY <2>2, <2>10, EndlessWalkIsSeen DEF at, last
    <2>12. CycleFrom(m) = Lineage(at[First(Back(at))])
      BY <1>0, <2>2, <2>11, CycleIsLineage DEF at
    <2> QED  BY <2>9, <2>11, <2>12
  <1> HIDE DEF OnCycle
  <1>4. Cycles = {Lineage(n) : n \in {m \in Declared : OnCycle(m)}}
    BY <1>2, <1>3
  <1> QED  BY <1>4 DEF OnCycle
------------------------------------------------------------------------------
(* The first group that holds one of the names.                             *)
LEMMA GroupFound ==
    ASSUME NEW groups, DOMAIN groups \subseteq Nat \ {0}, NEW names
    PROVE  /\ GroupOf(groups, names) # 0 =>
                GroupOf(groups, names) \in DOMAIN groups /\ groups[GroupOf(groups, names)] \cap names # {}
           /\ \A i \in DOMAIN groups : groups[i] \cap names # {} => GroupOf(groups, names) # 0
  <1> DEFINE hit == {i \in DOMAIN groups : groups[i] \cap names # {}}
  <1>1. GroupOf(groups, names) = IF hit = {} THEN 0 ELSE First(hit)  BY DEF GroupOf
  <1>2. hit # {} => First(hit) \in hit
    <2>1. hit \in SUBSET Nat  OBVIOUS
    <2> HIDE DEF hit
    <2> QED  BY <2>1, FirstIsLeast
  <1>3. \A i \in hit : i # 0  OBVIOUS
  <1> HIDE DEF hit
  <1>4. GroupOf(groups, names) # 0 => GroupOf(groups, names) \in hit  BY <1>1, <1>2
  <1>5. hit # {} => GroupOf(groups, names) # 0  BY <1>1, <1>2, <1>3
  <1> QED  BY <1>4, <1>5 DEF hit
------------------------------------------------------------------------------
(* The graph is a function of the clocks: what leaves them alone leaves it  *)
(* alone.                                                                   *)
LEMMA SameClocksSameGraph ==
    ASSUME clocks' = clocks
    PROVE  Cycles' = Cycles /\ UnknownMasters' = UnknownMasters
  <1>1. Declared' = Declared  BY DEF Declared
  <1>2. \A n : ClockOf(n)' = ClockOf(n)  BY DEF ClockOf
  <1>3. Masters' = Masters  BY <1>1, <1>2 DEF Masters
  <1>4. \A n : Climb(n)' = Climb(n)  BY <1>1, <1>3 DEF Climb
  <1>5. \A at : Back(at)' = Back(at)  BY <1>2 DEF Back, MetBefore
  <1>6. \A n : CycleFrom(n)' = CycleFrom(n)  BY <1>4, <1>5 DEF CycleFrom, First
  <1>7. Cycles' = Cycles  BY <1>1, <1>2, <1>6 DEF Cycles
  <1> QED  BY <1>1, <1>2, <1>7 DEF UnknownMasters

LEMMA InitInv == Init => IInv
  <1> SUFFICES ASSUME Init PROVE IInv
    OBVIOUS
  <1>1. unread \subseteq Command  BY ScriptAssumption DEF Init
  <1>2. ClocksInv  BY DEF Init, ClocksInv
  <1>3. GroupsInv  BY DEF Init, GroupsInv
  <1>4. ToldInv  BY DEF Init, ToldInv
  <1>5. PinsInv  BY DEF Init, PinsInv
  <1> QED  BY <1>1, <1>2, <1>3, <1>4, <1>5 DEF IInv

(* A handler's warning is not about the clock graph.                        *)
LEMMA WarnIsLocal ==
    ASSUME NEW what \in {"duplicate", "ignored"}, NEW about, Warn(what, about),
           \A w \in partial_warnings : w[1] \notin GraphKinds
    PROVE  \A w \in partial_warnings' : w[1] \notin GraphKinds
  <1>1. what \notin GraphKinds  BY DEF GraphKinds
  <1>2. <<what, about>>[1] = what  OBVIOUS
  <1>3. partial_warnings' = partial_warnings \cup {<<what, about>>}  BY DEF Warn
  <1> QED  BY <1>1, <1>2, <1>3

LEMMA StoreKeepsInv ==
    ASSUME ClocksInv, NEW clock \in Clock, clock.master # None => clock.is_generated, Store(clock),
           \A w \in partial_warnings : w[1] \notin GraphKinds
    PROVE  ClocksInv' /\ \A w \in partial_warnings' : w[1] \notin GraphKinds
  <1>1. CASE clock.name \in Declared
    <2>1. clocks' = [i \in DOMAIN clocks |-> IF clocks[i].name = clock.name THEN clock ELSE clocks[i]]
      BY <1>1 DEF Store
    <2>2. Warn("duplicate", clock.name)  BY <1>1 DEF Store
    <2>3. ClocksInv'  BY <2>1 DEF ClocksInv
    <2> QED  BY <2>2, <2>3, WarnIsLocal
  <1>2. CASE clock.name \notin Declared
    <2>1. clocks' = Append(clocks, clock) /\ UNCHANGED partial_warnings  BY <1>2 DEF Store
    <2>2. ClocksInv'  BY <2>1 DEF ClocksInv
    <2> QED  BY <2>1, <2>2
  <1> QED  BY <1>1, <1>2

(* The groups of a statement are counted from one.                          *)
LEMMA FilledIsCounted ==
    ASSUME NEW groups \in Seq(SUBSET Name)
    PROVE  DOMAIN Filled(groups) \subseteq Nat \ {0}
  <1> DEFINE ks == {i \in DOMAIN groups : groups[i] # {}}
  <1>1. ks \subseteq 1..Len(groups) /\ IsFiniteSet(1..Len(groups))  BY FS_Interval
  <1>2. Cardinality(ks) \in Nat  BY <1>1, FS_Subset, FS_CardinalityType
  <1>3. DOMAIN Filled(groups) = 1..Cardinality(ks)  BY DEF Filled
  <1> QED  BY <1>2, <1>3

(* The pins a command declares its clock on, none for create_clock.         *)
LEMMA StoreKeepsPins ==
    ASSUME PinsInv, clocks \in Seq(Clock), NEW clock \in Clock, Store(clock),
           pin_clocks' = [p \in Pin |-> IF p \in clock.pins THEN clock.name ELSE pin_clocks[p]]
    PROVE  PinsInv'
  <1>0. /\ clock.name \in Name /\ clock.name # None /\ clock.pins \in SUBSET Pin
        /\ \A i \in DOMAIN clocks : clocks[i].pins \in SUBSET Pin
    <2>1. \A i \in DOMAIN clocks : clocks[i] \in Clock  OBVIOUS
    <2> QED  BY <2>1, SentinelAssumption DEF Clock
  <1>1. pin_clocks' \in [Pin -> Name \cup {None}]  BY <1>0 DEF PinsInv
  <1>2. /\ \A w \in partial_warnings : w \in partial_warnings'
        /\ clock.name \in Declared => <<"duplicate", clock.name>> \in partial_warnings'
    BY DEF Store, Warn
  <1>3. /\ \A i \in DOMAIN clocks' :
              clocks'[i] = clock \/ (i \in DOMAIN clocks /\ clocks'[i] = clocks[i]
                                     /\ clocks[i].name # clock.name)
        /\ \A i \in DOMAIN clocks : \E j \in DOMAIN clocks' : clocks'[j].name = clocks[i].name
        /\ \E j \in DOMAIN clocks' : clocks'[j].name = clock.name
    <2>1. CASE clock.name \in Declared
      <3>1. clocks' = [i \in DOMAIN clocks |->
                          IF clocks[i].name = clock.name THEN clock ELSE clocks[i]]
        BY <2>1 DEF Store
      <3>2. PICK i \in DOMAIN clocks : clocks[i].name = clock.name  BY <2>1 DEF Declared
      <3> QED  BY <3>1, <3>2
    <2>2. CASE clock.name \notin Declared
      <3>1. clocks' = Append(clocks, clock)  BY <2>2 DEF Store
      <3>2. \A i \in DOMAIN clocks : clocks[i].name # clock.name  BY <2>2 DEF Declared
      <3>3. /\ DOMAIN clocks = 1..Len(clocks) /\ Len(clocks) \in Nat
            /\ DOMAIN clocks' = 1..(Len(clocks) + 1) /\ clocks'[Len(clocks) + 1] = clock
            /\ \A i \in DOMAIN clocks : clocks'[i] = clocks[i]
        BY <3>1
      <3>4. /\ \A i \in DOMAIN clocks' : i \in DOMAIN clocks \/ i = Len(clocks) + 1
            /\ \A i \in DOMAIN clocks : i \in DOMAIN clocks'
            /\ Len(clocks) + 1 \in DOMAIN clocks'
        BY <3>3
      <3> QED  BY <3>2, <3>3, <3>4
    <2> QED  BY <2>1, <2>2
  <1>4. \A n \in Declared \cup {clock.name} : n \in Declared'  BY <1>3 DEF Declared
  <1>5. \A p \in Pin : pin_clocks'[p] # None => pin_clocks'[p] \in Declared'
    BY <1>4 DEF PinsInv
  <1>6. ASSUME NEW p \in Pin, NEW i \in DOMAIN clocks', clocks'[i].name = pin_clocks'[p]
        PROVE  p \in clocks'[i].pins \/ <<"duplicate", pin_clocks'[p]>> \in partial_warnings'
    <2>1. CASE p \in clock.pins
      <3>1. clocks'[i].name = clock.name  BY <1>6, <2>1
      <3> QED  BY <1>3, <2>1, <3>1
    <2>2. CASE p \notin clock.pins
      <3>1. pin_clocks'[p] = pin_clocks[p]  BY <2>2
      <3>2. CASE clocks'[i] = clock
        <4>1. pin_clocks[p] = clock.name  BY <1>6, <3>1, <3>2
        <4>2. clock.name \in Declared  BY <1>0, <4>1 DEF PinsInv
        <4> QED  BY <1>2, <3>1, <4>1, <4>2
      <3>3. CASE i \in DOMAIN clocks /\ clocks'[i] = clocks[i]
        <4>1. p \in clocks[i].pins \/ <<"duplicate", pin_clocks[p]>> \in partial_warnings
          BY <1>6, <3>1, <3>3 DEF PinsInv
        <4> QED  BY <1>2, <3>1, <3>3, <4>1
      <3> QED  BY <1>3, <3>2, <3>3
    <2> QED  BY <2>1, <2>2
  <1>7. ASSUME NEW i \in DOMAIN clocks', NEW p \in clocks'[i].pins PROVE pin_clocks'[p] # None
    <2>1. p \in Pin /\ (p \in clock.pins \/ pin_clocks[p] # None)
      BY <1>0, <1>3, <1>7 DEF PinsInv
    <2> QED  BY <1>0, <2>1
  <1> QED  BY <1>1, <1>5, <1>6, <1>7 DEF PinsInv

LEMMA ReadKeepsInv ==
    ASSUME IInv, NEW cmd \in unread, Read(cmd)
    PROVE  IInv'
  <1>1. /\ cmd \in Command /\ unread' \subseteq Command
        /\ stage # "done" /\ stage' # "done"
        /\ ClocksInv /\ GroupsInv /\ PinsInv /\ \A w \in partial_warnings : w[1] \notin GraphKinds
        /\ clocks \in Seq(Clock)
    BY DEF IInv, Read, ToldInv, ClocksInv
  <1> SUFFICES /\ ClocksInv' /\ GroupsInv' /\ PinsInv'
               /\ \A w \in partial_warnings' : w[1] \notin GraphKinds
    BY <1>1 DEF IInv, ToldInv
  <1>a. ASSUME UNCHANGED <<clocks, pin_clocks>>, Warn("ignored", cmd) \/ UNCHANGED partial_warnings
        PROVE  PinsInv'
    <2>1. \A w \in partial_warnings : w \in partial_warnings'  BY <1>a DEF Warn
    <2> QED  BY <1>1, <1>a, <2>1 DEF PinsInv, Declared
  <1>2. CASE CreateClock(cmd)
    <2> DEFINE clock == [name |-> cmd.name, ports |-> cmd.ports, master |-> None,
                         is_generated |-> FALSE, source |-> None, pins |-> {}]
    <2>1. /\ IF cmd.name = None THEN UNCHANGED <<clocks, partial_warnings>> ELSE Store(clock)
          /\ UNCHANGED <<async_groups, exclusive_groups, pin_clocks>>
      BY <1>2 DEF CreateClock
    <2>4. GroupsInv'  BY <1>1, <2>1 DEF GroupsInv
    <2>5. CASE cmd.name = None
      <3>1. UNCHANGED <<clocks, partial_warnings, pin_clocks>>  BY <2>1, <2>5
      <3>2. ClocksInv'  BY <1>1, <3>1 DEF ClocksInv
      <3> QED  BY <1>1, <1>a, <2>4, <3>1, <3>2
    <2>6. CASE cmd.name # None
      <3>1. cmd.name \in Name /\ cmd.ports \in SUBSET Name
        BY <1>1, <1>2, <2>6 DEF CreateClock, Command
      <3>2. clock \in Clock /\ clock.master = None /\ clock.pins = {}  BY <3>1 DEF Clock
      <3>3. Store(clock)  BY <2>1, <2>6
      <3>4. pin_clocks' = [p \in Pin |-> IF p \in clock.pins THEN clock.name ELSE pin_clocks[p]]
        <4> HIDE DEF clock
        <4> QED  BY <1>1, <2>1, <3>2 DEF PinsInv
      <3> HIDE DEF clock
      <3> QED  BY <1>1, <2>4, <3>2, <3>3, <3>4, StoreKeepsInv, StoreKeepsPins
    <2> QED  BY <2>5, <2>6
  <1>3. CASE CreateGeneratedClock(cmd)
    <2> DEFINE clock == [name |-> cmd.name, ports |-> cmd.ports, master |-> cmd.master,
                         is_generated |-> TRUE, source |-> cmd.source, pins |-> cmd.pins]
    <2>1. /\ IF cmd.name = None
             THEN Warn("ignored", cmd) /\ UNCHANGED <<clocks, pin_clocks>>
             ELSE /\ pin_clocks' = [p \in Pin |-> IF p \in cmd.pins THEN cmd.name ELSE pin_clocks[p]]
                  /\ Store(clock)
          /\ UNCHANGED <<async_groups, exclusive_groups>>
      BY <1>3 DEF CreateGeneratedClock
    <2>4. GroupsInv'  BY <1>1, <2>1 DEF GroupsInv
    <2>5. CASE cmd.name = None
      <3>1. Warn("ignored", cmd) /\ UNCHANGED <<clocks, pin_clocks>>  BY <2>1, <2>5
      <3>2. ClocksInv'  BY <1>1, <3>1 DEF ClocksInv
      <3> QED  BY <1>1, <1>a, <2>4, <3>1, <3>2, WarnIsLocal
    <2>6. CASE cmd.name # None
      <3>1. /\ cmd.name \in Name /\ cmd.ports \in SUBSET Name /\ cmd.pins \in SUBSET Pin
            /\ cmd.master \in Name \cup {None} /\ cmd.source \in Name \cup {None}
        BY <1>1, <1>3, <2>6 DEF CreateGeneratedClock, Command
      <3>2. /\ clock \in Clock /\ clock.is_generated
            /\ clock.pins = cmd.pins /\ clock.name = cmd.name
        BY <3>1 DEF Clock
      <3> HIDE DEF clock
      <3>3. Store(clock)  BY <2>1, <2>6
      <3>4. pin_clocks' = [p \in Pin |-> IF p \in clock.pins THEN clock.name ELSE pin_clocks[p]]
        BY <2>1, <2>6, <3>2
      <3> QED  BY <1>1, <2>4, <3>2, <3>3, <3>4, StoreKeepsInv, StoreKeepsPins
    <2> QED  BY <2>5, <2>6
  <1>4. CASE SetClockGroups(cmd)
    <2> DEFINE groups == Filled(cmd.groups)
    <2>1. cmd.groups \in Seq(SUBSET Name)  BY <1>1, <1>4 DEF SetClockGroups, Command
    <2>2. DOMAIN groups \subseteq Nat \ {0}  BY <2>1, FilledIsCounted
    <2> HIDE DEF groups
    <2>3. /\ UNCHANGED <<clocks, pin_clocks>>
          /\ \/ Warn("ignored", cmd) /\ UNCHANGED <<async_groups, exclusive_groups>>
             \/ /\ async_groups' \subseteq async_groups \cup {groups}
                /\ exclusive_groups' \subseteq exclusive_groups \cup {groups}
                /\ UNCHANGED partial_warnings
      BY <1>4 DEF SetClockGroups, groups
    <2>4. ClocksInv'  BY <1>1, <2>3 DEF ClocksInv
    <2>5. GroupsInv'  BY <1>1, <2>2, <2>3 DEF GroupsInv
    <2>6. PinsInv'  BY <1>a, <2>3
    <2> QED  BY <1>1, <2>3, <2>4, <2>5, <2>6, WarnIsLocal
  <1>5. CASE SetFalsePath(cmd)
    <2>1. /\ UNCHANGED <<clocks, async_groups, exclusive_groups, pin_clocks>>
          /\ Warn("ignored", cmd) \/ UNCHANGED partial_warnings
      BY <1>5 DEF SetFalsePath
    <2>2. ClocksInv' /\ GroupsInv'  BY <1>1, <2>1 DEF ClocksInv, GroupsInv
    <2>3. PinsInv'  BY <1>a, <2>1
    <2> QED  BY <1>1, <2>1, <2>2, <2>3, WarnIsLocal
  <1>6. CASE SetDelay(cmd)
    <2>1. /\ UNCHANGED <<clocks, async_groups, exclusive_groups, pin_clocks>>
          /\ Warn("ignored", cmd) \/ UNCHANGED partial_warnings
      BY <1>6 DEF SetDelay
    <2>2. ClocksInv' /\ GroupsInv'  BY <1>1, <2>1 DEF ClocksInv, GroupsInv
    <2>3. PinsInv'  BY <1>a, <2>1
    <2> QED  BY <1>1, <2>1, <2>2, <2>3, WarnIsLocal
  <1> QED  BY <1>2, <1>3, <1>4, <1>5, <1>6 DEF Read

(* Warnings of one kind say the kind first and then what it is about.       *)
Labels(kind, S) == {<<kind, x>> : x \in S}
LEMMA Labelled ==
    ASSUME NEW kind, NEW S
    PROVE  /\ \A w \in Labels(kind, S) : w[1] = kind
           /\ {w[2] : w \in Labels(kind, S)} = S
  <1> DEFINE ws == {<<kind, x>> : x \in S}
  <1>1. \A x : <<kind, x>>[1] = kind /\ <<kind, x>>[2] = x  OBVIOUS
  <1>2. \A w \in ws : \E x \in S : w = <<kind, x>>  OBVIOUS
  <1>3. \A x \in S : <<kind, x>> \in ws  OBVIOUS
  <1> HIDE DEF ws
  <1>4. \A w \in ws : w[1] = kind /\ w[2] \in S
    <2> TAKE w \in ws
    <2>1. PICK x \in S : w = <<kind, x>>  BY <1>2
    <2> QED  BY <1>1, <2>1
  <1>5. \A x \in S : \E w \in ws : w[2] = x
    <2> TAKE x \in S
    <2> QED  BY <1>1, <1>3
  <1>6. {w[2] : w \in ws} = S  BY <1>4, <1>5
  <1> QED  BY <1>4, <1>6 DEF ws, Labels

LEMMA ValidateKeepsInv ==
    ASSUME IInv, Validate
    PROVE  IInv'
  <1>1. /\ stage # "done" /\ stage' = "done"
        /\ UNCHANGED <<unread, clocks, async_groups, exclusive_groups, pin_clocks>>
        /\ \A w \in partial_warnings : w[1] \notin GraphKinds
        /\ unread \subseteq Command /\ ClocksInv /\ GroupsInv /\ PinsInv
    BY DEF Validate, IInv, ToldInv
  <1>2. Cycles' = Cycles /\ UnknownMasters' = UnknownMasters  BY <1>1, SameClocksSameGraph
  <1>3. unread' \subseteq Command /\ ClocksInv' /\ GroupsInv'
    BY <1>1 DEF ClocksInv, GroupsInv
  <1> DEFINE shared == Labels("shared port", SharedPorts)
             unknown == Labels("unknown master", UnknownMasters)
             cycles == Labels("cycle", Cycles)
  <1>4. partial_warnings' = partial_warnings \cup shared \cup unknown \cup cycles
    BY DEF Validate, Labels
  <1>5. /\ \A w \in shared : w[1] = "shared port"
        /\ \A w \in unknown : w[1] = "unknown master"
        /\ \A w \in cycles : w[1] = "cycle"
    BY Labelled
  <1>6. {w[2] : w \in cycles} = Cycles /\ {w[2] : w \in unknown} = UnknownMasters
    BY Labelled
  <1> HIDE DEF shared, unknown, cycles
  <1>7. Complaints("cycle")' = cycles
    BY <1>1, <1>4, <1>5 DEF Complaints, GraphKinds
  <1>8. Complaints("unknown master")' = unknown
    BY <1>1, <1>4, <1>5 DEF Complaints, GraphKinds
  <1>9. ToldInv'  BY <1>1, <1>2, <1>6, <1>7, <1>8 DEF ToldInv
  <1>10. PinsInv'
    <2>1. \A w \in partial_warnings : w \in partial_warnings'  BY <1>4
    <2> QED  BY <1>1, <2>1 DEF PinsInv, Declared
  <1> QED  BY <1>3, <1>9, <1>10 DEF IInv

(* The inductive invariant of the clock specification (sdc.py parse,        *)
(* validate_clock_graph): whatever is read in whatever order, only a        *)
(* generated clock has a master, the diagnostics about masters and cycles   *)
(* are those of the clocks as they are, and pins are at declared clocks.    *)
THEOREM ClocksAreToldOf == Spec => []IInv
  <1>1. ASSUME IInv, [Next]_vars PROVE IInv'
    <2>1. CASE \E cmd \in unread : Read(cmd)  BY <1>1, <2>1, ReadKeepsInv
    <2>2. CASE Synthesize
      <3>1. /\ UNCHANGED <<unread, clocks, async_groups, exclusive_groups, pin_clocks,
                           partial_warnings>>
            /\ stage # "done" /\ stage' # "done"
        BY <2>2 DEF Synthesize
      <3>2. PinsInv'  BY <1>1, <3>1 DEF IInv, PinsInv, Declared
      <3> QED  BY <1>1, <3>1, <3>2 DEF IInv, ClocksInv, GroupsInv, ToldInv
    <2>3. CASE Validate  BY <1>1, <2>3, ValidateKeepsInv
    <2>4. CASE UNCHANGED vars
      <3>1. UNCHANGED <<unread, stage, clocks, async_groups, exclusive_groups, pin_clocks,
                        partial_warnings>>
        BY <2>4 DEF vars
      <3>2. Cycles' = Cycles /\ UnknownMasters' = UnknownMasters  BY <3>1, SameClocksSameGraph
      <3>3. ToldInv'  BY <1>1, <3>1, <3>2 DEF IInv, ToldInv, Complaints
      <3>4. PinsInv'  BY <1>1, <3>1 DEF IInv, PinsInv, Declared
      <3> QED  BY <1>1, <3>1, <3>3, <3>4 DEF IInv, ClocksInv, GroupsInv
    <2> QED  BY <1>1, <2>1, <2>2, <2>3, <2>4 DEF Next
  <1> QED  BY <1>1, InitInv, PTL DEF Spec
------------------------------------------------------------------------------
(* What a run without a diagnostic about the clock graph may rely on.       *)
LEMMA QuietGraph ==
    ASSUME IInv, stage = "done", Complaints("unknown master") \cup Complaints("cycle") = {},
           NEW n \in Declared
    PROVE  /\ Cycles = {} /\ n \in Name
           /\ Lineage(n) \subseteq Declared
           /\ resolve(n) \in Lineage(n)
           /\ \A x \in Lineage(n) : ClockOf(x).master = None <=> x = resolve(n)
  <1>1. Cycles = {} /\ UnknownMasters = {} /\ ClocksInv
    <2>1. Complaints("cycle") = {} /\ Complaints("unknown master") = {}  OBVIOUS
    <2> QED  BY <2>1 DEF IInv, ToldInv
  <1>2. clocks \in Seq(Clock)  BY <1>1 DEF ClocksInv
  <1>3. /\ Declared \in SUBSET Name /\ n \in Name /\ Cardinality(Declared) \in Nat
        /\ \A c \in Declared : Masters[c] = ClockOf(c).master
    BY <1>2, ClockNames
  <1>4. Derives \in [Name -> SUBSET Name]  BY <1>2, DerivesType
  <1>5. \A x \in Declared : Derives[x] \subseteq Declared
    <2> SUFFICES ASSUME NEW x \in Declared, NEW y \in Derives[x] PROVE y \in Declared
      OBVIOUS
    <2>1. y = ClockOf(x).master /\ y # None  BY <1>2, <1>3, DerivesType
    <2> QED  BY <1>1, <2>1 DEF UnknownMasters
  <1>6. Lineage(n) \subseteq Declared
    <2>1. {n} \in SUBSET Name /\ {n} \subseteq Declared  BY <1>3
    <2>2. Within(Derives, {n}, Cardinality(Declared)) \subseteq Declared
      BY <1>3, <1>4, <1>5, <2>1, WithinStays
    <2> QED  BY <2>2 DEF Lineage
  <1>7. /\ resolve(n) \in Lineage(n)
        /\ \A x \in Lineage(n) : Masters[x] = None => x = resolve(n)
    BY <1>2, <1>3, ResolveIsDerived
  <1>8. Masters[resolve(n)] = None  BY <1>1, <1>3, OneRoot
  <1> QED  BY <1>1, <1>3, <1>6, <1>7, <1>8

LEMMA InvRootsArePrimary == IInv => RootsArePrimary
  <1> SUFFICES ASSUME IInv, stage = "done" PROVE RootsArePrimary
    BY DEF RootsArePrimary
  <1>1. \A n \in Declared : \E i \in DOMAIN clocks : ClockOf(n) = clocks[i] /\ clocks[i].name = n
    BY ClockNames DEF IInv, ClocksInv
  <1>2. ASSUME NEW p \in Pin, pin_clocks[p] # None PROVE PinIsCurrent(p)
    <2>1. pin_clocks[p] \in Declared  BY <1>2 DEF IInv, PinsInv
    <2> QED  BY <1>1, <2>1 DEF IInv, PinsInv, PinIsCurrent
  <1>3. ASSUME NEW n \in Declared, NEW p \in ClockOf(n).pins PROVE pin_clocks[p] # None
    BY <1>1, <1>3 DEF IInv, PinsInv
  <1>4. ASSUME Complaints("unknown master") \cup Complaints("cycle") = {}, NEW n \in Declared
        PROVE  resolve(n) \in Declared \cap Lineage(n) /\ ClockOf(resolve(n)).master = None
    BY <1>4, QuietGraph
  <1> QED  BY <1>2, <1>3, <1>4 DEF RootsArePrimary

LEMMA InvCyclesReported == IInv => CyclesReportedExactly
  <1> SUFFICES ASSUME IInv, stage = "done"
               PROVE  {w[2] : w \in Complaints("cycle")} =
                          {Lineage(n) : n \in {m \in Declared :
                              \E c \in Declared : ClockOf(c).master = m /\ c \in Lineage(m)}}
    BY DEF CyclesReportedExactly
  <1>1. {w[2] : w \in Complaints("cycle")} = Cycles /\ ClocksInv  BY DEF IInv, ToldInv
  <1> QED  BY <1>1, CyclesAreLineages

LEMMA InvSyncToMaster == IInv => GeneratedSyncToMaster
  <1> SUFFICES ASSUME IInv, NEW n \in Declared, NEW m \in Lineage(n), Cycles = {},
                      are_async(n, m) \/ is_unreachable_crossing(n, m)
               PROVE  \E g \in async_groups : Separates(g, {n}, {m})
    BY DEF GeneratedSyncToMaster
  <1>1. ClocksInv /\ clocks \in Seq(Clock)  BY DEF IInv, ClocksInv
  <1>2. n \in Name  BY <1>1, ClockNames
  <1>3. m \in Name  BY <1>1, <1>2, LineageIsTheWalk
  <1>4. resolve(m) = resolve(n)  BY <1>1, <1>2, OneRoot
  <1>5. Unconstrained \notin {n, m}  BY <1>2, <1>3, SentinelAssumption
  <1> QED  BY <1>4, <1>5 DEF are_async, is_unreachable_crossing

(* Two sets of names that a statement separates are in different groups.    *)
LEMMA SeparatesApart ==
    ASSUME NEW g, DOMAIN g \subseteq Nat \ {0}, NEW as, NEW bs, Separates(g, as, bs)
    PROVE  \E i, j \in DOMAIN g : i # j /\ g[i] \cap as # {} /\ g[j] \cap bs # {}
  BY GroupFound DEF Separates

LEMMA InvSeparation == IInv => SeparationIsDeclared
  <1> SUFFICES ASSUME IInv, NEW a \in Declared, NEW b \in Declared
               PROVE  /\ are_async(a, b) =>
                            \E x \in Lineage(a), y \in Lineage(b) :
                                \/ {x, y} \in false_path_pairs
                                \/ \E g \in async_groups : \E i, j \in DOMAIN g :
                                      i # j /\ x \in g[i] /\ y \in g[j]
                      /\ is_unreachable_crossing(a, b) =>
                            \E x \in Lineage(a), y \in Lineage(b) : \E g \in exclusive_groups :
                                \E i, j \in DOMAIN g : i # j /\ x \in g[i] /\ y \in g[j]
    BY DEF SeparationIsDeclared
  <1>1. clocks \in Seq(Clock)
        /\ \A g \in async_groups \cup exclusive_groups : DOMAIN g \subseteq Nat \ {0}
    BY DEF IInv, ClocksInv, GroupsInv
  <1>2. a \in Name /\ b \in Name /\ Unconstrained \notin {a, b}
    <2>1. a \in Name /\ b \in Name  BY <1>1, ClockNames
    <2> QED  BY <2>1, SentinelAssumption
  <1>3. {a, resolve(a)} \subseteq Lineage(a) /\ {b, resolve(b)} \subseteq Lineage(b)
    BY <1>1, <1>2, ResolveIsDerived
  <1>4. ASSUME NEW g \in async_groups \cup exclusive_groups,
               NEW as, as \subseteq {a, resolve(a)}, NEW bs, bs \subseteq {b, resolve(b)},
               Separates(g, as, bs)
        PROVE  \E x \in Lineage(a), y \in Lineage(b) : \E i, j \in DOMAIN g :
                   i # j /\ x \in g[i] /\ y \in g[j]
    <2>1. DOMAIN g \subseteq Nat \ {0}  BY <1>1
    <2>2. PICK i \in DOMAIN g, j \in DOMAIN g : i # j /\ g[i] \cap as # {} /\ g[j] \cap bs # {}
      BY <1>4, <2>1, SeparatesApart
    <2>3. PICK x \in as : x \in g[i]  BY <2>2
    <2>4. PICK y \in bs : y \in g[j]  BY <2>2
    <2>5. x \in Lineage(a) /\ y \in Lineage(b)  BY <1>3, <1>4, <2>3, <2>4
    <2> QED  BY <2>2, <2>3, <2>4, <2>5
  <1>5. ASSUME are_async(a, b)
        PROVE  \E x \in Lineage(a), y \in Lineage(b) :
                   \/ {x, y} \in false_path_pairs
                   \/ \E g \in async_groups : \E i, j \in DOMAIN g :
                         i # j /\ x \in g[i] /\ y \in g[j]
    <2>1. CASE {{resolve(a), resolve(b)}, {a, b}} \cap false_path_pairs # {}
      <3>1. PICK x \in {a, resolve(a)}, y \in {b, resolve(b)} : {x, y} \in false_path_pairs
        <4>1. {resolve(a), resolve(b)} \in false_path_pairs \/ {a, b} \in false_path_pairs
          BY <2>1
        <4> QED  BY <4>1
      <3>2. x \in Lineage(a) /\ y \in Lineage(b)  BY <1>3
      <3> QED  BY <3>1, <3>2
    <2>2. CASE \E g \in async_groups : Separates(g, {a}, {b})
      <3>1. PICK g \in async_groups : Separates(g, {a}, {b})  BY <2>2
      <3>2. {a} \subseteq {a, resolve(a)} /\ {b} \subseteq {b, resolve(b)}  OBVIOUS
      <3>3. \E x \in Lineage(a), y \in Lineage(b) : \E i, j \in DOMAIN g :
                i # j /\ x \in g[i] /\ y \in g[j]
        BY <1>4, <3>1, <3>2
      <3> QED  BY <3>3
    <2>3. CASE \E g \in async_groups : Separates(g, {resolve(a)}, {resolve(b)})
      <3>1. PICK g \in async_groups : Separates(g, {resolve(a)}, {resolve(b)})  BY <2>3
      <3>2. {resolve(a)} \subseteq {a, resolve(a)} /\ {resolve(b)} \subseteq {b, resolve(b)}  OBVIOUS
      <3>3. \E x \in Lineage(a), y \in Lineage(b) : \E i, j \in DOMAIN g :
                i # j /\ x \in g[i] /\ y \in g[j]
        BY <1>4, <3>1, <3>2
      <3> QED  BY <3>3
    <2> QED  BY <1>2, <1>5, <2>1, <2>2, <2>3 DEF are_async
  <1>6. ASSUME is_unreachable_crossing(a, b)
        PROVE  \E x \in Lineage(a), y \in Lineage(b) : \E g \in exclusive_groups :
                   \E i, j \in DOMAIN g : i # j /\ x \in g[i] /\ y \in g[j]
    <2>1. PICK g \in exclusive_groups : Separates(g, {a, resolve(a)}, {b, resolve(b)})
      BY <1>6 DEF is_unreachable_crossing
    <2>2. \E x \in Lineage(a), y \in Lineage(b) : \E i, j \in DOMAIN g :
              i # j /\ x \in g[i] /\ y \in g[j]
      BY <1>4, <2>1
    <2> QED  BY <2>2
  <1> QED  BY <1>5, <1>6

LEMMA InvAsyncIsKept == IInv => DeclaredAsyncIsKept
  <1> DEFINE Parts(g, x, y) ==
                /\ x # y
                /\ \E i, j \in DOMAIN g : x \in g[i] /\ y \in g[j]
                /\ \A i \in DOMAIN g : ~({x, y} \subseteq g[i])
             Parted(a, b) == \E g \in async_groups : \E x \in Primaries(a), y \in Primaries(b) : Parts(g, x, y)
             Plain(a, b) == /\ (Lineage(a) \cup Lineage(b)) \cap Exclusive = {}
                            /\ clock_for_port(a) = None /\ clock_for_port(b) = None
             quiet == stage = "done" /\ Complaints("unknown master") \cup Complaints("cycle") = {}
  <1>1. DeclaredAsyncIsKept <=>
           (quiet => \A a, b \in Declared : Parted(a, b) /\ Plain(a, b) => Kept(a, b))
    BY DEF DeclaredAsyncIsKept
  <1> HIDE DEF Parted, Plain, quiet
  <1> SUFFICES ASSUME IInv, quiet, NEW a \in Declared, NEW b \in Declared, Parted(a, b), Plain(a, b)
               PROVE  Kept(a, b)
    BY <1>1
  <1>2. stage = "done" /\ Complaints("unknown master") \cup Complaints("cycle") = {}  BY DEF quiet
  <1>3. PICK g \in async_groups : \E x \in Primaries(a), y \in Primaries(b) : Parts(g, x, y)
    BY DEF Parted
  <1>4. PICK x \in Primaries(a), y \in Primaries(b) : Parts(g, x, y)  BY <1>3
  <1>5. (Lineage(a) \cup Lineage(b)) \cap Exclusive = {}  BY DEF Plain
  <1>6. clock_for_port(a) = None /\ clock_for_port(b) = None  BY DEF Plain
  <1>7. \A h \in async_groups \cup exclusive_groups : DOMAIN h \subseteq Nat \ {0}
    BY DEF IInv, GroupsInv
  <1>8. /\ x = resolve(a) /\ y = resolve(b)
        /\ resolve(a) \in Lineage(a) /\ resolve(b) \in Lineage(b)
        /\ a \in Lineage(a) /\ b \in Lineage(b)
    <2>1. clocks \in Seq(Clock)  BY DEF IInv, ClocksInv
    <2> QED  BY <1>2, <2>1, QuietGraph, ResolveIsDerived DEF Primaries
  <1>9. Separates(g, {x}, {y})
    <2> DEFINE i == GroupOf(g, {x})
               j == GroupOf(g, {y})
    <2>1. /\ i # 0 => i \in DOMAIN g /\ g[i] \cap {x} # {}
          /\ \A k \in DOMAIN g : g[k] \cap {x} # {} => i # 0
      BY <1>7, GroupFound
    <2>2. /\ j # 0 => j \in DOMAIN g /\ g[j] \cap {y} # {}
          /\ \A k \in DOMAIN g : g[k] \cap {y} # {} => j # 0
      BY <1>7, GroupFound
    <2> HIDE DEF i, j
    <2>3. i # 0 /\ j # 0  BY <1>4, <2>1, <2>2
    <2>4. i # j  BY <1>4, <2>1, <2>2, <2>3
    <2> QED  BY <2>3, <2>4 DEF Separates, i, j
  <1>10. are_async(a, b)  BY <1>8, <1>9, <1>4 DEF are_async
  <1>11. ~is_unreachable_crossing(a, b)
    <2> SUFFICES ASSUME NEW h \in exclusive_groups, Separates(h, {a, resolve(a)}, {b, resolve(b)})
                 PROVE  FALSE
      BY DEF is_unreachable_crossing
    <2>1. PICK i \in DOMAIN h : h[i] \cap {a, resolve(a)} # {}
      BY <1>7, SeparatesApart
    <2>2. PICK z \in {a, resolve(a)} : z \in h[i]  BY <2>1
    <2>3. z \in Exclusive
      <3>1. h[i] \in ToSet(h)  BY DEF ToSet
      <3>2. \A e \in exclusive_groups : UNION ToSet(e) \subseteq Exclusive  BY DEF Exclusive
      <3>3. z \in UNION ToSet(h)  BY <2>2, <3>1
      <3> QED  BY <3>2, <3>3
    <2> QED  BY <1>8, <1>5, <2>3
  <1> QED  BY <1>10, <1>11, <1>6 DEF Kept
------------------------------------------------------------------------------
(* Without a diagnostic about the clock graph, every clock resolves to the  *)
(* one clock without a master it is derived from (ClockSpec.resolve, with   *)
(* its guard against cycles); a pin is at a clock declared on it, or at one *)
(* that was reported as declared twice (pin_clocks).                        *)
THEOREM ClocksResolve == Spec => []RootsArePrimary
  BY ClocksAreToldOf, InvRootsArePrimary, PTL

(* validate_clock_graph reports the cycles there are, each as a set of      *)
(* clocks derived from one another and nothing else.                        *)
THEOREM CyclesAreTold == Spec => []CyclesReportedExactly
  BY ClocksAreToldOf, InvCyclesReported, PTL

(* A generated clock is asynchronous to one it is derived from only where a *)
(* statement puts the two apart by name (are_async, step 1).                *)
THEOREM DerivedIsSynchronous == Spec => []GeneratedSyncToMaster
  BY ClocksAreToldOf, InvSyncToMaster, PTL

(* are_async and is_unreachable_crossing invent no relation: some statement *)
(* names a relative of each clock and takes them apart.                     *)
THEOREM NothingIsInvented == Spec => []SeparationIsDeclared
  BY ClocksAreToldOf, InvSeparation, PTL

(* A statement about two primary clocks reaches everything derived from     *)
(* them: filter_async keeps the crossings in between.                       *)
THEOREM DeclarationsHold == Spec => []DeclaredAsyncIsKept
  BY ClocksAreToldOf, InvAsyncIsKept, PTL

(***************************************************************************)
(* Which group comes first.  Both relations look names up in the first     *)
(* group of a statement that holds them (next in are_async and             *)
(* is_unreachable_crossing).  Where no statement lists a clock in two      *)
(* groups, nor its root in another, that is the only one.                  *)
(***************************************************************************)
InOneGroup(g, names) ==
    \A i, j \in DOMAIN g : g[i] \cap names # {} /\ g[j] \cap names # {} => i = j

(* The names are in groups apart, wherever these stand in the statement.   *)
Apart(g, as, bs) ==
    \E i, j \in DOMAIN g : i # j /\ g[i] \cap as # {} /\ g[j] \cap bs # {}

LEMMA SeparatedWhenApart ==
    ASSUME NEW g, DOMAIN g \subseteq Nat \ {0}, NEW as, NEW bs,
           InOneGroup(g, as), InOneGroup(g, bs)
    PROVE  Separates(g, as, bs) <=> Apart(g, as, bs)
<1>1. ASSUME Separates(g, as, bs) PROVE Apart(g, as, bs)
  BY <1>1, SeparatesApart DEF Apart
<1>2. ASSUME Apart(g, as, bs) PROVE Separates(g, as, bs)
  <2>1. PICK i \in DOMAIN g, j \in DOMAIN g :
           i # j /\ g[i] \cap as # {} /\ g[j] \cap bs # {}
    BY <1>2 DEF Apart
  <2>2. GroupOf(g, as) # 0 /\ GroupOf(g, bs) # 0  BY <2>1, GroupFound
  <2>3. /\ GroupOf(g, as) \in DOMAIN g /\ g[GroupOf(g, as)] \cap as # {}
        /\ GroupOf(g, bs) \in DOMAIN g /\ g[GroupOf(g, bs)] \cap bs # {}
    BY <2>2, GroupFound
  <2>4. GroupOf(g, as) = i /\ GroupOf(g, bs) = j  BY <2>1, <2>3 DEF InOneGroup
  <2> QED  BY <2>1, <2>2, <2>4 DEF Separates
<1> QED  BY <1>1, <1>2

AsyncWhenApart(a, b) ==
    /\ a # b
    /\ \/ Unconstrained \in {a, b}
       \/ \E g \in async_groups : Apart(g, {a}, {b})
       \/ /\ resolve(a) # resolve(b)
          /\ \/ {{resolve(a), resolve(b)}, {a, b}} \cap false_path_pairs # {}
             \/ \E g \in async_groups : Apart(g, {resolve(a)}, {resolve(b)})

UnreachableWhenApart(a, b) ==
    /\ a # b /\ resolve(a) # resolve(b)
    /\ \E g \in exclusive_groups : Apart(g, {a, resolve(a)}, {b, resolve(b)})

(* No statement is ambiguous about the clock.                              *)
Unambiguous(a) ==
    /\ \A g \in async_groups : InOneGroup(g, {a}) /\ InOneGroup(g, {resolve(a)})
    /\ \A g \in exclusive_groups : InOneGroup(g, {a, resolve(a)})

(* For every file: the order in which a statement lists its groups does    *)
(* not show in the relations of two clocks no statement is ambiguous of.   *)
THEOREM GroupOrderInvisible ==
    Spec => [](\A a, b : Unambiguous(a) /\ Unambiguous(b) =>
                  /\ are_async(a, b) <=> AsyncWhenApart(a, b)
                  /\ is_unreachable_crossing(a, b) <=> UnreachableWhenApart(a, b))
<1>1. IInv => \A a, b : Unambiguous(a) /\ Unambiguous(b) =>
                 /\ are_async(a, b) <=> AsyncWhenApart(a, b)
                 /\ is_unreachable_crossing(a, b) <=> UnreachableWhenApart(a, b)
  <2> SUFFICES ASSUME IInv, NEW a, NEW b, Unambiguous(a), Unambiguous(b)
               PROVE  /\ are_async(a, b) <=> AsyncWhenApart(a, b)
                      /\ is_unreachable_crossing(a, b) <=> UnreachableWhenApart(a, b)
    OBVIOUS
  <2>1. \A g \in async_groups \cup exclusive_groups : DOMAIN g \subseteq Nat \ {0}
    BY DEF IInv, GroupsInv
  <2>2. \A g \in async_groups :
           /\ Separates(g, {a}, {b}) <=> Apart(g, {a}, {b})
           /\ Separates(g, {resolve(a)}, {resolve(b)}) <=> Apart(g, {resolve(a)}, {resolve(b)})
    BY <2>1, SeparatedWhenApart DEF Unambiguous
  <2>3. \A g \in exclusive_groups :
           Separates(g, {a, resolve(a)}, {b, resolve(b)})
               <=> Apart(g, {a, resolve(a)}, {b, resolve(b)})
    BY <2>1, SeparatedWhenApart DEF Unambiguous
  <2>4. are_async(a, b) <=> AsyncWhenApart(a, b)  BY <2>2 DEF are_async, AsyncWhenApart
  <2>5. is_unreachable_crossing(a, b) <=> UnreachableWhenApart(a, b)
    BY <2>3 DEF is_unreachable_crossing, UnreachableWhenApart
  <2> QED  BY <2>4, <2>5
<1> QED  BY <1>1, ClocksAreToldOf, PTL
=============================================================================
